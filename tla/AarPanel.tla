------------------------------ MODULE AarPanel ------------------------------
(***************************************************************************)
(* The after-action report of a battle report, its comments and reactions  *)
(* (src/app/api/aar.py; the tables are at the end of src/app/db/models.py).*)
(*                                                                         *)
(* A handler reads rows outside any transaction and then writes by their   *)
(* ids in one: other requests commit in between.  SQLite numbers a row one *)
(* above the highest id in its table, so that a removed row's id comes     *)
(* back; `n` numbers the rows in the order they are made, once and for all.*)
(*                                                                         *)
(* Texts are abstracted to who wrote them and for which report; one emoji  *)
(* stands for the palette.                                                 *)
(***************************************************************************)
EXTENDS Naturals, FiniteSets

CONSTANTS
    BR,         \* battle reports
    USER,       \* users
    Elevated,   \* FC and High Command
    REQ,        \* requests in flight
    MaxRows     \* bound: rows ever made

ASSUME AarAssumption == Elevated \subseteq USER /\ MaxRows \in Nat

VARIABLES
    report,     \* reports with a BattleReport row
    aar,        \* Aar rows, by aar_id
    comment,    \* AarComment rows, by comment_id
    reaction,   \* AarReaction rows, by reaction_id
    req,        \* locals of the requests in flight
    made,       \* history: rows made so far
    raced,      \* history: rows removed while another request had read them, and
                \* comments that came under the row that had got the id of such a one
    failed      \* the request that failed with an error in the last step

rows == <<aar, comment, reaction>>
vars == <<report, rows, req, made, raced, failed>>

\* A request without work; `held` are the rows that one has read and goes back to.
Idle == [op |-> "none", held |-> {}]
NoRows == [i \in {} |-> Idle]

\* The id of the next row, one above the highest.
NewIds(table) ==
    {i \in 1..MaxRows :
       i - 1 \in DOMAIN table \union {0} /\ \A j \in DOMAIN table : j < i}
Without(table, ids) == [i \in DOMAIN table \ ids |-> table[i]]
With(table, id, row) ==
    [i \in DOMAIN table \union {id} |-> IF i = id THEN row ELSE table[i]]

\* _load_aar: the aar_id of the report, 0 for none.
LoadAar(b) ==
    LET mine == {i \in DOMAIN aar : aar[i].br = b} IN
    IF mine = {} THEN 0 ELSE CHOOSE i \in mine : TRUE

\* The rows a target may be among.
TargetTable(t) == IF t.type = "aar" THEN aar ELSE comment

Existing(t, u) == {i \in DOMAIN reaction : reaction[i].target = t /\ reaction[i].user = u}

-----------------------------------------------------------------------------
Init ==
    /\ report = BR
    /\ aar = NoRows /\ comment = NoRows /\ reaction = NoRows
    /\ req = [r \in REQ |-> Idle]
    /\ made = 0 /\ raced = {} /\ failed = Idle

\* The first part of a handler: checks, and reads.
Begin(r, state) ==
    /\ req[r] = Idle
    /\ req' = [req EXCEPT ![r] = state]
    /\ failed' = Idle
    /\ UNCHANGED <<report, rows, made, raced>>

\* The second part ends the request.
End(r) ==
    /\ req' = [req EXCEPT ![r] = Idle]
    /\ failed' = Idle
    /\ UNCHANGED report

Make == made < MaxRows /\ made' = made + 1

\* The commit fails (a constraint, or an UPDATE that finds no row).
Fail(r) ==
    /\ req' = [req EXCEPT ![r] = Idle]
    /\ failed' = req[r]
    /\ UNCHANGED <<report, rows, made, raced>>

\* Rows numbered N go, at the hands of request r.
Removed(r, N) ==
    raced' = raced \union {n \in N : \E q \in REQ \ {r} : n \in req[q].held}

Numbers(table, ids) == {table[i].n : i \in ids \intersect DOMAIN table}

(* The report.                                                             *)

PutAarRead(r, u, b) ==
    /\ u \in Elevated /\ b \in report
    /\ Begin(r, [op |-> "put", br |-> b, aar |-> LoadAar(b),
                 held |-> IF LoadAar(b) = 0 THEN {} ELSE {aar[LoadAar(b)].n}])

\* Inserted, unless another request was first (br_id is unique) or the report
\* has gone; or the row with the id that was read is updated.
PutAarCommit(r) ==
    /\ req[r].op = "put"
    /\ LET q == req[r] IN
       \/ /\ q.aar = 0 /\ q.br \in report /\ LoadAar(q.br) = 0
          /\ Make
          /\ \E id \in NewIds(aar) :
               aar' = With(aar, id, [br |-> q.br, about |-> q.br, n |-> made'])
          /\ End(r) /\ UNCHANGED <<comment, reaction, raced>>
       \/ /\ q.aar \in DOMAIN aar
          /\ aar' = [aar EXCEPT ![q.aar].about = q.br]
          /\ End(r) /\ UNCHANGED <<comment, reaction, made, raced>>
       \/ /\ IF q.aar = 0 THEN q.br \notin report \/ LoadAar(q.br) # 0
                          ELSE q.aar \notin DOMAIN aar
          /\ Fail(r)

DeleteAarRead(r, u, b) ==
    /\ u \in Elevated /\ b \in report /\ LoadAar(b) # 0
    /\ Begin(r, [op |-> "deleteAar", aar |-> LoadAar(b), held |-> {aar[LoadAar(b)].n}])

\* The rows of the reports with these aar_ids, reactions first.
Teardown(r, ids) ==
    LET cs == {c \in DOMAIN comment : comment[c].aar \in ids}
        rs == {i \in DOMAIN reaction : reaction[i].aar \in ids}
    IN /\ reaction' = Without(reaction, rs)
       /\ comment' = Without(comment, cs)
       /\ aar' = Without(aar, ids)
       /\ Removed(r, Numbers(aar, ids) \union Numbers(comment, cs) \union Numbers(reaction, rs))
       /\ UNCHANGED made

DeleteAarCommit(r) ==
    /\ req[r].op = "deleteAar"
    /\ Teardown(r, {req[r].aar})
    /\ End(r)

\* delete_br, whose DELETE of the report cascades to its Aar.
DeleteBr(r, b) ==
    /\ b \in report /\ req[r] = Idle
    /\ report' = report \ {b}
    /\ Teardown(r, {LoadAar(b)})
    /\ failed' = Idle
    /\ UNCHANGED req

(* Comments.                                                               *)

CreateCommentRead(r, u, b) ==
    /\ b \in report /\ LoadAar(b) # 0
    /\ Begin(r, [op |-> "comment", user |-> u, br |-> b, aar |-> LoadAar(b),
                 of |-> aar[LoadAar(b)].n, held |-> {aar[LoadAar(b)].n}])

CreateCommentCommit(r) ==
    /\ req[r].op = "comment"
    /\ LET q == req[r] IN
       \/ /\ q.aar \in DOMAIN aar
          /\ Make
          /\ \E id \in NewIds(comment) :
               comment' = With(comment, id,
                               [br |-> q.br, aar |-> q.aar, author |-> q.user,
                                writer |-> q.user, of |-> q.of, n |-> made'])
          /\ raced' = IF aar[q.aar].n = q.of THEN raced ELSE raced \union {made'}
          /\ End(r) /\ UNCHANGED <<aar, reaction>>
       \/ q.aar \notin DOMAIN aar /\ Fail(r)

EditCommentRead(r, u, b, c) ==
    /\ b \in report /\ comment[c].br = b /\ comment[c].author = u
    /\ Begin(r, [op |-> "edit", user |-> u, comment |-> c, held |-> {comment[c].n}])

EditCommentCommit(r) ==
    /\ req[r].op = "edit"
    /\ LET q == req[r] IN
       \/ /\ q.comment \in DOMAIN comment
          /\ comment' = [comment EXCEPT ![q.comment].writer = q.user]
          /\ End(r) /\ UNCHANGED <<aar, reaction, made, raced>>
       \/ q.comment \notin DOMAIN comment /\ Fail(r)

DeleteCommentRead(r, u, b, c) ==
    /\ b \in report /\ comment[c].br = b /\ (comment[c].author = u \/ u \in Elevated)
    /\ Begin(r, [op |-> "deleteComment", comment |-> c, held |-> {comment[c].n}])

\* Mutant: the reactions are left to the cascade, which goes by aar_id.
ReactionsLeft(c) == {}

\* "A comment's reactions hang off aar_id (not the comment)".
ReactionsTo(c) == {i \in DOMAIN reaction : reaction[i].target = [type |-> "comment", id |-> c]}

DeleteCommentCommit(r) ==
    /\ req[r].op = "deleteComment"
    /\ LET c == req[r].comment IN
       /\ reaction' = Without(reaction, ReactionsTo(c))
       /\ comment' = Without(comment, {c})
       /\ Removed(r, Numbers(comment, {c}) \union Numbers(reaction, ReactionsTo(c)))
    /\ End(r)
    /\ UNCHANGED <<aar, made>>

(* Reactions.                                                              *)

Targets(b) ==
    [type : {"aar"}, id : {LoadAar(b)}]
      \union [type : {"comment"}, id : {c \in DOMAIN comment : comment[c].br = b}]

ToggleRead(r, u, b, t) ==
    /\ b \in report /\ LoadAar(b) # 0
    /\ t \in Targets(b)
    /\ Begin(r, [op |-> "toggle", user |-> u, aar |-> LoadAar(b), target |-> t,
                 of |-> TargetTable(t)[t.id].n, held |-> {aar[LoadAar(b)].n, TargetTable(t)[t.id].n}])

\* The SELECT of the caller's reaction.
ToggleLook(r) ==
    /\ req[r].op = "toggle"
    /\ LET q == req[r]
           there == Existing(q.target, q.user) IN
       req' = [req EXCEPT ![r] = [op |-> "toggling", user |-> q.user, aar |-> q.aar,
                                  target |-> q.target, of |-> q.of, existing |-> there,
                                  held |-> q.held \union Numbers(reaction, there)]]
    /\ failed' = Idle
    /\ UNCHANGED <<report, rows, made, raced>>

\* Mutant: a plain INSERT, which the unique constraint refuses.
InsertRefusedOnConflict(q) ==
    Existing(q.target, q.user) # {} \/ q.aar \notin DOMAIN aar

\* _add_reaction: INSERT ... ON CONFLICT DO NOTHING, of a row whose aar_id is to
\* be there at the commit.
InsertRefused(q) ==
    Existing(q.target, q.user) = {} /\ q.aar \notin DOMAIN aar

\* The reaction that was read is removed, by its reaction_id, or one is added.
ToggleCommit(r) ==
    /\ req[r].op = "toggling"
    /\ LET q == req[r] IN
       \/ /\ q.existing # {}
          /\ reaction' = Without(reaction, q.existing)
          /\ Removed(r, Numbers(reaction, q.existing))
          /\ End(r) /\ UNCHANGED <<aar, comment, made>>
       \/ /\ q.existing = {} /\ ~InsertRefused(q)
          /\ IF Existing(q.target, q.user) # {}
               THEN UNCHANGED <<reaction, made>>
               ELSE /\ Make
                    /\ \E id \in NewIds(reaction) :
                         reaction' = With(reaction, id,
                                          [aar |-> q.aar, target |-> q.target,
                                           user |-> q.user, of |-> q.of, n |-> made'])
          /\ End(r) /\ UNCHANGED <<aar, comment, raced>>
       \/ q.existing = {} /\ InsertRefused(q) /\ Fail(r)

Next ==
    \E r \in REQ :
      \/ \E u \in USER, b \in BR :
           \/ PutAarRead(r, u, b) \/ DeleteAarRead(r, u, b)
           \/ CreateCommentRead(r, u, b)
           \/ \E c \in DOMAIN comment :
                EditCommentRead(r, u, b, c) \/ DeleteCommentRead(r, u, b, c)
           \/ \E t \in Targets(b) : ToggleRead(r, u, b, t)
      \/ PutAarCommit(r) \/ DeleteAarCommit(r) \/ CreateCommentCommit(r)
      \/ EditCommentCommit(r) \/ DeleteCommentCommit(r)
      \/ ToggleLook(r) \/ ToggleCommit(r)
      \/ \E b \in BR : DeleteBr(r, b)

Spec == Init /\ [][Next]_vars

-----------------------------------------------------------------------------
\* "Deleting the parent BR cascades to the AAR, its comments and reactions", "a
\* comment delete removes its reactions in the service" (models.py): what a
\* panel shows was written for it.  No comment or reaction left behind by a
\* delete turns up under the next row with the same id, unless the row it was
\* meant for was removed while its own request was under way, or is a comment
\* that had come under another report in this way.
PanelsShowTheirOwn ==
    /\ \A c \in DOMAIN comment :
         /\ comment[c].aar \in DOMAIN aar
         /\ comment[c].of # aar[comment[c].aar].n => comment[c].of \in raced
    /\ \A i \in DOMAIN reaction :
         /\ reaction[i].aar \in DOMAIN aar
         /\ LET t == reaction[i].target IN
            t.id \in DOMAIN TargetTable(t) /\ reaction[i].of # TargetTable(t)[t.id].n
              => reaction[i].of \in raced

\* "Two quick toggles (a double click) can both observe "absent" and both insert;
\* ON CONFLICT DO NOTHING makes the second a no-op instead of a 500"
\* (_add_reaction): a request fails only when the report or a row it had read
\* went in between, or when it is the second to write a report's first AAR.
OnlyRacesFail ==
    failed # Idle =>
      \/ failed.held \intersect raced # {}
      \/ failed.op = "put" /\ failed.aar = 0

-----------------------------------------------------------------------------
(* What the repository says and the code does not do.                      *)

\* "Only the author may edit a comment" (edit_comment): the text of a comment is
\* its author's.
AuthorsWriteTheirComments ==
    \A c \in DOMAIN comment : comment[c].writer = comment[c].author
=============================================================================
