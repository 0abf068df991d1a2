--------------------------- MODULE AarPanelProofs ---------------------------
(***************************************************************************)
(* Proofs about the after-action reports, for any reports, users and       *)
(* requests: what the panel of a report shows, and which requests fail.    *)
(***************************************************************************)
EXTENDS AarPanel, TLAPS

AarRow == [br : BR, about : BR, n : Nat]
CommentRow == [br : BR, aar : Nat, author : USER, writer : USER, of : Nat, n : Nat]
Target == [type : {"aar", "comment"}, id : Nat]
ReactionRow == [aar : Nat, target : Target, user : USER, of : Nat, n : Nat]

RowsOK ==
    /\ made \in Nat
    /\ aar \in [DOMAIN aar -> AarRow] /\ DOMAIN aar \subseteq Nat \ {0}
    /\ \A i \in DOMAIN aar : aar[i].n <= made
    /\ comment \in [DOMAIN comment -> CommentRow] /\ DOMAIN comment \subseteq Nat \ {0}
    /\ reaction \in [DOMAIN reaction -> ReactionRow]

\* br_id is unique.
OneAarEach == \A i, j \in DOMAIN aar : aar[i].br = aar[j].br => i = j

\* A comment goes with the row it was written for, or with the one that came
\* after it under its id; the latter comments are all counted among the raced.
CommentsOK ==
    \A c \in DOMAIN comment :
      LET m == comment[c] IN
      /\ m.aar \in DOMAIN aar
      /\ m.of \in raced \/ m.of = aar[m.aar].n
      /\ m.n \in raced \/ (m.of = aar[m.aar].n /\ aar[m.aar].br = m.br)

\* Target t is the row numbered n, of the report with aar_id a.
IsRow(t, a, n) ==
    /\ t.type = "aar" => t.id = a /\ a \in DOMAIN aar /\ aar[a].n = n
    /\ t.type = "comment" =>
         t.id \in DOMAIN comment /\ comment[t.id].n = n /\ comment[t.id].aar = a

ReactionsOK ==
    \A i \in DOMAIN reaction :
      LET m == reaction[i] IN
      m.aar \in DOMAIN aar /\ (m.of \in raced \/ IsRow(m.target, m.aar, m.of))

\* A request has read the row with aar_id a, which is still there unless raced.
HasAar(q) == q.held \intersect raced # {} \/ (q.aar \in DOMAIN aar /\ aar[q.aar].n \in q.held)

\* What a request goes back to is what it has read, or was removed meanwhile.
RequestOK(q) ==
    /\ q.op = "put" => q.br \in BR /\ (q.aar = 0 \/ HasAar(q))
    /\ q.op = "comment" =>
         /\ q.user \in USER /\ q.br \in BR /\ q.of \in Nat /\ q.aar \in Nat
         /\ q.of \in q.held /\ q.of <= made
         /\ q.of \in raced \/ (q.aar \in DOMAIN aar /\ aar[q.aar].n = q.of)
         /\ (q.aar \in DOMAIN aar /\ aar[q.aar].n = q.of) => aar[q.aar].br = q.br
    /\ q.op = "edit" =>
         /\ q.user \in USER
         /\ \/ q.held \intersect raced # {}
            \/ q.comment \in DOMAIN comment /\ comment[q.comment].n \in q.held
    /\ q.op \in {"toggle", "toggling"} =>
         /\ q.user \in USER /\ q.target \in Target /\ q.of \in Nat /\ q.aar \in Nat
         /\ HasAar(q) /\ q.of \in q.held
         /\ q.of \in raced \/ IsRow(q.target, q.aar, q.of)

RequestsOK == req = [r \in REQ |-> req[r]] /\ \A r \in REQ : RequestOK(req[r])

PanelInv ==
    /\ RowsOK /\ OneAarEach /\ CommentsOK /\ ReactionsOK /\ RequestsOK
    /\ OnlyRacesFail

-----------------------------------------------------------------------------
LEMMA PanelInvInit == Init => PanelInv
<1>. SUFFICES ASSUME Init PROVE PanelInv
  OBVIOUS
<1>1. RowsOK
  BY DEF Init, RowsOK, NoRows
<1>2. OneAarEach /\ CommentsOK /\ ReactionsOK
  BY DEF Init, NoRows, OneAarEach, CommentsOK, ReactionsOK
<1>3. RequestsOK /\ OnlyRacesFail
  BY DEF Init, RequestsOK, RequestOK, OnlyRacesFail, Idle
<1>. QED  BY <1>1, <1>2, <1>3 DEF PanelInv

\* The step leaves request q what it has read, or counts it among the raced, and
\* gives a new report a new number.
KeptFor(q) ==
    /\ made \in Nat /\ made' \in Nat /\ made <= made' /\ raced \subseteq raced'
    /\ \A i \in DOMAIN aar' :
         \/ i \in DOMAIN aar /\ aar'[i].n = aar[i].n /\ aar'[i].br = aar[i].br
         \/ aar'[i].n \in Nat /\ aar'[i].n > made
    /\ \A i \in DOMAIN aar :
         \/ aar[i].n \notin q.held
         \/ aar[i].n \in raced'
         \/ i \in DOMAIN aar' /\ aar'[i].n = aar[i].n
    /\ \A c \in DOMAIN comment :
         \/ comment[c].n \notin q.held
         \/ comment[c].n \in raced'
         \/ /\ c \in DOMAIN comment' /\ comment'[c].n = comment[c].n
            /\ comment'[c].aar = comment[c].aar

LEMMA RequestKept ==
    ASSUME NEW q, RequestOK(q), KeptFor(q)
    PROVE  RequestOK(q)'
<1>1. HasAar(q) => HasAar(q)'
  BY DEF KeptFor, HasAar
<1>2. q.op = "comment" =>
        /\ q.of <= made'
        /\ q.of \in raced' \/ (q.aar \in DOMAIN aar' /\ aar'[q.aar].n = q.of)
        /\ (q.aar \in DOMAIN aar' /\ aar'[q.aar].n = q.of) => aar'[q.aar].br = q.br
  BY DEF KeptFor, RequestOK
<1>3. q.op = "edit" =>
        \/ q.held \intersect raced' # {}
        \/ q.comment \in DOMAIN comment' /\ comment'[q.comment].n \in q.held
  BY DEF KeptFor, RequestOK
<1>4. q.of \in q.held /\ q.target \in Target /\ (q.of \in raced \/ IsRow(q.target, q.aar, q.of))
        => q.of \in raced' \/ IsRow(q.target, q.aar, q.of)'
  BY DEF KeptFor, IsRow, Target
<1>. QED  BY <1>1, <1>2, <1>3, <1>4 DEF RequestOK

\* A request is all right if it is the record s and s is.
LEMMA RequestIs ==
    ASSUME NEW r \in REQ, NEW s, req'[r] = s, RequestOK(s)'
    PROVE  RequestOK(req[r])'
BY DEF RequestOK, HasAar, IsRow

\* One request goes on, the others keep what they have.
LEMMA RequestsKept ==
    ASSUME NEW r \in REQ, NEW state, RequestsOK,
           req' = [req EXCEPT ![r] = state], RequestOK(state)',
           \A q \in REQ \ {r} : KeptFor(req[q])
    PROVE  RequestsOK'
<1>1. req'[r] = state /\ req' = [q \in REQ |-> req'[q]]
  BY DEF RequestsOK
<1>2. ASSUME NEW q \in REQ, q # r
      PROVE  RequestOK(req[q])'
  <2>1. PICK s : s = req[q]
    OBVIOUS
  <2>2. RequestOK(s) /\ KeptFor(s)
    BY <2>1, <1>2 DEF RequestsOK, RequestOK, HasAar, IsRow, KeptFor
  <2>3. req'[q] = s
    BY <1>2, <2>1 DEF RequestsOK
  <2>. QED  BY <2>2, <2>3, RequestKept, RequestIs
<1>3. RequestOK(req[r])'
  BY <1>1, RequestIs
<1>. QED  BY <1>1, <1>2, <1>3 DEF RequestsOK

\* A request that only reads is all right when what it takes away is.
LEMMA ReadKeepsInv ==
    ASSUME PanelInv, NEW r \in REQ, NEW s, RequestOK(s),
           req' = [req EXCEPT ![r] = s], failed' = Idle,
           UNCHANGED <<report, rows, made, raced>>
    PROVE  PanelInv'
<1>1. RowsOK' /\ OneAarEach' /\ CommentsOK' /\ ReactionsOK'
  BY DEF PanelInv, RowsOK, OneAarEach, CommentsOK, ReactionsOK, IsRow, rows
<1>2. RequestOK(s)' /\ \A q \in REQ : KeptFor(req[q])
  BY DEF RequestOK, HasAar, IsRow, KeptFor, rows, PanelInv, RowsOK
<1>3. RequestsOK'
  BY <1>2, RequestsKept DEF PanelInv
<1>. QED  BY <1>1, <1>3 DEF PanelInv, OnlyRacesFail

\* A commit that fails changes nothing; it must have been raced.
LEMMA FailKeepsInv ==
    ASSUME PanelInv, NEW r \in REQ, Fail(r),
           req[r].held \intersect raced # {} \/ (req[r].op = "put" /\ req[r].aar = 0)
    PROVE  PanelInv'
<1>1. RowsOK' /\ OneAarEach' /\ CommentsOK' /\ ReactionsOK'
  BY DEF PanelInv, RowsOK, OneAarEach, CommentsOK, ReactionsOK, IsRow, rows, Fail
<1>2. RequestOK(Idle)' /\ \A q \in REQ : KeptFor(req[q])
  BY DEF RequestOK, Idle, KeptFor, rows, Fail, PanelInv, RowsOK
<1>3. RequestsOK'
  BY <1>2, RequestsKept DEF PanelInv, Fail
<1>. QED  BY <1>1, <1>3 DEF PanelInv, OnlyRacesFail, Fail

\* The aar_id of a report is that of its row.
LEMMA LoadAarIsTheRow ==
    ASSUME NEW b, LoadAar(b) # 0
    PROVE  LoadAar(b) \in DOMAIN aar /\ aar[LoadAar(b)].br = b
BY DEF LoadAar

LEMMA LoadAarFinds ==
    ASSUME RowsOK, NEW i \in DOMAIN aar
    PROVE  LoadAar(aar[i].br) # 0
<1>. DEFINE mine == {j \in DOMAIN aar : aar[j].br = aar[i].br}
<1>1. i \in mine
  OBVIOUS
<1>2. (CHOOSE j \in mine : TRUE) \in mine
  BY <1>1
<1>. QED  BY <1>1, <1>2 DEF LoadAar, RowsOK

\* A new id is that of no row.
LEMMA NewIdIsNew ==
    ASSUME NEW table, DOMAIN table \subseteq Nat, NEW id, id \in NewIds(table)
    PROVE  id \in Nat \ {0} /\ id \notin DOMAIN table
BY AarAssumption DEF NewIds

-----------------------------------------------------------------------------
(* The report.                                                             *)

LEMMA PutAarReadInv ==
    ASSUME PanelInv, NEW r \in REQ, NEW u \in USER, NEW b \in BR, PutAarRead(r, u, b)
    PROVE  PanelInv'
<1>1. PICK s : /\ s = [op |-> "put", br |-> b, aar |-> LoadAar(b),
                       held |-> IF LoadAar(b) = 0 THEN {} ELSE {aar[LoadAar(b)].n}]
               /\ Begin(r, s)
  BY DEF PutAarRead
<1>2. s.aar = 0 \/ HasAar(s)
  BY <1>1, LoadAarIsTheRow DEF HasAar
<1>3. RequestOK(s)
  BY <1>1, <1>2 DEF RequestOK
<1>. QED  BY <1>1, <1>3, ReadKeepsInv DEF Begin

LEMMA DeleteAarReadInv ==
    ASSUME PanelInv, NEW r \in REQ, NEW u \in USER, NEW b \in BR, DeleteAarRead(r, u, b)
    PROVE  PanelInv'
<1>1. PICK s : /\ s = [op |-> "deleteAar", aar |-> LoadAar(b), held |-> {aar[LoadAar(b)].n}]
               /\ Begin(r, s)
  BY DEF DeleteAarRead
<1>2. RequestOK(s)
  BY <1>1 DEF RequestOK
<1>. QED  BY <1>1, <1>2, ReadKeepsInv DEF Begin

LEMMA CreateCommentReadInv ==
    ASSUME PanelInv, NEW r \in REQ, NEW u \in USER, NEW b \in BR, CreateCommentRead(r, u, b)
    PROVE  PanelInv'
<1>1. PICK s : /\ s = [op |-> "comment", user |-> u, br |-> b, aar |-> LoadAar(b),
                       of |-> aar[LoadAar(b)].n, held |-> {aar[LoadAar(b)].n}]
               /\ Begin(r, s) /\ LoadAar(b) # 0
  BY DEF CreateCommentRead
<1>2. /\ s.aar \in DOMAIN aar /\ aar[s.aar].n = s.of /\ aar[s.aar].br = s.br
      /\ s.aar \in Nat /\ s.of \in Nat /\ s.of <= made
  BY <1>1, LoadAarIsTheRow DEF PanelInv, RowsOK, AarRow
<1>3. RequestOK(s)
  BY <1>1, <1>2 DEF RequestOK
<1>. QED  BY <1>1, <1>3, ReadKeepsInv DEF Begin

LEMMA EditCommentReadInv ==
    ASSUME PanelInv, NEW r \in REQ, NEW u \in USER, NEW b \in BR, NEW c \in DOMAIN comment,
           EditCommentRead(r, u, b, c)
    PROVE  PanelInv'
<1>1. PICK s : /\ s = [op |-> "edit", user |-> u, comment |-> c, held |-> {comment[c].n}]
               /\ Begin(r, s)
  BY DEF EditCommentRead
<1>2. RequestOK(s)
  BY <1>1 DEF RequestOK
<1>. QED  BY <1>1, <1>2, ReadKeepsInv DEF Begin

LEMMA DeleteCommentReadInv ==
    ASSUME PanelInv, NEW r \in REQ, NEW u \in USER, NEW b \in BR, NEW c \in DOMAIN comment,
           DeleteCommentRead(r, u, b, c)
    PROVE  PanelInv'
<1>1. PICK s : /\ s = [op |-> "deleteComment", comment |-> c, held |-> {comment[c].n}]
               /\ Begin(r, s)
  BY DEF DeleteCommentRead
<1>2. RequestOK(s)
  BY <1>1 DEF RequestOK
<1>. QED  BY <1>1, <1>2, ReadKeepsInv DEF Begin

LEMMA ToggleReadInv ==
    ASSUME PanelInv, NEW r \in REQ, NEW u \in USER, NEW b \in BR, NEW t \in Targets(b),
           ToggleRead(r, u, b, t)
    PROVE  PanelInv'
<1>1. PICK s : /\ s = [op |-> "toggle", user |-> u, aar |-> LoadAar(b), target |-> t,
                       of |-> TargetTable(t)[t.id].n,
                       held |-> {aar[LoadAar(b)].n, TargetTable(t)[t.id].n}]
               /\ Begin(r, s) /\ LoadAar(b) # 0
  BY DEF ToggleRead
<1>2. /\ s.aar \in DOMAIN aar /\ s.aar \in Nat /\ aar[s.aar].n \in s.held /\ aar[s.aar].br = b
      /\ aar[s.aar].n \in Nat
  BY <1>1, LoadAarIsTheRow DEF PanelInv, RowsOK, AarRow
<1>3. CASE t \in [type : {"aar"}, id : {LoadAar(b)}]
  <2>1. t \in Target /\ t.type = "aar" /\ t.id = s.aar /\ s.of = aar[s.aar].n
    BY <1>1, <1>2, <1>3 DEF Target, TargetTable
  <2>2. IsRow(t, s.aar, s.of)
    BY <1>2, <2>1 DEF IsRow
  <2>. QED  BY <1>1, <1>2, <2>1, <2>2, ReadKeepsInv DEF Begin, RequestOK, HasAar
<1>4. CASE t \in [type : {"comment"}, id : {c \in DOMAIN comment : comment[c].br = b}]
  <2>1. /\ t.type = "comment" /\ t.id \in DOMAIN comment /\ comment[t.id].br = b
        /\ s.of = comment[t.id].n
    BY <1>1, <1>4 DEF TargetTable
  <2>2. t \in Target /\ s.of \in Nat
    BY <1>4, <2>1 DEF Target, PanelInv, RowsOK, CommentRow
  <2>3. s.of \in raced \/ comment[t.id].aar = s.aar
    BY <1>2, <2>1 DEF PanelInv, CommentsOK, OneAarEach
  <2>4. s.of \in raced \/ IsRow(t, s.aar, s.of)
    BY <2>1, <2>3 DEF IsRow
  <2>. QED  BY <1>1, <1>2, <2>2, <2>4, ReadKeepsInv DEF Begin, RequestOK, HasAar
<1>. QED  BY <1>3, <1>4 DEF Targets

LEMMA ToggleLookInv ==
    ASSUME PanelInv, NEW r \in REQ, ToggleLook(r)
    PROVE  PanelInv'
<1>1. PICK q : q = req[r]
  OBVIOUS
<1>2. PICK s : /\ s = [op |-> "toggling", user |-> q.user, aar |-> q.aar,
                       target |-> q.target, of |-> q.of,
                       existing |-> Existing(q.target, q.user),
                       held |-> q.held \union Numbers(reaction, Existing(q.target, q.user))]
               /\ q.op = "toggle" /\ req' = [req EXCEPT ![r] = s] /\ failed' = Idle
               /\ UNCHANGED <<report, rows, made, raced>>
  BY <1>1 DEF ToggleLook
<1>3. RequestOK(q)
  BY <1>1 DEF PanelInv, RequestsOK, RequestOK, HasAar, IsRow
<1>4. HasAar(s)
  BY <1>2, <1>3 DEF RequestOK, HasAar
<1>5. RequestOK(s)
  BY <1>2, <1>3, <1>4 DEF RequestOK
<1>. QED  BY <1>2, <1>5, ReadKeepsInv

-----------------------------------------------------------------------------
(* The commits.                                                            *)

\* A request that ends with a commit that is right leaves everything right.
LEMMA EndKeepsInv ==
    ASSUME PanelInv, NEW r \in REQ, End(r),
           RowsOK', OneAarEach', CommentsOK', ReactionsOK',
           \A q \in REQ \ {r} : KeptFor(req[q])
    PROVE  PanelInv'
<1>1. RequestOK(Idle)'
  BY DEF RequestOK, Idle
<1>2. RequestsOK'
  BY <1>1, RequestsKept DEF PanelInv, End
<1>. QED  BY <1>2 DEF PanelInv, OnlyRacesFail, End

LEMMA PutAarCommitInv ==
    ASSUME PanelInv, NEW r \in REQ, PutAarCommit(r)
    PROVE  PanelInv'
<1>1. PICK q : q = req[r]
  OBVIOUS
<1>2. q.op = "put" /\ q.br \in BR /\ (q.aar = 0 \/ HasAar(q))
  BY <1>1 DEF PutAarCommit, PanelInv, RequestsOK, RequestOK, HasAar
<1>3. ASSUME LoadAar(q.br) = 0, Make, End(r), UNCHANGED <<comment, reaction, raced>>,
             NEW id \in NewIds(aar),
             aar' = With(aar, id, [br |-> q.br, about |-> q.br, n |-> made'])
      PROVE  PanelInv'
  <2>. DEFINE row == [br |-> q.br, about |-> q.br, n |-> made']
  <2>1. row \in AarRow /\ row.br = q.br /\ row.n = made' /\ made' \in Nat
    BY <1>2, <1>3 DEF AarRow, Make, PanelInv, RowsOK
  <2>. HIDE DEF row
  <2>2. /\ id \in Nat \ {0} /\ id \notin DOMAIN aar
        /\ DOMAIN aar' = DOMAIN aar \union {id} /\ aar'[id] = row
        /\ \A i \in DOMAIN aar : aar'[i] = aar[i]
        /\ aar' = [i \in DOMAIN aar' |-> aar'[i]]
    <3>1. DOMAIN aar \subseteq Nat
      BY DEF PanelInv, RowsOK
    <3>2. aar' = With(aar, id, row)
      BY <1>3 DEF row
    <3>3. aar' = [i \in DOMAIN aar' |-> aar'[i]]
      BY <3>2 DEF With
    <3>4. id \in Nat \ {0} /\ id \notin DOMAIN aar
      BY <3>1, NewIdIsNew
    <3>5. /\ DOMAIN aar' = DOMAIN aar \union {id} /\ aar'[id] = row
          /\ \A i \in DOMAIN aar : aar'[i] = aar[i]
      BY <3>2, <3>4 DEF With
    <3>. QED  BY <3>3, <3>4, <3>5
  <2>3. RowsOK'
    <3>1. \A i \in DOMAIN aar' : aar'[i] \in AarRow /\ aar'[i].n <= made'
      BY <1>3, <2>1, <2>2 DEF PanelInv, RowsOK, AarRow, Make
    <3>. QED  BY <1>3, <2>1, <2>2, <3>1 DEF PanelInv, RowsOK
  <2>4. OneAarEach'
    <3>1. \A i \in DOMAIN aar : aar[i].br # q.br
      BY <1>3, LoadAarFinds DEF PanelInv
    <3>. QED  BY <2>1, <2>2, <3>1 DEF PanelInv, OneAarEach
  <2>5. CommentsOK'
    BY <1>3, <2>2 DEF PanelInv, CommentsOK
  <2>6. ReactionsOK'
    BY <1>3, <2>2 DEF PanelInv, ReactionsOK, IsRow
  <2>7. \A p \in REQ : KeptFor(req[p])
    BY <1>3, <2>1, <2>2 DEF KeptFor, Make, PanelInv, RowsOK
  <2>. QED  BY <1>3, <2>3, <2>4, <2>5, <2>6, <2>7, EndKeepsInv
<1>4. ASSUME q.aar \in DOMAIN aar, aar' = [aar EXCEPT ![q.aar].about = q.br],
             End(r), UNCHANGED <<comment, reaction, made, raced>>
      PROVE  PanelInv'
  <2>1. /\ DOMAIN aar' = DOMAIN aar /\ aar' \in [DOMAIN aar' -> AarRow]
        /\ \A i \in DOMAIN aar : aar'[i].n = aar[i].n /\ aar'[i].br = aar[i].br
    BY <1>2, <1>4 DEF PanelInv, RowsOK, AarRow
  <2>2. RowsOK' /\ OneAarEach'
    BY <1>4, <2>1 DEF PanelInv, RowsOK, OneAarEach
  <2>3. CommentsOK'
    BY <1>4, <2>1 DEF PanelInv, CommentsOK
  <2>4. ReactionsOK'
    BY <1>4, <2>1 DEF PanelInv, ReactionsOK, IsRow
  <2>5. \A p \in REQ : KeptFor(req[p])
    BY <1>4, <2>1 DEF KeptFor, PanelInv, RowsOK
  <2>. QED  BY <1>4, <2>2, <2>3, <2>4, <2>5, EndKeepsInv
<1>5. ASSUME q.aar = 0 \/ q.aar \notin DOMAIN aar, Fail(r)
      PROVE  PanelInv'
  <2>1. q.held \intersect raced # {} \/ q.aar = 0
    BY <1>2, <1>5 DEF HasAar
  <2>. QED  BY <1>1, <1>2, <1>5, <2>1, FailKeepsInv
<1>. QED
  BY <1>1, <1>3, <1>4, <1>5 DEF PutAarCommit

\* The rows that go are the reports of these ids with all that hangs off them.
LEMMA TeardownRows ==
    ASSUME PanelInv, NEW r \in REQ, NEW ids, Teardown(r, ids)
    PROVE  /\ RowsOK' /\ OneAarEach' /\ CommentsOK' /\ ReactionsOK'
           /\ \A q \in REQ \ {r} : KeptFor(req[q])
<1>. DEFINE cs == {c \in DOMAIN comment : comment[c].aar \in ids}
            rs == {i \in DOMAIN reaction : reaction[i].aar \in ids}
            N == Numbers(aar, ids) \union Numbers(comment, cs) \union Numbers(reaction, rs)
<1>1. /\ DOMAIN aar' = DOMAIN aar \ ids /\ DOMAIN comment' = DOMAIN comment \ cs
      /\ DOMAIN reaction' = DOMAIN reaction \ rs
      /\ \A i \in DOMAIN aar' : aar'[i] = aar[i]
      /\ \A i \in DOMAIN comment' : comment'[i] = comment[i]
      /\ \A i \in DOMAIN reaction' : reaction'[i] = reaction[i]
      /\ aar' = [i \in DOMAIN aar' |-> aar'[i]]
      /\ comment' = [i \in DOMAIN comment' |-> comment'[i]]
      /\ reaction' = [i \in DOMAIN reaction' |-> reaction'[i]]
      /\ made' = made
  BY DEF Teardown, Without
<1>2. raced' = raced \union {n \in N : \E q \in REQ \ {r} : n \in req[q].held}
  BY DEF Teardown, Removed
<1>3. RowsOK'
  BY <1>1 DEF PanelInv, RowsOK
<1>4. OneAarEach'
  BY <1>1 DEF PanelInv, OneAarEach
<1>5. raced \subseteq raced'
  BY <1>2
<1>6. CommentsOK'
  <2>. SUFFICES ASSUME NEW c \in DOMAIN comment'
                PROVE  /\ comment[c].aar \in DOMAIN aar'
                       /\ \/ comment[c].of \in raced'
                          \/ comment[c].of = aar'[comment[c].aar].n
                       /\ \/ comment[c].n \in raced'
                          \/ /\ comment[c].of = aar'[comment[c].aar].n
                             /\ aar'[comment[c].aar].br = comment[c].br
    BY <1>1 DEF CommentsOK
  <2>1. c \in DOMAIN comment /\ comment[c].aar \notin ids
    BY <1>1
  <2>2. comment[c].aar \in DOMAIN aar' /\ aar'[comment[c].aar] = aar[comment[c].aar]
    BY <1>1, <2>1 DEF PanelInv, CommentsOK
  <2>. QED  BY <1>5, <2>1, <2>2 DEF PanelInv, CommentsOK
<1>7. ReactionsOK'
  <2>. SUFFICES ASSUME NEW i \in DOMAIN reaction', NEW m, m = reaction[i]
                PROVE  m.aar \in DOMAIN aar' /\ (m.of \in raced' \/ IsRow(m.target, m.aar, m.of)')
    BY <1>1 DEF ReactionsOK, IsRow
  <2>1. /\ i \in DOMAIN reaction /\ m.aar \notin ids /\ m.aar \in DOMAIN aar
        /\ m.of \in raced \/ IsRow(m.target, m.aar, m.of)
    BY <1>1 DEF PanelInv, ReactionsOK
  <2>2. IsRow(m.target, m.aar, m.of) => IsRow(m.target, m.aar, m.of)'
    BY <1>1, <2>1 DEF IsRow
  <2>. QED  BY <1>1, <1>5, <2>1, <2>2
<1>8. ASSUME NEW q \in REQ \ {r}
      PROVE  KeptFor(req[q])
  <2>1. ASSUME NEW i \in DOMAIN aar
        PROVE  \/ aar[i].n \notin req[q].held
               \/ aar[i].n \in raced'
               \/ i \in DOMAIN aar' /\ aar'[i] = aar[i]
    BY <1>1, <1>2 DEF Numbers
  <2>2. ASSUME NEW c \in DOMAIN comment
        PROVE  \/ comment[c].n \notin req[q].held
               \/ comment[c].n \in raced'
               \/ c \in DOMAIN comment' /\ comment'[c] = comment[c]
    BY <1>1, <1>2 DEF Numbers
  <2>. QED  BY <1>1, <1>5, <2>1, <2>2 DEF KeptFor, PanelInv, RowsOK
<1>. QED  BY <1>3, <1>4, <1>6, <1>7, <1>8

LEMMA DeleteAarCommitInv ==
    ASSUME PanelInv, NEW r \in REQ, DeleteAarCommit(r)
    PROVE  PanelInv'
BY TeardownRows, EndKeepsInv DEF DeleteAarCommit

LEMMA DeleteBrInv ==
    ASSUME PanelInv, NEW r \in REQ, NEW b \in BR, DeleteBr(r, b)
    PROVE  PanelInv'
<1>1. /\ req[r] = Idle /\ req' = req /\ failed' = Idle
      /\ Teardown(r, {LoadAar(b)})
  BY DEF DeleteBr
<1>2. /\ RowsOK' /\ OneAarEach' /\ CommentsOK' /\ ReactionsOK'
      /\ \A q \in REQ \ {r} : KeptFor(req[q])
  BY <1>1, TeardownRows
<1>3. req' = [req EXCEPT ![r] = Idle]
  BY <1>1 DEF PanelInv, RequestsOK
<1>4. RequestOK(Idle)'
  BY DEF RequestOK, Idle
<1>5. RequestsOK'
  BY <1>2, <1>3, <1>4, RequestsKept DEF PanelInv
<1>. QED  BY <1>1, <1>2, <1>5 DEF PanelInv, OnlyRacesFail

-----------------------------------------------------------------------------
(* Comments.                                                               *)

LEMMA CreateCommentCommitInv ==
    ASSUME PanelInv, NEW r \in REQ, CreateCommentCommit(r)
    PROVE  PanelInv'
<1>1. PICK q : q = req[r]
  OBVIOUS
<1>2. /\ q.op = "comment" /\ q.user \in USER /\ q.br \in BR /\ q.of \in Nat /\ q.aar \in Nat
      /\ q.of \in q.held
      /\ \/ q.of \in raced
         \/ q.aar \in DOMAIN aar /\ aar[q.aar].n = q.of
      /\ (q.aar \in DOMAIN aar /\ aar[q.aar].n = q.of) => aar[q.aar].br = q.br
  BY <1>1 DEF CreateCommentCommit, PanelInv, RequestsOK, RequestOK
<1>3. ASSUME q.aar \in DOMAIN aar, Make, End(r), UNCHANGED <<aar, reaction>>,
             raced' = IF aar[q.aar].n = q.of THEN raced ELSE raced \union {made'},
             NEW id \in NewIds(comment), NEW row,
             row = [br |-> q.br, aar |-> q.aar, author |-> q.user,
                    writer |-> q.user, of |-> q.of, n |-> made'],
             comment' = With(comment, id, row)
      PROVE  PanelInv'
  <2>1. row \in CommentRow /\ made' \in Nat
    BY <1>2, <1>3 DEF CommentRow, Make, PanelInv, RowsOK
  <2>2. /\ id \in Nat \ {0} /\ id \notin DOMAIN comment
        /\ DOMAIN comment' = DOMAIN comment \union {id} /\ comment'[id] = row
        /\ \A i \in DOMAIN comment : comment'[i] = comment[i]
        /\ comment' = [i \in DOMAIN comment' |-> comment'[i]]
    <3>1. DOMAIN comment \subseteq Nat
      BY DEF PanelInv, RowsOK
    <3>2. id \in Nat \ {0} /\ id \notin DOMAIN comment
      BY <3>1, NewIdIsNew
    <3>. QED  BY <1>3, <3>2 DEF With
  <2>3. RowsOK'
    <3>1. \A i \in DOMAIN comment' : comment'[i] \in CommentRow
      BY <2>1, <2>2 DEF PanelInv, RowsOK
    <3>2. \A i \in DOMAIN aar' : aar'[i].n <= made'
      BY <1>3 DEF PanelInv, RowsOK, AarRow, Make
    <3>. QED  BY <1>3, <2>1, <2>2, <3>1, <3>2 DEF PanelInv, RowsOK
  <2>4. raced \subseteq raced' /\ OneAarEach'
    BY <1>3 DEF PanelInv, OneAarEach
  <2>5. CommentsOK'
    <3>1. /\ row.aar \in DOMAIN aar
          /\ row.of \in raced' \/ row.of = aar[row.aar].n
          /\ row.n \in raced' \/ (row.of = aar[row.aar].n /\ aar[row.aar].br = row.br)
      <4>1. row.aar = q.aar /\ row.of = q.of /\ row.br = q.br /\ row.n = made'
        BY <1>3
      <4>2. CASE aar[q.aar].n # q.of
        BY <1>2, <1>3, <4>1, <4>2
      <4>3. CASE aar[q.aar].n = q.of
        BY <1>2, <1>3, <4>1, <4>3
      <4>. QED  BY <4>2, <4>3
    <3>. QED  BY <1>3, <2>2, <2>4, <3>1 DEF PanelInv, CommentsOK
  <2>6. ReactionsOK'
    BY <1>3, <2>2, <2>4 DEF PanelInv, ReactionsOK, IsRow
  <2>7. \A p \in REQ : KeptFor(req[p])
    BY <1>3, <2>1, <2>2, <2>4 DEF KeptFor, Make, PanelInv, RowsOK
  <2>. QED  BY <1>3, <2>3, <2>4, <2>5, <2>6, <2>7, EndKeepsInv
<1>4. ASSUME q.aar \notin DOMAIN aar, Fail(r)
      PROVE  PanelInv'
  <2>1. q.of \in q.held \intersect raced
    BY <1>2, <1>4
  <2>. QED  BY <1>1, <1>4, <2>1, FailKeepsInv
<1>. QED
  BY <1>1, <1>3, <1>4 DEF CreateCommentCommit

LEMMA EditCommentCommitInv ==
    ASSUME PanelInv, NEW r \in REQ, EditCommentCommit(r)
    PROVE  PanelInv'
<1>1. PICK q : q = req[r]
  OBVIOUS
<1>2. /\ q.op = "edit" /\ q.user \in USER
      /\ \/ q.held \intersect raced # {}
         \/ q.comment \in DOMAIN comment /\ comment[q.comment].n \in q.held
  BY <1>1 DEF EditCommentCommit, PanelInv, RequestsOK, RequestOK
<1>3. ASSUME q.comment \in DOMAIN comment, End(r), UNCHANGED <<aar, reaction, made, raced>>,
             comment' = [comment EXCEPT ![q.comment].writer = q.user]
      PROVE  PanelInv'
  <2>1. /\ DOMAIN comment' = DOMAIN comment /\ comment' \in [DOMAIN comment' -> CommentRow]
        /\ \A c \in DOMAIN comment :
             /\ comment'[c].n = comment[c].n /\ comment'[c].br = comment[c].br
             /\ comment'[c].aar = comment[c].aar /\ comment'[c].of = comment[c].of
    BY <1>2, <1>3 DEF PanelInv, RowsOK, CommentRow
  <2>2. RowsOK' /\ OneAarEach'
    BY <1>3, <2>1 DEF PanelInv, RowsOK, OneAarEach
  <2>3. CommentsOK'
    BY <1>3, <2>1 DEF PanelInv, CommentsOK
  <2>4. ReactionsOK'
    BY <1>3, <2>1 DEF PanelInv, ReactionsOK, IsRow
  <2>5. \A p \in REQ : KeptFor(req[p])
    BY <1>3, <2>1 DEF KeptFor, PanelInv, RowsOK
  <2>. QED  BY <1>3, <2>2, <2>3, <2>4, <2>5, EndKeepsInv
<1>4. ASSUME q.comment \notin DOMAIN comment, Fail(r)
      PROVE  PanelInv'
  BY <1>1, <1>2, <1>4, FailKeepsInv
<1>. QED
  BY <1>1, <1>3, <1>4 DEF EditCommentCommit

LEMMA DeleteCommentCommitInv ==
    ASSUME PanelInv, NEW r \in REQ, DeleteCommentCommit(r)
    PROVE  PanelInv'
<1>1. PICK c : c = req[r].comment
  OBVIOUS
<1>2. /\ End(r) /\ UNCHANGED <<aar, made>>
      /\ reaction' = Without(reaction, ReactionsTo(c)) /\ comment' = Without(comment, {c})
      /\ raced' = raced \union
                    {n \in Numbers(comment, {c}) \union Numbers(reaction, ReactionsTo(c)) :
                       \E q \in REQ \ {r} : n \in req[q].held}
  BY <1>1 DEF DeleteCommentCommit, Removed
<1>3. /\ raced \subseteq raced'
      /\ DOMAIN comment' = DOMAIN comment \ {c}
      /\ DOMAIN reaction' = DOMAIN reaction \ ReactionsTo(c)
      /\ \A i \in DOMAIN comment' : comment'[i] = comment[i]
      /\ \A i \in DOMAIN reaction' : reaction'[i] = reaction[i]
      /\ comment' = [i \in DOMAIN comment' |-> comment'[i]]
      /\ reaction' = [i \in DOMAIN reaction' |-> reaction'[i]]
  BY <1>2 DEF Without
<1>4. RowsOK' /\ OneAarEach' /\ aar' = aar /\ made' = made
  BY <1>2, <1>3 DEF PanelInv, RowsOK, OneAarEach
<1>5. CommentsOK'
  <2>. SUFFICES ASSUME NEW i \in DOMAIN comment', NEW m, m = comment[i]
                PROVE  /\ m.aar \in DOMAIN aar
                       /\ m.of \in raced' \/ m.of = aar[m.aar].n
                       /\ m.n \in raced' \/ (m.of = aar[m.aar].n /\ aar[m.aar].br = m.br)
    <3>1. \A i \in DOMAIN comment' : comment'[i] = comment[i]
      BY <1>3
    <3>. QED  BY <1>4, <3>1 DEF CommentsOK
  <2>1. i \in DOMAIN comment
    BY <1>3
  <2>. QED  BY <1>3, <2>1 DEF PanelInv, CommentsOK
<1>6. ReactionsOK'
  <2>. SUFFICES ASSUME NEW i \in DOMAIN reaction', NEW m, m = reaction[i]
                PROVE  m.aar \in DOMAIN aar' /\ (m.of \in raced' \/ IsRow(m.target, m.aar, m.of)')
    BY <1>3 DEF ReactionsOK, IsRow
  <2>1. /\ i \in DOMAIN reaction /\ i \notin ReactionsTo(c) /\ m.aar \in DOMAIN aar
        /\ m.of \in raced \/ IsRow(m.target, m.aar, m.of)
        /\ m.target \in Target
    BY <1>3 DEF PanelInv, ReactionsOK, RowsOK, ReactionRow
  <2>2. m.target # [type |-> "comment", id |-> c]
    BY <2>1 DEF ReactionsTo
  <2>3. m.target.type = "comment" => m.target.id # c
    BY <2>1, <2>2 DEF Target
  <2>4. IsRow(m.target, m.aar, m.of) => IsRow(m.target, m.aar, m.of)'
    BY <1>2, <1>3, <2>3 DEF IsRow
  <2>. QED  BY <1>2, <1>3, <2>1, <2>4
<1>7. ASSUME NEW q \in REQ \ {r}
      PROVE  KeptFor(req[q])
  <2>1. ASSUME NEW i \in DOMAIN comment
        PROVE  \/ comment[i].n \notin req[q].held
               \/ comment[i].n \in raced'
               \/ i \in DOMAIN comment' /\ comment'[i] = comment[i]
    BY <1>2, <1>3 DEF Numbers
  <2>2. raced \subseteq raced'
    BY <1>3
  <2>. QED  BY <1>4, <2>1, <2>2 DEF KeptFor, PanelInv, RowsOK
<1>. QED  BY <1>2, <1>4, <1>5, <1>6, <1>7, EndKeepsInv

-----------------------------------------------------------------------------
(* Reactions.                                                              *)

LEMMA ToggleCommitInv ==
    ASSUME PanelInv, NEW r \in REQ, ToggleCommit(r)
    PROVE  PanelInv'
<1>1. PICK q : q = req[r]
  OBVIOUS
<1>2. /\ q.op = "toggling"
      /\ q.user \in USER /\ q.target \in Target /\ q.of \in Nat /\ q.aar \in Nat
      /\ HasAar(q)
      /\ q.of \in raced \/ IsRow(q.target, q.aar, q.of)
  <2>1. RequestOK(q)
    BY <1>1 DEF PanelInv, RequestsOK, RequestOK, HasAar, IsRow
  <2>. QED  BY <1>1, <2>1 DEF ToggleCommit, RequestOK
<1>3. ASSUME reaction' = Without(reaction, q.existing), Removed(r, Numbers(reaction, q.existing)),
             End(r), UNCHANGED <<aar, comment, made>>
      PROVE  PanelInv'
  <2>1. /\ raced \subseteq raced'
        /\ DOMAIN reaction' = DOMAIN reaction \ q.existing
        /\ \A i \in DOMAIN reaction' : reaction'[i] = reaction[i]
        /\ reaction' = [i \in DOMAIN reaction' |-> reaction'[i]]
    BY <1>3 DEF Without, Removed
  <2>2. RowsOK' /\ OneAarEach'
    BY <1>3, <2>1 DEF PanelInv, RowsOK, OneAarEach
  <2>3. CommentsOK'
    BY <1>3, <2>1 DEF PanelInv, CommentsOK
  <2>4. ReactionsOK'
    BY <1>3, <2>1 DEF PanelInv, ReactionsOK, IsRow
  <2>5. \A p \in REQ : KeptFor(req[p])
    BY <1>3, <2>1 DEF KeptFor, PanelInv, RowsOK
  <2>. QED  BY <1>3, <2>2, <2>3, <2>4, <2>5, EndKeepsInv
<1>4. ASSUME UNCHANGED <<aar, comment, reaction, made, raced>>, End(r)
      PROVE  PanelInv'
  <2>1. RowsOK' /\ OneAarEach' /\ CommentsOK' /\ ReactionsOK'
    BY <1>4 DEF PanelInv, RowsOK, OneAarEach, CommentsOK, ReactionsOK, IsRow
  <2>2. \A p \in REQ : KeptFor(req[p])
    BY <1>4 DEF KeptFor, PanelInv, RowsOK
  <2>. QED  BY <1>4, <2>1, <2>2, EndKeepsInv
<1>5. ASSUME q.aar \in DOMAIN aar, Make, End(r), UNCHANGED <<aar, comment, raced>>,
             NEW id \in NewIds(reaction), NEW row,
             row = [aar |-> q.aar, target |-> q.target, user |-> q.user, of |-> q.of,
                    n |-> made'],
             reaction' = With(reaction, id, row)
      PROVE  PanelInv'
  <2>1. row \in ReactionRow /\ made' \in Nat
    BY <1>2, <1>5 DEF ReactionRow, Make, PanelInv, RowsOK
  <2>2. /\ DOMAIN reaction' = DOMAIN reaction \union {id} /\ reaction'[id] = row
        /\ \A i \in DOMAIN reaction : i # id => reaction'[i] = reaction[i]
        /\ reaction' = [i \in DOMAIN reaction' |-> reaction'[i]]
    BY <1>5 DEF With
  <2>3. RowsOK'
    <3>1. \A i \in DOMAIN reaction' : reaction'[i] \in ReactionRow
      BY <2>1, <2>2 DEF PanelInv, RowsOK
    <3>2. \A i \in DOMAIN aar' : aar'[i].n <= made'
      BY <1>5 DEF PanelInv, RowsOK, AarRow, Make
    <3>. QED  BY <1>5, <2>1, <2>2, <3>1, <3>2 DEF PanelInv, RowsOK
  <2>4. OneAarEach' /\ CommentsOK'
    BY <1>5 DEF PanelInv, OneAarEach, CommentsOK
  <2>5. ReactionsOK'
    <3>1. row.aar \in DOMAIN aar /\ (row.of \in raced \/ IsRow(row.target, row.aar, row.of))
      BY <1>2, <1>5
    <3>2. \A i \in DOMAIN reaction' : i = id \/ (i \in DOMAIN reaction /\ reaction'[i] = reaction[i])
      BY <2>2
    <3>. QED  BY <1>5, <2>2, <3>1, <3>2 DEF PanelInv, ReactionsOK, IsRow
  <2>6. \A p \in REQ : KeptFor(req[p])
    BY <1>5, <2>1 DEF KeptFor, Make, PanelInv, RowsOK
  <2>. QED  BY <1>5, <2>3, <2>4, <2>5, <2>6, EndKeepsInv
<1>6. ASSUME InsertRefused(q), Fail(r)
      PROVE  PanelInv'
  <2>1. q.held \intersect raced # {}
    BY <1>2, <1>6 DEF InsertRefused, HasAar
  <2>. QED  BY <1>1, <1>6, <2>1, FailKeepsInv
<1>7. ~InsertRefused(q) => Existing(q.target, q.user) # {} \/ q.aar \in DOMAIN aar
  BY DEF InsertRefused
<1>. QED
  BY <1>1, <1>3, <1>4, <1>5, <1>6, <1>7 DEF ToggleCommit

-----------------------------------------------------------------------------
LEMMA PanelInvNext == PanelInv /\ [Next]_vars => PanelInv'
<1>. SUFFICES ASSUME PanelInv, [Next]_vars PROVE PanelInv'
  OBVIOUS
<1>1. ASSUME NEW r \in REQ, NEW u \in USER, NEW b \in BR,
             PutAarRead(r, u, b) \/ DeleteAarRead(r, u, b) \/ CreateCommentRead(r, u, b)
      PROVE  PanelInv'
  BY <1>1, PutAarReadInv, DeleteAarReadInv, CreateCommentReadInv
<1>2. ASSUME NEW r \in REQ, NEW u \in USER, NEW b \in BR, NEW c \in DOMAIN comment,
             EditCommentRead(r, u, b, c) \/ DeleteCommentRead(r, u, b, c)
      PROVE  PanelInv'
  BY <1>2, EditCommentReadInv, DeleteCommentReadInv
<1>3. ASSUME NEW r \in REQ, NEW u \in USER, NEW b \in BR, NEW t \in Targets(b),
             ToggleRead(r, u, b, t)
      PROVE  PanelInv'
  BY <1>3, ToggleReadInv
<1>4. ASSUME NEW r \in REQ,
             \/ PutAarCommit(r) \/ DeleteAarCommit(r) \/ CreateCommentCommit(r)
             \/ EditCommentCommit(r) \/ DeleteCommentCommit(r)
      PROVE  PanelInv'
  BY <1>4, PutAarCommitInv, DeleteAarCommitInv, CreateCommentCommitInv,
     EditCommentCommitInv, DeleteCommentCommitInv
<1>5. ASSUME NEW r \in REQ, ToggleLook(r) \/ ToggleCommit(r)
      PROVE  PanelInv'
  BY <1>5, ToggleLookInv, ToggleCommitInv
<1>6. ASSUME NEW r \in REQ, NEW b \in BR, DeleteBr(r, b)
      PROVE  PanelInv'
  BY <1>6, DeleteBrInv
<1>7. CASE UNCHANGED vars
  BY <1>7
     DEF vars, rows, PanelInv, RowsOK, OneAarEach, CommentsOK, ReactionsOK, IsRow,
         RequestsOK, RequestOK, HasAar, OnlyRacesFail
<1>. QED
  BY <1>1, <1>2, <1>3, <1>4, <1>5, <1>6, <1>7 DEF Next

\* The invariant of the reports, their comments and the requests under way.
THEOREM PanelSafety == Spec => []PanelInv
<1>. QED  BY PanelInvInit, PanelInvNext, PTL DEF Spec

\* Whatever is written, removed and recycled in whatever order, a panel shows
\* what was written for it, or what a removal overtook (delete_aar, delete_br,
\* delete_comment, toggle_reaction).
THEOREM PanelsShowWhatIsTheirs == Spec => []PanelsShowTheirOwn
<1>1. PanelInv => PanelsShowTheirOwn
  <2>. SUFFICES ASSUME PanelInv PROVE PanelsShowTheirOwn
    OBVIOUS
  <2>1. ASSUME NEW i \in DOMAIN reaction, NEW t, t = reaction[i].target,
               t.id \in DOMAIN TargetTable(t), reaction[i].of # TargetTable(t)[t.id].n
        PROVE  reaction[i].of \in raced
    <3>1. t \in Target
      BY <2>1 DEF PanelInv, RowsOK, ReactionRow
    <3>2. IsRow(t, reaction[i].aar, reaction[i].of) =>
            t.id \in DOMAIN TargetTable(t) /\ TargetTable(t)[t.id].n = reaction[i].of
      BY <3>1 DEF IsRow, TargetTable, Target
    <3>. QED  BY <2>1, <3>2 DEF PanelInv, ReactionsOK
  <2>2. \A i \in DOMAIN reaction : reaction[i].aar \in DOMAIN aar
    BY DEF PanelInv, ReactionsOK
  <2>. QED
    BY <2>1, <2>2 DEF PanelInv, CommentsOK, PanelsShowTheirOwn
<1>. QED  BY <1>1, PanelSafety, PTL

\* No request fails but for a removal in between, or for another's first report
\* (_add_reaction, put_aar).
THEOREM FailuresAreRaces == Spec => []OnlyRacesFail
<1>1. PanelInv => OnlyRacesFail
  BY DEF PanelInv
<1>. QED  BY <1>1, PanelSafety, PTL
=============================================================================
