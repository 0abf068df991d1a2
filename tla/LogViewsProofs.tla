-------------------------- MODULE LogViewsProofs ---------------------------
(***************************************************************************)
(* Proofs about the views of the logs, for any pilots, logs, fights and    *)
(* histories, and any order of uploads, deletes and fights: which rows the *)
(* tackle pass leaves flagged, and that the views count every act once.    *)
(***************************************************************************)
EXTENDS LogViews, FiniteSetTheorems, SequenceTheorems, WellFoundedInduction, NaturalsInduction,
        TLAPS

NoRepeats(s) == \A i, j \in DOMAIN s : s[i] = s[j] => i = j

ViewsTypeOK ==
    /\ hist \in Histories
    /\ files \in Seq(Log) /\ NoRepeats(files)
    /\ fights \in Seq(DOMAIN Window) /\ NoRepeats(fights)

\* Every stamped row carries the flag that the tackle pass would give it now.
FlagsExact ==
    \A f \in ToSet(fights) : \A r \in InFight(f, Tackled) :
        <<r.log, r.act>> \in suppressed <=> r \in Losers(files, InFight(f, Tackled))

ViewsInv == ViewsTypeOK /\ FlagsExact

-----------------------------------------------------------------------------
(* Rows.                                                                   *)

LEMMA HistoryType ==
    ASSUME ViewsTypeOK
    PROVE  /\ hist.assists \subseteq Acts /\ IsFiniteSet(hist.assists)
           /\ hist.tackles \subseteq Acts /\ IsFiniteSet(hist.tackles)
           /\ hist.skew \in [Pilot -> Int]
  BY LogViewsAssumption DEF ViewsTypeOK

\* A row of a tackle is known by its log and the tackle.
TackleRow(l, x) ==
    [log |-> l, act |-> x, source |-> NameOf(l, x.by), target |-> NameOf(l, x.to),
     dir |-> IF Owner[l] = x.by THEN "out" ELSE "in",
     authoritative |-> Owner[l] \in {x.by, x.to}]

LEMMA TackledRows ==
    /\ \A r \in Tackled : /\ r = TackleRow(r.log, r.act)
                          /\ r.log \in Log /\ r.act \in hist.tackles /\ Covers(r.log, r.act)
    /\ \A l \in Log, x \in hist.tackles : Covers(l, x) =>
         /\ TackleRow(l, x) \in Tackled
         /\ TackleRow(l, x).log = l /\ TackleRow(l, x).act = x
<1>1. ASSUME NEW r \in Tackled
      PROVE  /\ r = TackleRow(r.log, r.act)
             /\ r.log \in Log /\ r.act \in hist.tackles /\ Covers(r.log, r.act)
  <2>1. PICK l \in Log : r \in TackleRows(l)
    BY DEF Tackled
  <2>2. PICK x \in hist.tackles : Covers(l, x) /\ r = TackleRow(l, x)
    BY <2>1 DEF TackleRows, TackleRow
  <2>3. r.log = l /\ r.act = x
    BY <2>2 DEF TackleRow
  <2>. QED  BY <2>2, <2>3
<1>2. ASSUME NEW l \in Log, NEW x \in hist.tackles, Covers(l, x)
      PROVE  /\ TackleRow(l, x) \in Tackled
             /\ TackleRow(l, x).log = l /\ TackleRow(l, x).act = x
  <2>1. TackleRow(l, x) \in TackleRows(l)
    BY <1>2 DEF TackleRows, TackleRow
  <2>2. TackleRow(l, x).log = l /\ TackleRow(l, x).act = x
    BY DEF TackleRow
  <2>. QED  BY <2>1, <2>2 DEF Tackled
<1>. QED  BY <1>1, <1>2

\* A row has one fight.
LEMMA OneOwner ==
    ASSUME NEW F, NEW f, NEW g, NEW r, Owns(F, f, r), Owns(F, g, r),
           F \in Seq(DOMAIN Window)
    PROVE  f = g
<1>1. PICK i \in DOMAIN F, j \in DOMAIN F : F[i] = f /\ F[j] = g
  BY DEF Owns, ToSet
<1>2. i \in Nat /\ j \in Nat
  OBVIOUS
<1>3. CASE i < j
  BY <1>1, <1>3 DEF Owns, Precedes
<1>4. CASE j < i
  BY <1>1, <1>4 DEF Owns, Precedes
<1>5. CASE i = j
  BY <1>1, <1>5
<1>. QED  BY <1>2, <1>3, <1>4, <1>5

-----------------------------------------------------------------------------
(* The tackle pass.                                                        *)

LEMMA SameLosers ==
    ASSUME NEW fs, NEW gs, NEW K,
           \A q, r \in K : Precedes(fs, q.log, r.log) <=> Precedes(gs, q.log, r.log)
    PROVE  Losers(fs, K) = Losers(gs, K)
<1>1. \A q, r \in K : Better(fs, q, r) <=> Better(gs, q, r)
  BY DEF Better, Before
<1>. QED  BY <1>1 DEF Losers

\* What depends on the history only through hist, which no step changes.
LEMMA HistoryFrame ==
    ASSUME hist' = hist, NEW f
    PROVE  /\ Tackled' = Tackled
           /\ InFight(f, Tackled)' = Stamped(files', fights', f, Tackled)
           /\ Losers(files, InFight(f, Tackled))' = Losers(files', Stamped(files', fights', f, Tackled))
<1>1. Tackled' = Tackled
  BY DEF Tackled, TackleRows, Covers, NameOf
<1>. QED  BY <1>1 DEF Losers, InFight, Stamped, Owns, Inside, Ts, Cluster, Anchors, Better, Before,
             Precedes, Key

\* The pass leaves the flags exact, if the fights it passes over have the rows that
\* they had, in the same order.
LEMMA PassKeepsFlags ==
    ASSUME ViewsInv, NEW fs, NEW F \in Seq(DOMAIN Window), NEW D \in SUBSET ToSet(F),
           hist' = hist, files' = fs, fights' = F,
           suppressed' = DedupeEwar(fs, F, D),
           \A f \in ToSet(F) \ D :
             /\ f \in ToSet(fights)
             /\ Stamped(fs, F, f, Tackled) = InFight(f, Tackled)
             /\ Losers(fs, InFight(f, Tackled)) = Losers(files, InFight(f, Tackled))
    PROVE  FlagsExact'
<1>. DEFINE of(f) == Stamped(fs, F, f, Tackled)
            lost == {<<r.log, r.act>> : r \in UNION {Losers(fs, of(f)) : f \in D}}
            kept == {s \in suppressed : /\ s[1] \in Uploaded(fs)
                                        /\ ~\E f \in D : \E r \in of(f) : <<r.log, r.act>> = s}
<1>1. SUFFICES ASSUME NEW f \in ToSet(F), NEW r \in of(f)
               PROVE  <<r.log, r.act>> \in suppressed' <=> r \in Losers(fs, of(f))
  BY HistoryFrame DEF FlagsExact
<1>2. suppressed' = kept \union lost
  BY DEF DedupeEwar
<1>3. \A g, q : q \in Losers(fs, of(g)) => q \in of(g)
  BY DEF Losers
<1>4. \A g, q : q \in of(g) => q \in Tackled /\ q.log \in Uploaded(fs) /\ Owns(F, g, q)
  BY DEF Stamped
<1>5. ASSUME NEW g \in D, NEW q \in of(g), <<q.log, q.act>> = <<r.log, r.act>>
      PROVE  q = r /\ g = f
  <2>1. q = r
    BY <1>4, <1>5, TackledRows
  <2>. QED  BY <1>4, <2>1, OneOwner
<1>6. <<r.log, r.act>> \in lost <=> f \in D /\ r \in Losers(fs, of(f))
  <2>1. ASSUME <<r.log, r.act>> \in lost
        PROVE  f \in D /\ r \in Losers(fs, of(f))
    <3>1. PICK g \in D : \E q \in Losers(fs, of(g)) : <<q.log, q.act>> = <<r.log, r.act>>
      BY <2>1
    <3>. QED  BY <1>3, <1>5, <3>1
  <2>2. ASSUME f \in D, r \in Losers(fs, of(f))
        PROVE  <<r.log, r.act>> \in lost
    BY <2>2
  <2>. QED  BY <2>1, <2>2
<1>7. CASE f \in D
  <2>1. <<r.log, r.act>> \notin kept
    BY <1>7
  <2>. HIDE DEF kept, lost
  <2>. QED  BY <1>2, <1>6, <1>7, <2>1
<1>8. CASE f \notin D
  <2>1. /\ f \in ToSet(fights) /\ of(f) = InFight(f, Tackled)
        /\ Losers(fs, of(f)) = Losers(files, InFight(f, Tackled))
    BY <1>8
  <2>2. <<r.log, r.act>> \in suppressed <=> r \in Losers(fs, of(f))
    BY <2>1 DEF ViewsInv, FlagsExact
  <2>3. <<r.log, r.act>> \in kept <=> <<r.log, r.act>> \in suppressed
    <3>1. ~\E g \in D : \E q \in of(g) : <<q.log, q.act>> = <<r.log, r.act>>
      BY <1>5, <1>8
    <3>2. <<r.log, r.act>>[1] \in Uploaded(fs)
      BY <1>4
    <3>. QED  BY <3>1, <3>2
  <2>. HIDE DEF kept, lost, of
  <2>. QED  BY <1>2, <1>6, <1>8, <2>2, <2>3
<1>. QED  BY <1>7, <1>8

-----------------------------------------------------------------------------
(* Uploads, deletes and fights.                                            *)

LEMMA AppendedFacts ==
    ASSUME NEW T, NEW s \in Seq(T), NEW x \in T
    PROVE  /\ Append(s, x) \in Seq(T)
           /\ ToSet(Append(s, x)) = ToSet(s) \union {x}
           /\ x \notin ToSet(s) /\ NoRepeats(s) => NoRepeats(Append(s, x))
           /\ \A y, z \in ToSet(s) : x \notin ToSet(s) =>
                (Precedes(Append(s, x), y, z) <=> Precedes(s, y, z))
<1>1. /\ Append(s, x) \in Seq(T) /\ Len(Append(s, x)) = Len(s) + 1 /\ Len(s) \in Nat
      /\ DOMAIN s = 1..Len(s) /\ DOMAIN Append(s, x) = 1..(Len(s) + 1)
      /\ \A i \in 1..Len(s) : Append(s, x)[i] = s[i]
      /\ Append(s, x)[Len(s) + 1] = x
  OBVIOUS
<1>. DEFINE a == Append(s, x)
<1>2. ToSet(a) = ToSet(s) \union {x}
  <2>1. ASSUME NEW y \in ToSet(a)
        PROVE  y \in ToSet(s) \union {x}
    BY <1>1 DEF ToSet
  <2>2. ASSUME NEW y \in ToSet(s)
        PROVE  y \in ToSet(a)
    BY <1>1 DEF ToSet
  <2>3. x \in ToSet(a)
    BY <1>1 DEF ToSet
  <2>. QED  BY <2>1, <2>2, <2>3
<1>3. ASSUME x \notin ToSet(s), NoRepeats(s)
      PROVE  NoRepeats(a)
  BY <1>1, <1>3 DEF NoRepeats, ToSet
<1>4. ASSUME x \notin ToSet(s), NEW y \in ToSet(s), NEW z \in ToSet(s)
      PROVE  Precedes(a, y, z) <=> Precedes(s, y, z)
  <2>1. y # x /\ z # x
    BY <1>4
  <2>2. \A i \in 1..(Len(s) + 1) : a[i] # x => i \in 1..Len(s)
    BY <1>1
  <2>3. ASSUME Precedes(a, y, z) PROVE Precedes(s, y, z)
    BY <1>1, <2>1, <2>2, <2>3 DEF Precedes
  <2>4. ASSUME Precedes(s, y, z) PROVE Precedes(a, y, z)
    BY <1>1, <2>4 DEF Precedes
  <2>. QED  BY <2>3, <2>4
<1>. QED  BY <1>1, <1>2, <1>3, <1>4

LEMMA RemovedFacts ==
    ASSUME NEW T, NEW s \in Seq(T), NEW k \in DOMAIN s, NoRepeats(s)
    PROVE  /\ RemoveAt(s, k) \in Seq(T)
           /\ NoRepeats(RemoveAt(s, k))
           /\ ToSet(RemoveAt(s, k)) = ToSet(s) \ {s[k]}
           /\ \A y, z \in ToSet(s) \ {s[k]} : Precedes(RemoveAt(s, k), y, z) <=> Precedes(s, y, z)
<1>. DEFINE a == RemoveAt(s, k)
            left == SubSeq(s, 1, k - 1)
            right == SubSeq(s, k + 1, Len(s))
<1>1. DOMAIN s = 1..Len(s) /\ Len(s) \in Nat /\ k \in 1..Len(s)
  OBVIOUS
<1>2. /\ left \in Seq(T) /\ Len(left) = k - 1 /\ \A i \in 1..(k - 1) : left[i] = s[i]
      /\ right \in Seq(T) /\ Len(right) = Len(s) - k
      /\ \A i \in 1..(Len(s) - k) : right[i] = s[k + i]
  BY <1>1
<1>3. a = left \o right
  BY DEF RemoveAt
<1>. HIDE DEF a, left, right
<1>4. /\ a \in Seq(T) /\ Len(a) = Len(s) - 1 /\ DOMAIN a = 1..(Len(s) - 1)
      /\ \A i \in 1..(Len(s) - 1) : a[i] = IF i < k THEN s[i] ELSE s[i + 1]
  <2>1. a \in Seq(T) /\ Len(a) = Len(s) - 1 /\ DOMAIN a = 1..(Len(s) - 1)
    <3>1. left \o right \in Seq(T) /\ Len(left \o right) = Len(left) + Len(right)
      BY <1>2, ConcatProperties
    <3>2. Len(left) + Len(right) = Len(s) - 1
      BY <1>1, <1>2
    <3>. QED  BY <1>3, <3>1, <3>2
  <2>2. ASSUME NEW i \in 1..(Len(s) - 1), i < k
        PROVE  a[i] = s[i]
    <3>1. i \in 1..Len(left) /\ i \in 1..(k - 1)
      BY <1>1, <1>2, <2>2
    <3>2. (left \o right)[i] = left[i]
      BY <1>2, <3>1
    <3>. QED  BY <1>2, <1>3, <3>1, <3>2
  <2>3. ASSUME NEW i \in 1..(Len(s) - 1), ~(i < k)
        PROVE  a[i] = s[i + 1]
    <3>1. /\ i - Len(left) \in 1..Len(right) /\ i - Len(left) \in 1..(Len(s) - k)
          /\ k + (i - Len(left)) = i + 1
      BY <1>1, <1>2, <2>3
    <3>2. (left \o right)[i] = right[i - Len(left)]
      BY <1>1, <1>2, <2>3, <3>1
    <3>3. right[i - Len(left)] = s[k + (i - Len(left))]
      BY <1>2, <3>1
    <3>. QED  BY <1>3, <3>1, <3>2, <3>3
  <2>. QED  BY <2>1, <2>2, <2>3
<1>5. NoRepeats(a)
  <2>. SUFFICES ASSUME NEW i \in 1..(Len(s) - 1), NEW j \in 1..(Len(s) - 1), a[i] = a[j]
                PROVE  i = j
    BY <1>4 DEF NoRepeats
  <2>. DEFINE u == IF i < k THEN i ELSE i + 1
              v == IF j < k THEN j ELSE j + 1
  <2>1. u \in 1..Len(s) /\ v \in 1..Len(s) /\ a[i] = s[u] /\ a[j] = s[v]
    BY <1>1, <1>4
  <2>2. u = v
    BY <1>1, <2>1 DEF NoRepeats
  <2>. QED  BY <1>1, <2>2
<1>6. \A i \in 1..(Len(s) - 1) : \E j \in 1..Len(s) : j # k /\ a[i] = s[j]
  <2>. TAKE i \in 1..(Len(s) - 1)
  <2>1. CASE i < k
    BY <1>1, <1>4, <2>1
  <2>2. CASE ~(i < k)
    <3>1. i + 1 \in 1..Len(s) /\ i + 1 # k /\ a[i] = s[i + 1]
      BY <1>1, <1>4, <2>2
    <3>. QED  BY <3>1
  <2>. QED  BY <2>1, <2>2
<1>7. \A j \in 1..Len(s) : j < k => j \in 1..(Len(s) - 1) /\ a[j] = s[j]
  BY <1>1, <1>4
<1>8. \A j \in 1..Len(s) : j > k => j - 1 \in 1..(Len(s) - 1) /\ a[j - 1] = s[j]
  BY <1>1, <1>4
<1>9. ToSet(a) = ToSet(s) \ {s[k]}
  <2>1. ASSUME NEW y \in ToSet(a)
        PROVE  y \in ToSet(s) /\ y # s[k]
    <3>1. PICK i \in 1..(Len(s) - 1) : a[i] = y
      BY <1>4 DEF ToSet
    <3>2. PICK j \in 1..Len(s) : j # k /\ y = s[j]
      BY <1>6, <3>1
    <3>. QED  BY <1>1, <3>2 DEF ToSet, NoRepeats
  <2>2. ASSUME NEW y \in ToSet(s), y # s[k]
        PROVE  y \in ToSet(a)
    <3>1. PICK j \in 1..Len(s) : s[j] = y /\ j # k
      BY <1>1, <2>2 DEF ToSet
    <3>2. j < k \/ j > k
      BY <1>1, <3>1
    <3>. QED  BY <1>4, <1>7, <1>8, <3>1, <3>2 DEF ToSet
  <2>. QED  BY <2>1, <2>2
<1>10. ASSUME NEW y \in ToSet(s) \ {s[k]}, NEW z \in ToSet(s) \ {s[k]}
       PROVE  Precedes(a, y, z) <=> Precedes(s, y, z)
  <2>1. ASSUME Precedes(a, y, z) PROVE Precedes(s, y, z)
    <3>1. PICK i \in 1..(Len(s) - 1), j \in 1..(Len(s) - 1) : i < j /\ a[i] = y /\ a[j] = z
      BY <1>4, <2>1 DEF Precedes
    <3>. DEFINE u == IF i < k THEN i ELSE i + 1
                v == IF j < k THEN j ELSE j + 1
    <3>2. u \in 1..Len(s) /\ v \in 1..Len(s) /\ u < v /\ s[u] = y /\ s[v] = z
      BY <1>1, <1>4, <3>1
    <3>. QED  BY <1>1, <3>2 DEF Precedes
  <2>2. ASSUME Precedes(s, y, z) PROVE Precedes(a, y, z)
    <3>1. PICK i \in 1..Len(s), j \in 1..Len(s) : i < j /\ s[i] = y /\ s[j] = z
      BY <1>1, <2>2 DEF Precedes
    <3>2. i # k /\ j # k
      BY <3>1
    <3>. DEFINE u == IF i < k THEN i ELSE i - 1
                v == IF j < k THEN j ELSE j - 1
    <3>3. u \in 1..(Len(s) - 1) /\ v \in 1..(Len(s) - 1) /\ u < v /\ a[u] = y /\ a[v] = z
      BY <1>1, <1>7, <1>8, <3>1, <3>2
    <3>. QED  BY <1>4, <3>3 DEF Precedes
  <2>. QED  BY <2>1, <2>2
<1>. QED  BY <1>4, <1>5, <1>9, <1>10 DEF a

\* Which rows carry a stamp depends on the files that are not superseded, and a row
\* of a file that another of its session supersedes is also in that other.
LEMMA SessionFacts ==
    ASSUME NEW l \in Log, NEW m \in Log, Session[m] = Session[l], Span[m][2] > Span[l][2],
           NEW x, Covers(l, x), x.at \in Int
    PROVE  /\ Owner[m] = Owner[l] /\ Covers(m, x)
           /\ Ts(m, x) = Ts(l, x)
<1>1. Owner[m] = Owner[l] /\ Span[m][1] = Span[l][1]
  BY LogViewsAssumption
<1>2. /\ Span[l][1] \in Int /\ Span[l][2] \in Int /\ Span[m][1] \in Int /\ Span[m][2] \in Int
  BY LogViewsAssumption
<1>. QED  BY <1>1, <1>2 DEF Covers, Ts

LEMMA UploadKeepsFlags ==
    ASSUME ViewsInv, NEW l \in Log, UploadLog(l)
    PROVE  ViewsInv'
<1>. DEFINE fs == Append(files, l)
            D == Matched(fs, fights, l)
<1>1. /\ l \notin ToSet(files) /\ files' = fs /\ fights' = fights /\ hist' = hist
      /\ suppressed' = DedupeEwar(fs, fights, D)
  BY DEF UploadLog, Uploaded
<1>2. files \in Seq(Log) /\ fights \in Seq(DOMAIN Window) /\ NoRepeats(files)
  BY DEF ViewsInv, ViewsTypeOK
<1>3. /\ fs \in Seq(Log) /\ ToSet(fs) = ToSet(files) \union {l} /\ NoRepeats(fs)
      /\ \A y, z \in ToSet(files) : Precedes(fs, y, z) <=> Precedes(files, y, z)
  BY <1>1, <1>2, AppendedFacts
<1>4. ToSet(files) \subseteq Log
  BY <1>2 DEF ToSet
<1>5. D \in SUBSET ToSet(fights)
  BY DEF Matched
<1>. HIDE DEF fs, D
<1>6. ASSUME NEW f \in ToSet(fights) \ D, NEW r \in Tackled, Owns(fights, f, r)
      PROVE  /\ r.log \in ToSet(fs) /\ ~Superseded(fs, r.log)
                  <=> r.log \in ToSet(files) /\ ~Superseded(files, r.log)
  <2>1. /\ r.log \in Log /\ r.act \in hist.tackles /\ Covers(r.log, r.act) /\ r.act.at \in Int
    BY TackledRows, HistoryType DEF ViewsInv, Acts
  <2>2. \A k \in Log : Span[k][1] \in Int /\ Span[k][2] \in Int
    BY LogViewsAssumption
  <2>3. CASE Superseded(fs, l)
    <3>1. PICK m \in ToSet(fs) : Session[m] = Session[l] /\ Span[m][2] > Span[l][2]
      BY <2>3 DEF Superseded, Uploaded
    <3>2. m \in ToSet(files)
      BY <1>3, <2>2, <3>1
    <3>3. CASE r.log = l
      BY <1>1, <2>3, <3>3
    <3>4. CASE r.log # l
      <4>1. ASSUME Superseded(fs, r.log) PROVE Superseded(files, r.log)
        <5>1. PICK k \in ToSet(fs) : Session[k] = Session[r.log] /\ Span[k][2] > Span[r.log][2]
          BY <4>1 DEF Superseded, Uploaded
        <5>2. CASE k = l
          <6>1. Session[m] = Session[r.log] /\ Span[m][2] > Span[r.log][2]
            BY <1>4, <2>1, <2>2, <3>1, <3>2, <5>1, <5>2
          <6>. QED  BY <3>2, <6>1 DEF Superseded, Uploaded
        <5>3. CASE k # l
          BY <1>3, <5>1, <5>3 DEF Superseded, Uploaded
        <5>. QED  BY <5>2, <5>3
      <4>2. ASSUME Superseded(files, r.log) PROVE Superseded(fs, r.log)
        BY <1>3, <4>2 DEF Superseded, Uploaded
      <4>. QED  BY <1>3, <3>4, <4>1, <4>2
    <3>. QED  BY <3>3, <3>4
  <2>4. CASE ~Superseded(fs, l)
    <3>1. ~(/\ Span[l][1] + hist.skew[Owner[l]] <= Window[f][2]
            /\ Span[l][2] + hist.skew[Owner[l]] >= Window[f][1])
      BY <2>4 DEF D, Matched
    <3>2. ~(Owner[r.log] = Owner[l] /\ Covers(l, r.act))
      <4>. SUFFICES ASSUME Owner[r.log] = Owner[l], Covers(l, r.act) PROVE FALSE
        OBVIOUS
      <4>1. Ts(r.log, r.act) \in Window[f][1] .. Window[f][2]
        BY <1>6 DEF Owns, Inside
      <4>2. Ts(r.log, r.act) = r.act.at + hist.skew[Owner[l]]
        BY DEF Ts
      <4>3. hist.skew[Owner[l]] \in Int
        BY HistoryType, LogViewsAssumption DEF ViewsInv
      <4>4. f \in DOMAIN Window
        BY <1>2 DEF ToSet
      <4>5. Window[f][1] \in Int /\ Window[f][2] \in Int
        BY <4>4, LogViewsAssumption
      <4>. QED  BY <2>1, <2>2, <3>1, <4>1, <4>2, <4>3, <4>5 DEF Covers
    <3>3. r.log # l
      BY <2>1, <3>2
    <3>4. ~(Session[l] = Session[r.log] /\ Span[l][2] > Span[r.log][2])
      BY <2>1, <3>2, SessionFacts
    <3>5. Superseded(fs, r.log) <=> Superseded(files, r.log)
      BY <1>3, <3>4 DEF Superseded, Uploaded
    <3>. QED  BY <1>3, <3>3, <3>5
  <2>. QED  BY <2>3, <2>4
<1>7. ASSUME NEW f \in ToSet(fights) \ D
      PROVE  /\ Stamped(fs, fights, f, Tackled) = InFight(f, Tackled)
             /\ Losers(fs, InFight(f, Tackled)) = Losers(files, InFight(f, Tackled))
  <2>1. Stamped(fs, fights, f, Tackled) = Stamped(files, fights, f, Tackled)
    BY <1>6, <1>7 DEF Stamped, Uploaded
  <2>2. \A r \in InFight(f, Tackled) : r.log \in ToSet(files)
    BY DEF InFight, Stamped, Uploaded
  <2>3. Losers(fs, InFight(f, Tackled)) = Losers(files, InFight(f, Tackled))
    BY <1>3, <2>2, SameLosers
  <2>. QED  BY <2>1, <2>3 DEF InFight
<1>8. FlagsExact'
  BY <1>1, <1>2, <1>5, <1>7, PassKeepsFlags
<1>9. ViewsTypeOK'
  BY <1>1, <1>3 DEF ViewsInv, ViewsTypeOK
<1>. QED  BY <1>8, <1>9 DEF ViewsInv

LEMMA DeleteKeepsFlags ==
    ASSUME ViewsInv, NEW i \in DOMAIN files, DeleteGamelogFile(i)
    PROVE  ViewsInv'
<1>. DEFINE fs == RemoveAt(files, i)
            l == files[i]
            D == {f \in ToSet(fights) :
                    \E r \in Stamped(files, fights, f, Assisted \union Tackled) : r.log = l}
<1>1. /\ files' = fs /\ fights' = fights /\ hist' = hist
      /\ suppressed' = DedupeEwar(fs, fights, D)
  BY DEF DeleteGamelogFile
<1>2. files \in Seq(Log) /\ fights \in Seq(DOMAIN Window) /\ NoRepeats(files)
  BY DEF ViewsInv, ViewsTypeOK
<1>3. /\ fs \in Seq(Log) /\ ToSet(fs) = ToSet(files) \ {l} /\ NoRepeats(fs)
      /\ \A y, z \in ToSet(files) \ {l} : Precedes(fs, y, z) <=> Precedes(files, y, z)
  BY <1>2, RemovedFacts
<1>4. ToSet(files) \subseteq Log /\ l \in ToSet(files)
  BY <1>2 DEF ToSet
<1>5. D \in SUBSET ToSet(fights)
  OBVIOUS
<1>6. ASSUME NEW f \in ToSet(fights) \ D, NEW r \in InFight(f, Tackled)
      PROVE  r.log # l
  BY <1>6 DEF InFight, Stamped
<1>. HIDE DEF fs, l, D
<1>7. ASSUME NEW f \in ToSet(fights) \ D, NEW r \in Tackled, Owns(fights, f, r)
      PROVE  /\ r.log \in ToSet(fs) /\ ~Superseded(fs, r.log)
                  <=> r.log \in ToSet(files) /\ ~Superseded(files, r.log)
  <2>1. /\ r.log \in Log /\ r.act \in hist.tackles /\ Covers(r.log, r.act) /\ r.act.at \in Int
    BY TackledRows, HistoryType DEF ViewsInv, Acts
  <2>2. \A k \in Log : Span[k][1] \in Int /\ Span[k][2] \in Int
    BY LogViewsAssumption
  <2>3. ASSUME r.log \in ToSet(files), ~Superseded(files, r.log)
        PROVE  r.log \in ToSet(fs) /\ ~Superseded(fs, r.log)
    <3>1. r \in InFight(f, Tackled)
      BY <1>7, <2>3 DEF InFight, Stamped, Uploaded
    <3>2. r.log # l
      BY <1>6, <3>1
    <3>. QED  BY <1>3, <2>3, <3>2 DEF Superseded, Uploaded
  <2>4. ASSUME r.log \in ToSet(fs), ~Superseded(fs, r.log), Superseded(files, r.log)
        PROVE  FALSE
    <3>1. Session[l] = Session[r.log] /\ Span[l][2] > Span[r.log][2]
      BY <1>3, <2>4 DEF Superseded, Uploaded
    <3>2. ~Superseded(files, l)
      <4>. SUFFICES ASSUME NEW m \in ToSet(files), Session[m] = Session[l], Span[m][2] > Span[l][2]
                    PROVE  FALSE
        BY DEF Superseded, Uploaded
      <4>1. m # l /\ Span[m][2] > Span[r.log][2]
        BY <1>4, <2>1, <2>2, <3>1
      <4>. QED  BY <1>3, <2>4, <3>1, <4>1 DEF Superseded, Uploaded
    <3>. DEFINE q == TackleRow(l, r.act)
    <3>3. Covers(l, r.act) /\ Ts(l, r.act) = Ts(r.log, r.act)
      BY <1>4, <2>1, <3>1, SessionFacts
    <3>4. q \in Tackled /\ q.log = l /\ q.act = r.act
      BY <1>4, <2>1, <3>3, TackledRows
    <3>. HIDE DEF q
    <3>5. Owns(fights, f, q)
      BY <1>7, <3>3, <3>4 DEF Owns, Inside
    <3>6. q \in InFight(f, Tackled)
      BY <1>4, <3>2, <3>4, <3>5 DEF InFight, Stamped, Uploaded
    <3>. QED  BY <1>6, <3>4, <3>6
  <2>. QED  BY <1>3, <2>3, <2>4
<1>8. ASSUME NEW f \in ToSet(fights) \ D
      PROVE  /\ Stamped(fs, fights, f, Tackled) = InFight(f, Tackled)
             /\ Losers(fs, InFight(f, Tackled)) = Losers(files, InFight(f, Tackled))
  <2>1. Stamped(fs, fights, f, Tackled) = Stamped(files, fights, f, Tackled)
    BY <1>7, <1>8 DEF Stamped, Uploaded
  <2>2. \A r \in InFight(f, Tackled) : r.log \in ToSet(files) \ {l}
    BY <1>6, <1>8 DEF InFight, Stamped, Uploaded
  <2>3. Losers(fs, InFight(f, Tackled)) = Losers(files, InFight(f, Tackled))
    BY <1>3, <2>2, SameLosers
  <2>. QED  BY <2>1, <2>3 DEF InFight
<1>9. FlagsExact'
  BY <1>1, <1>2, <1>5, <1>8, PassKeepsFlags
<1>10. ViewsTypeOK'
  BY <1>1, <1>3 DEF ViewsInv, ViewsTypeOK
<1>. QED  BY <1>9, <1>10 DEF ViewsInv

LEMMA FightKeepsFlags ==
    ASSUME ViewsInv, NEW f \in DOMAIN Window, AssociateLogsForBr(f)
    PROVE  ViewsInv'
<1>. DEFINE F == IF f \in ToSet(fights) THEN fights ELSE Append(fights, f)
<1>1. /\ files' = files /\ fights' = F /\ hist' = hist
      /\ suppressed' = DedupeEwar(files, F, ToSet(F))
  BY DEF AssociateLogsForBr
<1>2. F \in Seq(DOMAIN Window) /\ NoRepeats(F)
  BY AppendedFacts DEF ViewsInv, ViewsTypeOK
<1>. HIDE DEF F
<1>3. FlagsExact'
  BY <1>1, <1>2, PassKeepsFlags
<1>. QED  BY <1>1, <1>2, <1>3 DEF ViewsInv, ViewsTypeOK

\* Whatever is uploaded, deleted and found, flags are those the pass would set.
THEOREM ViewsSafety == Spec => []ViewsInv
<1>1. Init => ViewsInv
  BY DEF Init, ViewsInv, ViewsTypeOK, FlagsExact, NoRepeats, ToSet
<1>2. ViewsInv /\ [Next]_vars => ViewsInv'
  <2>. SUFFICES ASSUME ViewsInv, [Next]_vars PROVE ViewsInv'
    OBVIOUS
  <2>1. CASE UNCHANGED vars
    <3>1. hist' = hist /\ files' = files /\ fights' = fights /\ suppressed' = suppressed
      BY <2>1 DEF vars
    <3>2. FlagsExact'
      BY <3>1, HistoryFrame DEF ViewsInv, FlagsExact, InFight
    <3>. QED  BY <3>1, <3>2 DEF ViewsInv, ViewsTypeOK
  <2>2. CASE Next
    BY <2>2, UploadKeepsFlags, DeleteKeepsFlags, FightKeepsFlags DEF Next
  <2>. QED  BY <2>1, <2>2
<1>. QED  BY <1>1, <1>2, PTL DEF Spec

-----------------------------------------------------------------------------
(* The clusters of the pass are the tackles, if clocks do not blur them.   *)

LEMMA NatLess == OpToRel(<, Nat) = {ss \in Nat \X Nat : ss[1] < ss[2]}
BY DEF OpToRel

LEMMA LeastExists ==
    ASSUME NEW S, S \subseteq Nat, S # {}
    PROVE  \E n \in S : \A m \in S : n <= m
<1>. DEFINE Less == {ss \in Nat \X Nat : ss[1] < ss[2]}
<1>1. IsWellFoundedOn(Less, Nat)
  BY NatLessThanWellFounded, NatLess
<1>2. PICK n \in S : \A m \in S : <<m, n>> \notin Less
  <2>. HIDE DEF Less
  <2>. QED  BY <1>1, WFMin
<1>3. ASSUME NEW m \in S
      PROVE  n <= m
  <2>1. m \in Nat /\ n \in Nat
    OBVIOUS
  <2>2. m < n => <<m, n>> \in Less
    BY <2>1
  <2>. QED  BY <1>2, <2>1, <2>2
<1>. QED  BY <1>3

T(r) == Ts(r.log, r.act)

\* Every client names pilots, and its clock says when within the window.
Legible == ViewsTypeOK /\ ClocksAgree /\ Apart /\ hist.terse = {}

LEMMA TackleFacts ==
    ASSUME Legible, NEW r \in Tackled
    PROVE  /\ r.log \in Log /\ Owner[r.log] \in Pilot
           /\ r.act \in hist.tackles /\ r.act \in Acts /\ r.act.at \in Int
           /\ r.source = r.act.by /\ r.target = r.act.to
           /\ hist.skew[Owner[r.log]] \in Int
           /\ T(r) = r.act.at + hist.skew[Owner[r.log]] /\ T(r) \in Int
<1>1. /\ r = TackleRow(r.log, r.act) /\ r.log \in Log /\ r.act \in hist.tackles
  BY TackledRows
<1>2. r.act \in Acts /\ r.act.at \in Int
  BY <1>1, HistoryType DEF Legible, Acts
<1>3. Owner[r.log] \in Pilot /\ hist.skew[Owner[r.log]] \in Int
  BY <1>1, HistoryType, LogViewsAssumption DEF Legible
<1>4. r.source = NameOf(r.log, r.act.by) /\ r.target = NameOf(r.log, r.act.to)
  BY <1>1 DEF TackleRow
<1>5. r.source = r.act.by /\ r.target = r.act.to
  BY <1>4 DEF NameOf, Legible
<1>6. T(r) = r.act.at + hist.skew[Owner[r.log]]
  BY DEF T, Ts
<1>. QED  BY <1>1, <1>2, <1>3, <1>5, <1>6

\* Rows of one tackle are within the window of each other, those of two are not.
LEMMA TimesTellActs ==
    ASSUME Legible, NEW q \in Tackled, NEW r \in Tackled, Key(q) = Key(r)
    PROVE  /\ q.act = r.act => T(q) - T(r) <= BUCKET_SECONDS
           /\ q.act # r.act => T(q) - T(r) > BUCKET_SECONDS \/ T(r) - T(q) > BUCKET_SECONDS
<1>1. /\ q.act.by = r.act.by /\ q.act.to = r.act.to /\ q.act.effect = r.act.effect
  BY TackleFacts DEF Key
<1>2. /\ Owner[q.log] \in Pilot /\ Owner[r.log] \in Pilot
      /\ q.act \in hist.tackles /\ r.act \in hist.tackles
      /\ q.act.at \in Int /\ r.act.at \in Int
      /\ hist.skew[Owner[q.log]] \in Int /\ hist.skew[Owner[r.log]] \in Int
      /\ T(q) = q.act.at + hist.skew[Owner[q.log]] /\ T(r) = r.act.at + hist.skew[Owner[r.log]]
      /\ BUCKET_SECONDS \in Nat
  BY TackleFacts, LogViewsAssumption
<1>3. CASE q.act = r.act
  <2>1. hist.skew[Owner[q.log]] - hist.skew[Owner[r.log]] <= BUCKET_SECONDS
    BY <1>2 DEF Legible, ClocksAgree
  <2>. QED  BY <1>2, <1>3, <2>1
<1>4. CASE q.act # r.act
  <2>1. q.act.at # r.act.at
    <3>1. q.act \in Acts /\ r.act \in Acts
      BY TackleFacts
    <3>. QED  BY <1>1, <1>4, <3>1 DEF Acts
  <2>2. CASE q.act.at < r.act.at
    <3>1. r.act.at + hist.skew[Owner[r.log]] - (q.act.at + hist.skew[Owner[q.log]]) > BUCKET_SECONDS
      BY <1>1, <1>2, <2>2 DEF Legible, Apart
    <3>. QED  BY <1>2, <1>4, <3>1
  <2>3. CASE r.act.at < q.act.at
    <3>1. q.act.at + hist.skew[Owner[q.log]] - (r.act.at + hist.skew[Owner[r.log]]) > BUCKET_SECONDS
      BY <1>1, <1>2, <2>3 DEF Legible, Apart
    <3>. QED  BY <1>2, <1>4, <3>1
  <2>4. q.act.at < r.act.at \/ r.act.at < q.act.at
    <3>1. \A a, b \in Int : a # b => a < b \/ b < a
      OBVIOUS
    <3>2. q.act.at \in Int /\ r.act.at \in Int
      BY <1>2
    <3>. QED  BY <2>1, <3>1, <3>2
  <2>. QED  BY <2>2, <2>3, <2>4
<1>. QED  BY <1>3, <1>4

FirstOf(K, p) == p \in K /\ \A q \in K : q.act = p.act => T(p) <= T(q)

\* Each tackle's cluster is opened by its first row.
LEMMA ClusterOpensWithFirst ==
    ASSUME Legible, NEW K \in SUBSET Tackled, \A q, r \in K : Key(q) = Key(r), NEW r \in K
    PROVE  \E p \in K : FirstOf(K, p) /\ p.act = r.act /\ Cluster(K, r) = T(p)
<1>. DEFINE times == {T(q) : q \in K}
            W == {T(p) : p \in {p \in K : FirstOf(K, p)}}
            Openings(A) == \A t \in times :
                             t \in A <=> \A u \in A : ~(t - BUCKET_SECONDS <= u /\ u < t)
<1>1. /\ BUCKET_SECONDS \in Nat
      /\ \A q \in K : T(q) \in Int
      /\ \A q, p \in K : q.act = p.act => T(q) - T(p) <= BUCKET_SECONDS
      /\ \A q, p \in K : q.act # p.act =>
           T(q) - T(p) > BUCKET_SECONDS \/ T(p) - T(q) > BUCKET_SECONDS
  BY TackleFacts, TimesTellActs, LogViewsAssumption
<1>2. ASSUME NEW q \in K
      PROVE  \E p \in K : FirstOf(K, p) /\ p.act = q.act
  <2>. DEFINE low == T(q) - BUCKET_SECONDS
              N == {T(p) - low : p \in {p \in K : p.act = q.act}}
  <2>1. N \subseteq Nat /\ N # {}
    <3>1. \A p \in K : p.act = q.act => T(p) - low \in Nat
      BY <1>1
    <3>. HIDE DEF low
    <3>. QED  BY <3>1
  <2>2. PICK n \in N : \A m \in N : n <= m
    <3>. HIDE DEF N
    <3>. QED  BY <2>1, LeastExists
  <2>3. PICK p \in K : p.act = q.act /\ n = T(p) - low
    BY <2>2
  <2>4. \A x \in K : x.act = q.act => T(p) - low <= T(x) - low
    BY <2>2, <2>3
  <2>5. low \in Int
    BY <1>1
  <2>. HIDE DEF low
  <2>6. \A x \in K : x.act = p.act => T(p) <= T(x)
    BY <1>1, <2>3, <2>4, <2>5
  <2>. QED  BY <2>3, <2>6 DEF FirstOf
<1>3. \A p, q \in K : FirstOf(K, p) => ~(T(p) - BUCKET_SECONDS <= T(q) /\ T(q) < T(p))
  <2>. SUFFICES ASSUME NEW p \in K, NEW q \in K, FirstOf(K, p),
                       T(p) - BUCKET_SECONDS <= T(q), T(q) < T(p)
                PROVE  FALSE
    OBVIOUS
  <2>1. CASE q.act = p.act
    BY <1>1, <2>1 DEF FirstOf
  <2>2. CASE q.act # p.act
    BY <1>1, <2>2
  <2>. QED  BY <2>1, <2>2
<1>4. Openings(W)
  <2>. SUFFICES ASSUME NEW q \in K
                PROVE  T(q) \in W <=> \A u \in W : ~(T(q) - BUCKET_SECONDS <= u /\ u < T(q))
    OBVIOUS
  <2>1. ASSUME T(q) \in W, NEW u \in W
        PROVE  ~(T(q) - BUCKET_SECONDS <= u /\ u < T(q))
    <3>1. PICK p \in K : FirstOf(K, p) /\ T(q) = T(p)
      BY <2>1
    <3>2. PICK p2 \in K : u = T(p2)
      BY <2>1
    <3>. QED  BY <1>3, <3>1, <3>2
  <2>2. ASSUME \A u \in W : ~(T(q) - BUCKET_SECONDS <= u /\ u < T(q))
        PROVE  T(q) \in W
    <3>1. PICK p \in K : FirstOf(K, p) /\ p.act = q.act
      BY <1>2
    <3>2. T(p) \in W
      BY <3>1
    <3>3. T(p) <= T(q) /\ T(q) - BUCKET_SECONDS <= T(p)
      BY <1>1, <3>1 DEF FirstOf
    <3>4. T(p) = T(q)
      BY <1>1, <2>2, <3>2, <3>3
    <3>. QED  BY <3>2, <3>4
  <2>. QED  BY <2>1, <2>2
<1>. DEFINE A == Anchors(K)
<1>5. A \in SUBSET times /\ Openings(A)
  <2>1. W \in SUBSET times
    OBVIOUS
  <2>2. A = CHOOSE B \in SUBSET times : Openings(B)
    BY DEF Anchors, T
  <2>. HIDE DEF A, W, Openings, times
  <2>. QED  BY <1>4, <2>1, <2>2
<1>. HIDE DEF A
<1>6. \A p \in K : FirstOf(K, p) => T(p) \in A
  BY <1>3, <1>5
<1>7. ASSUME NEW a \in A
      PROVE  \E p \in K : FirstOf(K, p) /\ a = T(p)
  <2>1. PICK q \in K : a = T(q)
    BY <1>5
  <2>2. PICK p \in K : FirstOf(K, p) /\ p.act = q.act
    BY <1>2
  <2>3. T(p) \in A
    BY <1>6, <2>2
  <2>4. T(p) <= T(q) /\ T(q) - BUCKET_SECONDS <= T(p)
    BY <1>1, <2>2 DEF FirstOf
  <2>5. ~(T(q) - BUCKET_SECONDS <= T(p) /\ T(p) < T(q))
    BY <1>5, <2>1, <2>3
  <2>. QED  BY <1>1, <2>1, <2>2, <2>4, <2>5
<1>8. PICK p \in K : FirstOf(K, p) /\ p.act = r.act
  BY <1>2
<1>. DEFINE S == {a \in A : a <= T(r) /\ T(r) - a <= BUCKET_SECONDS}
<1>9. S = {T(p)}
  <2>1. T(p) \in S
    <3>1. T(p) <= T(r) /\ T(r) - T(p) <= BUCKET_SECONDS
      BY <1>1, <1>8 DEF FirstOf
    <3>. QED  BY <1>6, <1>8, <3>1
  <2>2. ASSUME NEW a \in S
        PROVE  a = T(p)
    <3>1. PICK x \in K : FirstOf(K, x) /\ a = T(x)
      BY <1>7
    <3>2. T(x) <= T(r) /\ T(r) - T(x) <= BUCKET_SECONDS
      BY <3>1
    <3>3. x.act = r.act
      BY <1>1, <3>2
    <3>4. T(x) <= T(p) /\ T(p) <= T(x)
      BY <1>8, <3>1, <3>3 DEF FirstOf
    <3>. QED  BY <1>1, <3>1, <3>4
  <2>. QED  BY <2>1, <2>2
<1>10. Cluster(K, r) = Min(S)
  BY DEF Cluster, A, T
<1>. HIDE DEF S
<1>11. Min(S) = T(p)
  BY <1>1, <1>9 DEF Min
<1>. QED  BY <1>8, <1>10, <1>11

LEMMA ClustersAreActs ==
    ASSUME Legible, NEW K \in SUBSET Tackled, \A q, r \in K : Key(q) = Key(r),
           NEW q \in K, NEW r \in K
    PROVE  Cluster(K, q) = Cluster(K, r) <=> q.act = r.act
<1>1. PICK x \in K : FirstOf(K, x) /\ x.act = q.act /\ Cluster(K, q) = T(x)
  BY ClusterOpensWithFirst
<1>2. PICK y \in K : FirstOf(K, y) /\ y.act = r.act /\ Cluster(K, r) = T(y)
  BY ClusterOpensWithFirst
<1>3. T(x) \in Int /\ T(y) \in Int /\ BUCKET_SECONDS \in Nat
  BY TackleFacts, LogViewsAssumption
<1>4. CASE q.act = r.act
  BY <1>1, <1>2, <1>3, <1>4 DEF FirstOf
<1>5. CASE q.act # r.act
  <2>1. Key(x) = Key(y) /\ x \in Tackled /\ y \in Tackled /\ x.act # y.act
    BY <1>1, <1>2, <1>5
  <2>2. T(x) - T(y) > BUCKET_SECONDS \/ T(y) - T(x) > BUCKET_SECONDS
    BY <2>1, TimesTellActs
  <2>. QED  BY <1>1, <1>2, <1>3, <1>5, <2>2
<1>. QED  BY <1>4, <1>5

\* A row gives way to the better ones of its tackle.
LEMMA LosersHaveBetter ==
    ASSUME Legible, NEW K \in SUBSET Tackled, NEW r \in K
    PROVE  r \in Losers(files, K) <=> \E q \in K : q.act = r.act /\ Better(files, q, r)
<1>. DEFINE G == {q \in K : Key(q) = Key(r)}
<1>1. r \in Losers(files, K) <=> \E q \in G : Cluster(G, q) = Cluster(G, r) /\ Better(files, q, r)
  BY DEF Losers
<1>2. G \in SUBSET Tackled /\ r \in G /\ \A p, q \in G : Key(p) = Key(q)
  OBVIOUS
<1>3. \A q \in K : q.act = r.act => q \in G
  <2>. SUFFICES ASSUME NEW q \in K, q.act = r.act PROVE Key(q) = Key(r)
    OBVIOUS
  <2>. QED  BY TackleFacts DEF Key
<1>4. \A q \in G : q \in K
  OBVIOUS
<1>. HIDE DEF G
<1>5. \A q \in G : Cluster(G, q) = Cluster(G, r) <=> q.act = r.act
  BY <1>2, ClustersAreActs
<1>. QED  BY <1>1, <1>3, <1>4, <1>5

-----------------------------------------------------------------------------
(* One row of each tackle is the best.                                     *)

LEMMA AuthorityIsBoolean ==
    ASSUME NEW l, NEW x
    PROVE  TackleRow(l, x).authoritative \in BOOLEAN
<1>. DEFINE b == Owner[l] \in {x.by, x.to}
            s == NameOf(l, x.by)
            t == NameOf(l, x.to)
            d == IF Owner[l] = x.by THEN "out" ELSE "in"
<1>1. b \in BOOLEAN
  OBVIOUS
<1>2. TackleRow(l, x) = [log |-> l, act |-> x, source |-> s, target |-> t,
                         dir |-> d, authoritative |-> b]
  BY Zenon DEF TackleRow
<1>. HIDE DEF b, s, t, d
<1>. QED  BY <1>1, <1>2

LEMMA BestRow ==
    ASSUME ViewsTypeOK, NEW K \in SUBSET Tackled, \A q \in K : q.log \in ToSet(files),
           NEW r \in K
    PROVE  \E p \in K : p.act = r.act /\ \A q \in K : q.act = r.act => ~Better(files, q, p)
<1>1. files \in Seq(Log) /\ NoRepeats(files) /\ Len(files) \in Nat
      /\ DOMAIN files = 1..Len(files)
  BY DEF ViewsTypeOK
<1>2. \A q \in K : q.authoritative \in BOOLEAN
  <2>. TAKE q \in K
  <2>1. q = TackleRow(q.log, q.act)
    BY TackledRows
  <2>. QED  BY <2>1, AuthorityIsBoolean
<1>. DEFINE rank(q, i) == IF q.authoritative THEN i ELSE i + Len(files)
            N == {n \in Nat : \E q \in K : \E i \in 1..Len(files) :
                                 q.act = r.act /\ files[i] = q.log /\ n = rank(q, i)}
<1>3. N \subseteq Nat /\ N # {}
  <2>1. PICK i \in 1..Len(files) : files[i] = r.log
    BY <1>1 DEF ToSet
  <2>2. rank(r, i) \in Nat
    BY <1>1
  <2>3. rank(r, i) \in N
    <3>. HIDE DEF rank
    <3>. QED  BY <2>1, <2>2
  <2>. QED  BY <2>3
<1>4. PICK n \in N : \A m \in N : n <= m
  <2>. HIDE DEF N
  <2>. QED  BY <1>3, LeastExists
<1>5. PICK p \in K, i \in 1..Len(files) : p.act = r.act /\ files[i] = p.log /\ n = rank(p, i)
  BY <1>4
<1>6. ASSUME NEW q \in K, q.act = r.act, Better(files, q, p)
      PROVE  FALSE
  <2>1. PICK j \in 1..Len(files) : files[j] = q.log
    BY <1>1 DEF ToSet
  <2>2. rank(q, j) \in Nat
    BY <1>1
  <2>3. rank(p, i) <= rank(q, j)
    <3>1. rank(q, j) \in N
      <4>. HIDE DEF rank
      <4>. QED  BY <1>6, <2>1, <2>2
    <3>. QED  BY <1>4, <1>5, <3>1
  <2>4. CASE q.authoritative /\ ~p.authoritative
    BY <1>1, <2>3, <2>4
  <2>5. CASE q.authoritative = p.authoritative /\ Before(files, q, p)
    <3>1. ~(q.act.at < p.act.at)
      <4>1. q.act = p.act
        BY <1>5, <1>6
      <4>2. q.act.at \in Int
        BY TackledRows, HistoryType DEF Acts
      <4>. QED  BY <4>1, <4>2
    <3>2. Precedes(files, q.log, p.log)
      BY <2>5, <3>1 DEF Before
    <3>3. PICK x \in 1..Len(files), y \in 1..Len(files) :
             x < y /\ files[x] = q.log /\ files[y] = p.log
      BY <1>1, <3>2 DEF Precedes
    <3>4. x = j /\ y = i
      BY <1>1, <1>5, <2>1, <3>3 DEF NoRepeats
    <3>. QED  BY <1>1, <2>3, <2>5, <3>3, <3>4
  <2>. QED  BY <1>2, <1>6, <2>4, <2>5 DEF Better
<1>. QED  BY <1>5, <1>6

LEMMA BetterIsTotal ==
    ASSUME ViewsTypeOK, NEW q \in Tackled, NEW r \in Tackled, q.act = r.act, q # r,
           q.log \in ToSet(files), r.log \in ToSet(files)
    PROVE  Better(files, q, r) \/ Better(files, r, q)
<1>1. q.log # r.log
  BY TackledRows
<1>2. PICK i \in DOMAIN files, j \in DOMAIN files : files[i] = q.log /\ files[j] = r.log
  BY DEF ToSet
<1>3. i \in Nat /\ j \in Nat
  BY DEF ViewsTypeOK
<1>4. i < j \/ j < i
  BY <1>1, <1>2, <1>3
<1>5. Precedes(files, q.log, r.log) \/ Precedes(files, r.log, q.log)
  BY <1>2, <1>4 DEF Precedes
<1>6. q.authoritative \in BOOLEAN /\ r.authoritative \in BOOLEAN
  <2>1. q = TackleRow(q.log, q.act) /\ r = TackleRow(r.log, r.act)
    BY TackledRows
  <2>. QED  BY <2>1, AuthorityIsBoolean
<1>. QED  BY <1>5, <1>6 DEF Better, Before

\* Of the rows of a fight that tell of a tackle, one is kept; and no other.
LEMMA OneIsKept ==
    ASSUME ViewsInv, Legible, OneFightEach
    PROVE  /\ \A f \in ToSet(fights) : \A r \in InFight(f, Tackled) :
                \E p \in InFight(f, Tackled) : p.act = r.act /\ p \in Kept
           /\ \A q, r \in Kept : q.act = r.act => q = r
<1>1. ASSUME NEW f \in ToSet(fights)
      PROVE  /\ InFight(f, Tackled) \in SUBSET Tackled
             /\ \A q \in InFight(f, Tackled) : q.log \in ToSet(files)
             /\ \A q \in InFight(f, Tackled) :
                  q \in Kept <=> q \notin Losers(files, InFight(f, Tackled))
  <2>1. InFight(f, Tackled) \in SUBSET Tackled
        /\ \A q \in InFight(f, Tackled) : q.log \in ToSet(files)
    BY DEF InFight, Stamped, Uploaded
  <2>2. \A q \in InFight(f, Tackled) : q \in InFights(Tackled)
    BY DEF InFights
  <2>. QED  BY <2>1, <2>2 DEF Kept, ViewsInv, FlagsExact
<1>2. ASSUME NEW f \in ToSet(fights), NEW r \in InFight(f, Tackled)
      PROVE  \E p \in InFight(f, Tackled) : p.act = r.act /\ p \in Kept
  <2>. DEFINE K == InFight(f, Tackled)
  <2>1. PICK p \in K : p.act = r.act /\ \A q \in K : q.act = r.act => ~Better(files, q, p)
    <3>. HIDE DEF K
    <3>1. K \in SUBSET Tackled /\ (\A q \in K : q.log \in ToSet(files)) /\ r \in K
      BY <1>1 DEF K
    <3>. QED  BY <3>1, BestRow DEF Legible
  <2>2. p \notin Losers(files, K)
    <3>1. K \in SUBSET Tackled
      BY <1>1
    <3>. HIDE DEF K
    <3>. QED  BY <2>1, <3>1, LosersHaveBetter
  <2>. QED  BY <1>1, <2>1, <2>2
<1>3. ASSUME NEW q \in Kept, NEW r \in Kept, q.act = r.act, q # r
      PROVE  FALSE
  <2>1. PICK f \in ToSet(fights) : q \in InFight(f, Tackled)
    BY DEF Kept, InFights
  <2>2. PICK g \in ToSet(fights) : r \in InFight(g, Tackled)
    BY DEF Kept, InFights
  <2>3. f = g
    BY <1>3, <2>1, <2>2 DEF OneFightEach
  <2>. DEFINE K == InFight(f, Tackled)
  <2>4. /\ q \in K /\ r \in K /\ K \in SUBSET Tackled
        /\ q.log \in ToSet(files) /\ r.log \in ToSet(files)
        /\ q \notin Losers(files, K) /\ r \notin Losers(files, K)
    BY <1>1, <2>1, <2>2, <2>3
  <2>. HIDE DEF K
  <2>5. Better(files, q, r) \/ Better(files, r, q)
    BY <1>3, <2>4, BetterIsTotal DEF Legible
  <2>. QED  BY <1>3, <2>4, <2>5, LosersHaveBetter
<1>. QED  BY <1>2, <1>3

\* A set of rows in which each act of S has one counts them.
LEMMA OneEachCounts ==
    ASSUME NEW R, NEW S, IsFiniteSet(S),
           \A r \in R : r.act \in S,
           \A x \in S : \E r \in R : r.act = x,
           \A q, r \in R : q.act = r.act => q = r
    PROVE  {r.act : r \in R} = S /\ Cardinality(R) = Cardinality(S)
<1>. DEFINE f == [x \in S |-> CHOOSE r \in R : r.act = x]
<1>1. \A x \in S : f[x] \in R /\ f[x].act = x
  OBVIOUS
<1>2. f \in [S -> R]
  BY <1>1
<1>. HIDE DEF f
<1>3. f \in Surjection(S, R) /\ f \in Injection(S, R)
  <2>1. \A r \in R : \E x \in S : f[x] = r
    <3>. TAKE r \in R
    <3>1. f[r.act] = r
      BY <1>1
    <3>. QED  BY <3>1
  <2>2. \A x, y \in S : f[x] = f[y] => x = y
    BY <1>1
  <2>. QED  BY <1>2, <2>1, <2>2 DEF Surjection, Injection, IsInjective
<1>4. Cardinality(R) = Cardinality(S)
  BY <1>3, FS_Surjection
<1>. QED  BY <1>4

\* Of any logs, fights and histories: if clocks do not blur tackles and clients name
\* pilots, the list, the timeline, the leaders and each fight's summary count every
\* tackle once that some stamped row tells of, whatever was uploaded and deleted.
THEOREM TacklesAreCountedOnce == Spec => []TacklesCountOnce
<1>1. ViewsInv => TacklesCountOnce
  <2>. SUFFICES ASSUME ViewsInv, ClocksAgree, Apart, OneFightEach, hist.terse = {}
                PROVE  TacklesCountOnce
    BY DEF TacklesCountOnce
  <2>1. Legible
    BY DEF Legible, ViewsInv
  <2>. DEFINE told == Told(hist.tackles, InFights(Tackled))
              once(R, S) == {r.act : r \in R} = S /\ Cardinality(R) = Cardinality(S)
  <2>2. /\ Kept \subseteq InFights(Tackled)
        /\ \A r \in InFights(Tackled) : \E p \in Kept : p.act = r.act
        /\ \A q, r \in Kept : q.act = r.act => q = r
    <3>1. \A r \in InFights(Tackled) : \E p \in Kept : p.act = r.act
      BY <2>1, OneIsKept DEF InFights
    <3>. QED  BY <2>1, <3>1, OneIsKept DEF Kept
  <2>3. /\ InFights(Tackled) \subseteq Tackled
        /\ \A r \in Tackled : /\ r.act \in hist.tackles
                              /\ r.source = r.act.by /\ r.target = r.act.to
                              /\ r.act.by \in Pilot /\ r.act.to \in Pilot
    <3>1. InFights(Tackled) \subseteq Tackled
      BY DEF InFights, InFight, Stamped
    <3>. QED  BY <2>1, <3>1, TackleFacts DEF Acts
  <2>4. IsFiniteSet(hist.tackles)
    BY HistoryType DEF ViewsInv
  <2>5. ASSUME NEW S \in SUBSET hist.tackles, NEW R \in SUBSET Kept,
               \A r \in R : r.act \in S, \A x \in S : \E r \in R : r.act = x
        PROVE  once(R, S)
    <3>1. IsFiniteSet(S)
      BY <2>4, FS_Subset
    <3>2. \A q, r \in R : q.act = r.act => q = r
      BY <2>2
    <3>. QED  BY <2>5, <3>1, <3>2, OneEachCounts
  <2>6. told \in SUBSET hist.tackles /\ (\A r \in Kept : r.act \in told)
        /\ \A x \in told : \E r \in Kept : r.act = x
    BY <2>2, <2>3 DEF Told
  <2>7. SnapshotTackles = Kept
    BY <2>2, <2>3, LogViewsAssumption DEF SnapshotTackles
  <2>. HIDE DEF once, told
  <2>8. once(SnapshotTackles, told) /\ once(TackleSeries, told)
    BY <2>5, <2>6, <2>7 DEF TackleSeries
  <2>9. ASSUME NEW c \in Pilot
        PROVE  once(TackleTaken(c), {x \in told : x.to = c})
    <3>1. \A r \in TackleTaken(c) : r \in Kept /\ r.act.to = c
      BY <2>2, <2>3 DEF TackleTaken
    <3>2. \A r \in Kept : r.act.to = c => r \in TackleTaken(c)
      BY <2>2, <2>3 DEF TackleTaken
    <3>3. {x \in told : x.to = c} \in SUBSET hist.tackles /\ TackleTaken(c) \in SUBSET Kept
      BY <2>6, <3>1
    <3>4. \A r \in TackleTaken(c) : r.act \in {x \in told : x.to = c}
      BY <2>6, <3>1
    <3>5. \A x \in {x \in told : x.to = c} : \E r \in TackleTaken(c) : r.act = x
      BY <2>6, <3>2
    <3>. QED  BY <2>5, <3>3, <3>4, <3>5
  <2>10. ASSUME NEW f \in ToSet(fights)
         PROVE  once(FightEwar(f), Told({x \in hist.tackles : x.by # x.to}, InFight(f, Tackled)))
    <3>. DEFINE S == Told({x \in hist.tackles : x.by # x.to}, InFight(f, Tackled))
    <3>1. InFight(f, Tackled) \subseteq InFights(Tackled)
      BY DEF InFights
    <3>2. \A r \in FightEwar(f) : r \in Kept /\ r \in InFight(f, Tackled) /\ r.act.by # r.act.to
      BY <2>3, <2>7, <3>1 DEF FightEwar
    <3>3. \A r \in Kept : r \in InFight(f, Tackled) /\ r.act.by # r.act.to => r \in FightEwar(f)
      BY <2>3, <2>7, <3>1 DEF FightEwar
    <3>4. S \in SUBSET hist.tackles /\ FightEwar(f) \in SUBSET Kept
      BY <3>2 DEF Told
    <3>5. \A r \in FightEwar(f) : r.act \in S
      BY <2>3, <3>1, <3>2 DEF Told
    <3>6. \A x \in S : \E r \in FightEwar(f) : r.act = x
      <4>. TAKE x \in S
      <4>1. PICK r \in InFight(f, Tackled) : r.act = x /\ x.by # x.to
        BY DEF Told
      <4>2. PICK p \in InFight(f, Tackled) : p.act = r.act /\ p \in Kept
        BY <2>1, OneIsKept
      <4>. QED  BY <3>3, <4>1, <4>2
    <3>. HIDE DEF S
    <3>7. once(FightEwar(f), S)
      BY <2>5, <3>4, <3>5, <3>6
    <3>. QED  BY <3>7 DEF S
  <2>. QED  BY <2>8, <2>9, <2>10 DEF TacklesCountOnce, once, told
<1>. QED  BY <1>1, ViewsSafety, PTL

-----------------------------------------------------------------------------
(* Repairs and transfers are written down by their two ends.               *)

AssistRow(l, x, d) ==
    [log |-> l, act |-> x, dir |-> d, other |-> NameOf(l, IF d = "out" THEN x.to ELSE x.by)]
Dirs == {"out", "in"}
\* The pilot whose log writes x down in the direction d.
End(x, d) == IF d = "out" THEN x.by ELSE x.to

LEMMA AssistedRows ==
    /\ \A r \in Assisted : /\ r = AssistRow(r.log, r.act, r.dir)
                           /\ r.log \in Log /\ r.act \in hist.assists /\ r.dir \in Dirs
                           /\ Covers(r.log, r.act) /\ Owner[r.log] = End(r.act, r.dir)
    /\ \A l \in Log, x \in hist.assists, d \in Dirs : Covers(l, x) /\ Owner[l] = End(x, d) =>
         /\ AssistRow(l, x, d) \in Assisted
         /\ AssistRow(l, x, d).log = l /\ AssistRow(l, x, d).act = x /\ AssistRow(l, x, d).dir = d
<1>1. ASSUME NEW r \in Assisted
      PROVE  /\ r = AssistRow(r.log, r.act, r.dir)
             /\ r.log \in Log /\ r.act \in hist.assists /\ r.dir \in Dirs
             /\ Covers(r.log, r.act) /\ Owner[r.log] = End(r.act, r.dir)
  <2>1. PICK l \in Log : r \in Rows(l)
    BY DEF Assisted
  <2>2. r \in AssistRows(l) /\ Owner[l] = IF r.dir = "out" THEN r.act.by ELSE r.act.to
    BY <2>1 DEF Rows
  <2>3. PICK x \in hist.assists, d \in Dirs : Covers(l, x) /\ r = AssistRow(l, x, d)
    BY <2>2 DEF AssistRows, AssistRow, Dirs
  <2>4. r.log = l /\ r.act = x /\ r.dir = d
    BY <2>3 DEF AssistRow
  <2>. QED  BY <2>2, <2>3, <2>4 DEF End
<1>2. ASSUME NEW l \in Log, NEW x \in hist.assists, NEW d \in Dirs,
             Covers(l, x), Owner[l] = End(x, d)
      PROVE  /\ AssistRow(l, x, d) \in Assisted
             /\ AssistRow(l, x, d).log = l /\ AssistRow(l, x, d).act = x
             /\ AssistRow(l, x, d).dir = d
  <2>1. AssistRow(l, x, d) \in AssistRows(l)
    <3>1. AssistRows(l) = {AssistRow(l, y, e) : y \in {z \in hist.assists : Covers(l, z)}, e \in Dirs}
      BY DEF AssistRows, AssistRow, Dirs
    <3>2. x \in {z \in hist.assists : Covers(l, z)}
      BY <1>2
    <3>. QED  BY <3>1, <3>2
  <2>2. /\ AssistRow(l, x, d).log = l /\ AssistRow(l, x, d).act = x
        /\ AssistRow(l, x, d).dir = d
    BY DEF AssistRow
  <2>3. AssistRow(l, x, d) \in Rows(l)
    BY <1>2, <2>1, <2>2 DEF Rows, End
  <2>. QED  BY <2>2, <2>3 DEF Assisted
<1>. QED  BY <1>1, <1>2

\* Who is named on the other side is the other end.
LEMMA OthersAreEnds ==
    ASSUME NEW r \in Assisted, NEW c \in Pilot, NEW d \in Dirs, d # r.dir
    PROVE  /\ r.other = c => End(r.act, d) = c
           /\ Owner[r.log] = c /\ End(r.act, d) = c => r.other = c
<1>1. r = AssistRow(r.log, r.act, r.dir) /\ r.dir \in Dirs
  BY AssistedRows
<1>2. r.other = NameOf(r.log, IF r.dir = "out" THEN r.act.to ELSE r.act.by)
  BY <1>1 DEF AssistRow
<1>3. r.other = NameOf(r.log, End(r.act, d))
  BY <1>1, <1>2 DEF End, Dirs
<1>. QED  BY <1>3, LogViewsAssumption DEF NameOf

LEMMA StampedAssists ==
    \A r : r \in Assists <=>
      r \in Assisted /\ r.log \in ToSet(files) /\ ~Superseded(files, r.log)
      /\ \E f \in ToSet(fights) : Owns(fights, f, r)
BY DEF Assists, InFights, InFight, Stamped, Uploaded

\* One current log of a pilot covers an act.
LEMMA OneLogOfAPilot ==
    ASSUME NEW q \in Assists, NEW r \in Assists, q.act = r.act, Owner[q.log] = Owner[r.log],
           ViewsTypeOK
    PROVE  q.log = r.log
<1>1. /\ q.log \in Log /\ r.log \in Log
      /\ q.act.at \in Span[q.log][1] .. Span[q.log][2]
      /\ q.act.at \in Span[r.log][1] .. Span[r.log][2]
  BY StampedAssists, AssistedRows DEF Covers
<1>2. q.act.at \in Int
  BY StampedAssists, AssistedRows, HistoryType DEF Acts
<1>3. Span[q.log] \in Int \X Int /\ Span[r.log] \in Int \X Int
  BY <1>1, LogViewsAssumption
<1>4. Session[q.log] = Session[r.log]
  <2>. SUFFICES ASSUME Session[q.log] # Session[r.log]
                PROVE  FALSE
    OBVIOUS
  <2>1. Span[q.log][2] < Span[r.log][1] \/ Span[r.log][2] < Span[q.log][1]
    BY <1>1, LogViewsAssumption
  <2>. QED  BY <1>1, <1>2, <1>3, <2>1
<1>5. ~(Span[q.log][2] > Span[r.log][2]) /\ ~(Span[r.log][2] > Span[q.log][2])
  BY <1>4, StampedAssists DEF Superseded, Uploaded
<1>6. Span[q.log][2] = Span[r.log][2]
  BY <1>3, <1>5
<1>7. Span[q.log][1] = Span[r.log][1] /\ (Span[q.log] = Span[r.log] => q.log = r.log)
  BY <1>1, <1>4, LogViewsAssumption
<1>. QED  BY <1>3, <1>6, <1>7

LEMMA OneRowOfAnEnd ==
    ASSUME ViewsTypeOK, NEW q \in Assists, NEW r \in Assists, q.act = r.act, q.dir = r.dir
    PROVE  q = r
<1>1. /\ q = AssistRow(q.log, q.act, q.dir) /\ r = AssistRow(r.log, r.act, r.dir)
      /\ Owner[q.log] = End(q.act, q.dir) /\ Owner[r.log] = End(r.act, r.dir)
  BY StampedAssists, AssistedRows
<1>2. q.log = r.log
  BY <1>1, OneLogOfAPilot
<1>. QED  BY <1>1, <1>2

\* The rows that count for pilot c in the direction d: the own ones, or the mirrors.
Own(c, d) == {r \in Assists : r.dir = d /\ Owner[r.log] = c}
Mirrors(c, d) == {r \in Assists : r.dir # d /\ r.other = c}
OwnOrMirrors(c, d) == IF Own(c, d) # {} THEN Own(c, d) ELSE Mirrors(c, d)
Named(c, d) ==
    {x \in hist.assists : End(x, d) = c /\ \E r \in Assists :
                            r.act = x /\ (Owner[r.log] = c \/ r.other = c)}
Complete(c, d) ==
    Own(c, d) # {} => \A r \in Assists : End(r.act, d) = c => \E q \in Own(c, d) : q.act = r.act

LEMMA OwnOrMirrorsCount ==
    ASSUME ViewsTypeOK, NEW c \in Pilot, NEW d \in Dirs, Complete(c, d)
    PROVE  /\ \A r \in OwnOrMirrors(c, d) : r.act \in Named(c, d)
           /\ \A x \in Named(c, d) : \E r \in OwnOrMirrors(c, d) : r.act = x
           /\ \A q, r \in OwnOrMirrors(c, d) : q.act = r.act => q = r
           /\ Own(c, d) # {} => \A r \in Mirrors(c, d) : \E q \in Own(c, d) : q.act = r.act
           /\ Own(c, d) = {} => \A r \in Mirrors(c, d) : Owner[r.log] # c
<1>1. \A r \in Assists : /\ r \in Assisted /\ r.act \in hist.assists /\ r.dir \in Dirs
                         /\ Owner[r.log] = End(r.act, r.dir)
  BY StampedAssists, AssistedRows
<1>2. \A r \in Own(c, d) : r \in Assists /\ r.dir = d /\ Owner[r.log] = c /\ End(r.act, d) = c
  BY <1>1 DEF Own
<1>3. \A r \in Mirrors(c, d) : r \in Assists /\ r.dir # d /\ r.other = c /\ End(r.act, d) = c
  BY <1>1, OthersAreEnds DEF Mirrors
<1>4. \A r \in OwnOrMirrors(c, d) : r.act \in Named(c, d)
  BY <1>1, <1>2, <1>3 DEF OwnOrMirrors, Named
<1>5. ASSUME NEW x \in Named(c, d)
      PROVE  \E r \in OwnOrMirrors(c, d) : r.act = x
  <2>1. PICK r \in Assists : r.act = x /\ (Owner[r.log] = c \/ r.other = c) /\ End(x, d) = c
    BY DEF Named
  <2>2. CASE Own(c, d) # {}
    BY <2>1, <2>2 DEF OwnOrMirrors, Complete
  <2>3. CASE Own(c, d) = {}
    <3>1. r.dir # d
      BY <1>1, <2>1, <2>3 DEF Own
    <3>2. r.other = c
      BY <1>1, <2>1, <3>1, OthersAreEnds
    <3>. QED  BY <2>1, <2>3, <3>1, <3>2 DEF OwnOrMirrors, Mirrors
  <2>. QED  BY <2>2, <2>3
<1>6. ASSUME NEW q \in OwnOrMirrors(c, d), NEW r \in OwnOrMirrors(c, d), q.act = r.act
      PROVE  q = r
  <2>1. q \in Assists /\ r \in Assists
    BY <1>2, <1>3 DEF OwnOrMirrors
  <2>2. q.dir = r.dir
    BY <1>1, <1>2, <1>3 DEF OwnOrMirrors, Dirs
  <2>. QED  BY <1>6, <2>1, <2>2, OneRowOfAnEnd
<1>7. Own(c, d) # {} => \A r \in Mirrors(c, d) : \E q \in Own(c, d) : q.act = r.act
  BY <1>3 DEF Complete
<1>8. ASSUME Own(c, d) = {}, NEW r \in Mirrors(c, d), Owner[r.log] = c
      PROVE  FALSE
  <2>1. /\ r \in Assisted /\ r.act \in hist.assists /\ r.log \in Log
        /\ Covers(r.log, r.act) /\ Owner[r.log] = End(r.act, d)
    BY <1>1, <1>3, <1>8, AssistedRows
  <2>. DEFINE q == AssistRow(r.log, r.act, d)
  <2>2. q \in Assisted /\ q.log = r.log /\ q.act = r.act /\ q.dir = d
    BY <2>1, AssistedRows
  <2>. HIDE DEF q
  <2>3. \A f : Owns(fights, f, q) <=> Owns(fights, f, r)
    BY <2>2 DEF Owns, Inside
  <2>4. q \in Assists
    BY <1>3, <2>2, <2>3, StampedAssists
  <2>. QED  BY <1>8, <2>2, <2>4 DEF Own
<1>. QED  BY <1>4, <1>5, <1>6, <1>7, <1>8

LEMMA CompleteLogs ==
    ASSUME NEW c \in Pilot
    PROVE  /\ AllOrNone(c, "by") => Complete(c, "out")
           /\ AllOrNone(c, "to") => Complete(c, "in")
<1>1. \A r \in Assists : r.act \in hist.assists
  BY StampedAssists, AssistedRows
<1>2. \A r \in Assists : r.act \in Told(hist.assists, Assists)
  BY <1>1 DEF Told
<1>3. ASSUME AllOrNone(c, "by")
      PROVE  Complete(c, "out")
  <2>. SUFFICES ASSUME Own(c, "out") # {}, NEW r \in Assists, r.act.by = c
                PROVE  \E q \in Own(c, "out") : q.act = r.act
    BY DEF Complete, End
  <2>. DEFINE own == {q.act : q \in Own(c, "out")}
  <2>1. own = {} \/ {x \in Told(hist.assists, Assists) : x["by"] = c} \subseteq own
    BY <1>3 DEF AllOrNone, Own
  <2>2. own # {}
    OBVIOUS
  <2>3. r.act \in {x \in Told(hist.assists, Assists) : x["by"] = c}
    BY <1>2
  <2>. QED  BY <2>1, <2>2, <2>3
<1>4. ASSUME AllOrNone(c, "to")
      PROVE  Complete(c, "in")
  <2>. SUFFICES ASSUME Own(c, "in") # {}, NEW r \in Assists, r.act.to = c
                PROVE  \E q \in Own(c, "in") : q.act = r.act
    BY DEF Complete, End
  <2>. DEFINE own == {q.act : q \in Own(c, "in")}
  <2>1. own = {} \/ {x \in Told(hist.assists, Assists) : x["to"] = c} \subseteq own
    BY <1>4 DEF AllOrNone, Own
  <2>2. own # {}
    OBVIOUS
  <2>3. r.act \in {x \in Told(hist.assists, Assists) : x["to"] = c}
    BY <1>2
  <2>. QED  BY <2>1, <2>2, <2>3
<1>. QED  BY <1>3, <1>4

LEMMA ViewsAreOwnOrMirrors ==
    ASSUME ViewsTypeOK, NEW c \in Pilot
    PROVE  /\ Complete(c, "out") =>
                /\ {r \in AccumulateRemoteAssist(Assists) : Repper(r) = c} = OwnOrMirrors(c, "out")
                /\ RemoteAssistSeries(c, "out") = OwnOrMirrors(c, "out")
                /\ RepsAppliedByChar(c) = {r \in OwnOrMirrors(c, "out") : r.act.effect \in Reps}
           /\ Complete(c, "in") => RemoteAssistSeries(c, "in") = OwnOrMirrors(c, "in")
<1>1. \A r \in Assists : r.dir \in Dirs
  BY StampedAssists, AssistedRows
<1>2. ASSUME NEW d \in Dirs, Complete(c, d)
      PROVE  RemoteAssistSeries(c, d) = OwnOrMirrors(c, d)
  <2>1. RemoteAssistSeries(c, d) =
          IF Own(c, d) # {} THEN Own(c, d) ELSE {r \in Mirrors(c, d) : Owner[r.log] # c}
    BY DEF RemoteAssistSeries, Own, Mirrors
  <2>2. Own(c, d) = {} => {r \in Mirrors(c, d) : Owner[r.log] # c} = Mirrors(c, d)
    BY <1>2, OwnOrMirrorsCount
  <2>. QED  BY <2>1, <2>2 DEF OwnOrMirrors
<1>3. ASSUME Complete(c, "out")
      PROVE  RepsAppliedByChar(c) = {r \in OwnOrMirrors(c, "out") : r.act.effect \in Reps}
  <2>. DEFINE own == {r \in Own(c, "out") : r.act.effect \in Reps}
              mirrors == {r \in Mirrors(c, "out") : r.act.effect \in Reps}
  <2>1. RepsAppliedByChar(c) = IF own # {} THEN own ELSE mirrors
    BY <1>1 DEF RepsAppliedByChar, Own, Mirrors, Dirs
  <2>2. Own(c, "out") # {} /\ own = {} => mirrors = {}
    BY <1>3, OwnOrMirrorsCount DEF Dirs
  <2>. QED  BY <2>1, <2>2 DEF OwnOrMirrors
<1>4. ASSUME Complete(c, "out")
      PROVE  {r \in AccumulateRemoteAssist(Assists) : Repper(r) = c} = OwnOrMirrors(c, "out")
  <2>. DEFINE logged == {<<Owner[q.log], q.act.effect>> : q \in {q \in Assists : q.dir = "out"}}
              snapshot == {r \in AccumulateRemoteAssist(Assists) : Repper(r) = c}
  <2>1. \A r : r \in snapshot <=>
          \/ r \in Own(c, "out")
          \/ r \in Mirrors(c, "out") /\ <<c, r.act.effect>> \notin logged
    BY <1>1 DEF AccumulateRemoteAssist, Repper, Own, Mirrors, Dirs
  <2>2. \A q \in Own(c, "out") : <<c, q.act.effect>> \in logged
    BY DEF Own
  <2>3. \A e : <<c, e>> \in logged => Own(c, "out") # {}
    BY DEF Own
  <2>. HIDE DEF logged, snapshot
  <2>4. CASE Own(c, "out") # {}
    <3>1. \A r \in Mirrors(c, "out") : <<c, r.act.effect>> \in logged
      BY <1>4, <2>2, <2>4, OwnOrMirrorsCount DEF Dirs
    <3>. QED  BY <2>1, <2>4, <3>1 DEF OwnOrMirrors, snapshot
  <2>5. CASE Own(c, "out") = {}
    BY <2>1, <2>3, <2>5 DEF OwnOrMirrors, snapshot
  <2>. QED  BY <2>4, <2>5
<1>. QED  BY <1>2, <1>3, <1>4 DEF Dirs

\* Of any logs, fights and histories: the repairs and transfers of a pilot whose
\* logs tell everything or nothing of them count once each in the pilot's timeline,
\* in the snapshot and in the composition, whatever was uploaded and deleted.
THEOREM AssistsAreCountedOnce == Spec => []AssistsCountOnce
<1>1. ASSUME ViewsInv PROVE AssistsCountOnce
  <2>. DEFINE once(R, S) == {r.act : r \in R} = S /\ Cardinality(R) = Cardinality(S)
              named(c, end) == {x \in hist.assists : x[end] = c /\ \E r \in Assists :
                                  r.act = x /\ (Owner[r.log] = c \/ r.other = c)}
              snapshot == AccumulateRemoteAssist(Assists)
  <2>1. ViewsTypeOK /\ IsFiniteSet(hist.assists)
    BY <1>1, HistoryType DEF ViewsInv
  <2>2. ASSUME NEW c \in Pilot, NEW d \in Dirs, Complete(c, d), NEW E
        PROVE  once({r \in OwnOrMirrors(c, d) : r.act.effect \in E},
                    {x \in Named(c, d) : x.effect \in E})
    <3>. DEFINE R == {r \in OwnOrMirrors(c, d) : r.act.effect \in E}
                S == {x \in Named(c, d) : x.effect \in E}
    <3>1. IsFiniteSet(S)
      <4>1. S \subseteq hist.assists
        BY DEF Named
      <4>. QED  BY <2>1, <4>1, FS_Subset
    <3>2. \A r \in R : r.act \in S
      BY <2>1, <2>2, OwnOrMirrorsCount
    <3>3. \A x \in S : \E r \in R : r.act = x
      BY <2>1, <2>2, OwnOrMirrorsCount
    <3>4. \A q, r \in R : q.act = r.act => q = r
      BY <2>1, <2>2, OwnOrMirrorsCount
    <3>. HIDE DEF R, S
    <3>5. {r.act : r \in R} = S /\ Cardinality(R) = Cardinality(S)
      BY <3>1, <3>2, <3>3, <3>4, OneEachCounts
    <3>. QED  BY <3>5 DEF R, S
  <2>3. ASSUME NEW c \in Pilot, NEW d \in Dirs, Complete(c, d)
        PROVE  once(OwnOrMirrors(c, d), Named(c, d))
    <3>. DEFINE E == {r.act.effect : r \in OwnOrMirrors(c, d)} \union {x.effect : x \in Named(c, d)}
    <3>1. /\ {r \in OwnOrMirrors(c, d) : r.act.effect \in E} = OwnOrMirrors(c, d)
          /\ {x \in Named(c, d) : x.effect \in E} = Named(c, d)
      OBVIOUS
    <3>2. once({r \in OwnOrMirrors(c, d) : r.act.effect \in E},
               {x \in Named(c, d) : x.effect \in E})
      <4>. HIDE DEF E, once
      <4>. QED  BY <2>2, <2>3
    <3>. HIDE DEF once, E
    <3>. QED  BY <3>1, <3>2
  <2>4. \A c \in Pilot : named(c, "by") = Named(c, "out") /\ named(c, "to") = Named(c, "in")
    <3>1. \A x \in hist.assists : x["by"] = x.by /\ x["to"] = x.to
      OBVIOUS
    <3>. QED  BY <3>1 DEF Named, End
  <2>. HIDE DEF once, named
  <2>5. ASSUME NEW c \in Pilot, AllOrNone(c, "by")
        PROVE  /\ once({r \in snapshot : Repper(r) = c}, named(c, "by"))
               /\ once(RemoteAssistSeries(c, "out"), named(c, "by"))
               /\ once(RepsAppliedByChar(c), {x \in named(c, "by") : x.effect \in Reps})
    <3>1. Complete(c, "out") /\ "out" \in Dirs
      BY <2>5, CompleteLogs DEF Dirs
    <3>2. once(OwnOrMirrors(c, "out"), Named(c, "out"))
          /\ once({r \in OwnOrMirrors(c, "out") : r.act.effect \in Reps},
                  {x \in Named(c, "out") : x.effect \in Reps})
      BY <2>2, <2>3, <3>1
    <3>. QED  BY <2>1, <2>4, <3>1, <3>2, ViewsAreOwnOrMirrors
  <2>6. ASSUME NEW c \in Pilot, AllOrNone(c, "to")
        PROVE  once(RemoteAssistSeries(c, "in"), named(c, "to"))
    <3>1. Complete(c, "in") /\ "in" \in Dirs
      BY <2>6, CompleteLogs DEF Dirs
    <3>2. once(OwnOrMirrors(c, "in"), Named(c, "in"))
      BY <2>3, <3>1
    <3>. QED  BY <2>1, <2>4, <3>1, <3>2, ViewsAreOwnOrMirrors
  <2>. QED  BY <2>5, <2>6 DEF AssistsCountOnce, once, named
<1>. QED  BY <1>1, ViewsSafety, PTL
=============================================================================
