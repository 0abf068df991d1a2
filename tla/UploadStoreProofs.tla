-------------------------- MODULE UploadStoreProofs --------------------------
(***************************************************************************)
(* Proofs about uploaded files, for any reports, logs, parsers, fights and *)
(* requests: that rows keep their files, that the dates recovered for a    *)
(* fleet-broadcast log are the true ones, and that one file per report     *)
(* speaks.                                                                 *)
(***************************************************************************)
EXTENDS UploadStore, FiniteSetTheorems, WellFoundedInduction, NaturalsInduction, TLAPS

(* Least and greatest.                                                     *)

LEMMA NatLess == OpToRel(<, Nat) = {ss \in Nat \X Nat : ss[1] < ss[2]}
BY DEF OpToRel

LEMMA LeastExists ==
    ASSUME NEW S, S \subseteq Nat, S # {}
    PROVE  \E n \in S : \A m \in S : n <= m
<1>. DEFINE Less == {ss \in Nat \X Nat : ss[1] < ss[2]}
<1>1. IsWellFoundedOn(Less, Nat)
  BY NatLessThanWellFounded, NatLess
<1>2. PICK n \in S : \A m \in S : <<m, n>> \notin Less
  <2>. HIDE DEF Less
  <2>. QED  BY <1>1, WFMin
<1>3. ASSUME NEW m \in S
      PROVE  n <= m
  <2>1. m \in Nat /\ n \in Nat
    OBVIOUS
  <2>2. m < n => <<m, n>> \in Less
    BY <2>1
  <2>. QED  BY <1>2, <2>1, <2>2
<1>. QED  BY <1>3

\* Of the values of f on a non-empty T there is a greatest.
LEMMA GreatestExists ==
    ASSUME NEW N \in Nat, NEW T \in SUBSET (1..N), T # {}, NEW f, \A i \in T : f[i] \in Int
    PROVE  \E m \in T : \A i \in T : f[i] <= f[m]
<1>. DEFINE Open(U) == U # {} /\ \A m \in U : \E i \in U : ~(f[i] <= f[m])
            Bad == {n \in Nat : \E U \in SUBSET T : U \subseteq 1..n /\ Open(U)}
<1>. SUFFICES ASSUME Open(T) PROVE FALSE
  OBVIOUS
<1>1. Bad # {} /\ Bad \subseteq Nat
  OBVIOUS
<1>2. PICK n \in Bad : \A m \in Bad : n <= m
  <2>. HIDE DEF Bad
  <2>. QED  BY <1>1, LeastExists
<1>3. PICK U \in SUBSET T : U \subseteq 1..n /\ Open(U)
  BY <1>2
<1>4. n \in Nat /\ n # 0 /\ n - 1 \in Nat
  <2>1. n \in Nat
    BY <1>1
  <2>2. 1..0 = {}
    OBVIOUS
  <2>3. n # 0
    BY <1>3, <2>2
  <2>. QED  BY <2>1, <2>3
<1>5. n - 1 \notin Bad
  <2>. HIDE DEF Bad
  <2>. QED  BY <1>2, <1>4
<1>6. U \ {n} \subseteq 1..(n - 1)
  BY <1>3, <1>4
<1>7. ~Open(U \ {n})
  BY <1>4, <1>5, <1>6
<1>8. CASE U \ {n} = {}
  <2>1. \A i \in U : i = n /\ f[i] <= f[n]
    BY <1>3, <1>8
  <2>. QED  BY <1>3, <2>1
<1>9. CASE U \ {n} # {}
  <2>1. PICK m \in U \ {n} : \A i \in U \ {n} : f[i] <= f[m]
    BY <1>7, <1>9
  <2>2. CASE n \in U /\ f[m] <= f[n]
    <3>1. \A i \in U : f[i] <= f[n]
      BY <2>1, <2>2
    <3>. QED  BY <1>3, <2>2, <3>1
  <2>3. CASE n \in U => ~(f[m] <= f[n])
    <3>1. \A i \in U : f[i] <= f[m]
      BY <2>1, <2>3
    <3>. QED  BY <1>3, <2>1, <3>1
  <2>. QED  BY <2>2, <2>3
<1>. QED  BY <1>8, <1>9

\* A non-empty finite set of integers has a maximum.
LEMMA MaxIsIn ==
    ASSUME NEW S, IsFiniteSet(S), S # {}, S \subseteq Int
    PROVE  Max(S) \in S /\ \A e \in S : e <= Max(S)
<1>1. PICK seq \in Seq(S) : \A e \in S : \E n \in 1..Len(seq) : seq[n] = e
  BY DEF IsFiniteSet
<1>2. Len(seq) \in Nat /\ \A n \in 1..Len(seq) : seq[n] \in S
  OBVIOUS
<1>3. \E m \in 1..Len(seq) : \A n \in 1..Len(seq) : seq[n] <= seq[m]
  <2>1. 1..Len(seq) # {}
    BY <1>1
  <2>2. \A n \in 1..Len(seq) : seq[n] \in Int
    BY <1>2
  <2>. QED  BY <1>2, <2>1, <2>2, GreatestExists
<1>4. \E m \in S : \A e \in S : m >= e
  BY <1>1, <1>2, <1>3
<1>. QED  BY <1>4 DEF Max

LEMMA SetOfSeq ==
    ASSUME NEW s \in Seq(Nat)
    PROVE  IsFiniteSet(ToSet(s)) /\ ToSet(s) \subseteq Nat
<1>1. ToSet(s) \subseteq Nat /\ \A k \in 1..Len(s) : s[k] \in ToSet(s)
  BY DEF ToSet
<1>2. \A t \in ToSet(s) : \E k \in 1..Len(s) : s[k] = t
  BY DEF ToSet
<1>. HIDE DEF ToSet
<1>3. s \in Seq(ToSet(s))
  BY <1>1
<1>. QED  BY <1>1, <1>2, <1>3 DEF IsFiniteSet

-----------------------------------------------------------------------------
(* Dates.                                                                  *)

LEMMA DivMod ==
    ASSUME NEW t \in Nat, NEW D \in Nat \ {0}
    PROVE  /\ t \div D \in Nat /\ t % D \in Nat /\ t % D < D
           /\ t = D * (t \div D) + (t % D)
OBVIOUS

LEMMA Multiple ==
    ASSUME NEW D \in Nat \ {0}, NEW k \in Int
    PROVE  /\ D * k \in Int
           /\ k >= 1 => D * k >= D
           /\ k >= 2 => D * k >= 2 * D
           /\ k <= -1 => D * k <= -D
<1>1. \A n \in Nat : D * n \in Nat
  OBVIOUS
<1>2. CASE k >= 1
  <2>1. k - 1 \in Nat /\ D * k = D * (k - 1) + D
    BY <1>2
  <2>2. k >= 2 => k - 2 \in Nat /\ D * k = D * (k - 2) + 2 * D
    BY <1>2
  <2>. QED  BY <1>1, <1>2, <2>1, <2>2
<1>3. CASE k <= 0
  <2>1. k <= -1 => -k - 1 \in Nat /\ D * k = -(D * (-k - 1)) - D
    BY <1>3
  <2>. QED  BY <1>1, <1>3, <2>1
<1>. QED  BY <1>2, <1>3

\* Less than a day apart, two instants are of one date or of two in a row, and
\* their times of day tell which.
LEMMA DatesInARow ==
    ASSUME NEW D \in Nat \ {0}, NEW a \in Nat, NEW b \in Nat, a <= b, b < a + D
    PROVE  b \div D - a \div D = IF a % D > b % D THEN 1 ELSE 0
<1>. DEFINE k == b \div D - a \div D
            ra == a % D
            rb == b % D
            qa == a \div D
            qb == b \div D
<1>1. /\ qa \in Nat /\ qb \in Nat /\ ra \in Nat /\ rb \in Nat /\ ra < D /\ rb < D
      /\ a = D * qa + ra /\ b = D * qb + rb
  BY DivMod
<1>2. k \in Int /\ k = qb - qa
  BY <1>1
<1>. HIDE DEF qa, qb, ra, rb, k
<1>3. D * qb - D * qa = D * k /\ D * k \in Int /\ D * qa \in Int /\ D * qb \in Int
  BY <1>1, <1>2
<1>4. D * k + rb - ra = b - a
  BY <1>1, <1>3
<1>5. D * k < 2 * D /\ D * k > -D
  BY <1>1, <1>3, <1>4
<1>6. k = 0 \/ k = 1
  BY <1>2, <1>5, Multiple
<1>7. CASE k = 0
  <2>1. ra <= rb
    BY <1>1, <1>3, <1>4, <1>7
  <2>. QED  BY <1>1, <1>7, <2>1 DEF k, ra, rb
<1>8. CASE k = 1
  <2>1. ra > rb
    BY <1>1, <1>3, <1>4, <1>8
  <2>. QED  BY <1>1, <1>8, <2>1 DEF k, ra, rb
<1>. QED  BY <1>6, <1>7, <1>8

\* The date chosen for a line is its date, if the reference is less than half a
\* day from it.
LEMMA AnchorIsTheDate ==
    ASSUME NEW l \in Nat, NEW e \in Nat, 2 * e < 2 * l + Day, 2 * l < 2 * e + Day
    PROVE  ChooseAnchorDate(TimeOfDay(l), e) = DateOf(l)
<1>. DEFINE q == DateOf(l)
            r == TimeOfDay(l)
            base == DateOf(e)
            Away(d) == Distance(d * Day + r, e)
            Around == DateOf(e) - 1 .. DateOf(e) + 1
            near == {d \in Around : \A o \in Around : Away(d) <= Away(o)}
<1>0. Day \in Nat \ {0}
  BY UploadAssumption
<1>1. /\ q \in Nat /\ r \in Nat /\ base \in Nat /\ r < Day
      /\ l = Day * q + r
  BY <1>0, DivMod DEF DateOf, TimeOfDay
<1>2. q \in Around
  <2>1. CASE e <= l
    <3>1. l < e + Day
      BY <1>0, <2>1
    <3>2. l \div Day - e \div Day = IF e % Day > l % Day THEN 1 ELSE 0
      BY <1>0, <2>1, <3>1, DatesInARow
    <3>. QED  BY <1>1, <3>2 DEF DateOf
  <2>2. CASE l <= e
    <3>1. e < l + Day
      BY <1>0, <2>2
    <3>2. e \div Day - l \div Day = IF l % Day > e % Day THEN 1 ELSE 0
      BY <1>0, <2>2, <3>1, DatesInARow
    <3>. QED  BY <1>1, <3>2 DEF DateOf
  <2>. QED  BY <2>1, <2>2
<1>. HIDE DEF q, r, base
<1>3. ASSUME NEW d \in Int
      PROVE  /\ d * Day + r = l + Day * (d - q) /\ Day * (d - q) \in Int
  BY <1>0, <1>1
<1>4. q * Day + r = l
  BY <1>0, <1>1
<1>5. ASSUME NEW d \in Int, d # q
      PROVE  Away(q) < Away(d) /\ Away(d) \in Int /\ Away(q) \in Int
  <2>1. Day * (d - q) >= Day \/ Day * (d - q) <= -Day
    <3>1. d - q >= 1 \/ d - q <= -1
      BY <1>1, <1>5
    <3>. QED  BY <1>0, <1>1, <3>1, Multiple
  <2>. DEFINE m == Day * (d - q)
  <2>2. d * Day + r = l + m /\ m \in Int /\ (m >= Day \/ m <= -Day)
    BY <1>3, <2>1
  <2>. HIDE DEF m
  <2>. QED  BY <1>0, <1>4, <2>2 DEF Distance
<1>6. near = {q}
  <2>1. q \in near
    <3>1. Away(q) \in Int
      BY <1>4 DEF Distance
    <3>2. \A o \in Around : Away(q) <= Away(o)
      <4>. HIDE DEF Away
      <4>1. \A o \in Around : o \in Int
        BY <1>1 DEF base
      <4>. QED  BY <1>5, <3>1, <4>1
    <3>. QED  BY <1>2, <3>2
  <2>2. ASSUME NEW d \in near, d # q
        PROVE  FALSE
    <3>1. d \in Int
      BY <1>1 DEF base
    <3>2. Away(d) <= Away(q)
      BY <1>2
    <3>. HIDE DEF Away, near
    <3>. QED  BY <1>5, <2>2, <3>1, <3>2
  <2>. QED  BY <2>1, <2>2
<1>7. Min({q}) = q
  BY <1>1 DEF Min
<1>8. ChooseAnchorDate(r, e) = Min(near)
  BY DEF ChooseAnchorDate
<1>. QED  BY <1>6, <1>7, <1>8 DEF q, r

\* A log dated from the date of its newest line has its true instants.
LEMMA LogIsDatedRight ==
    ASSUME NEW lines \in Seq(Nat), lines # <<>>,
           \A k \in 2..Len(lines) :
             lines[k] <= lines[k - 1] /\ lines[k - 1] < lines[k] + Day
    PROVE  ReconstructDates(TimesOfDay(lines), DateOf(lines[1])) = lines
<1>. DEFINE tods == TimesOfDay(lines)
            N == Len(lines)
            anchor == DateOf(lines[1])
            crossed(k) == {j \in 2..k : tods[j] > tods[j - 1]}
            Right(k) == IsFiniteSet(crossed(k)) /\ Cardinality(crossed(k)) = anchor - DateOf(lines[k])
<1>0. Day \in Nat \ {0}
  BY UploadAssumption
<1>1. N \in Nat /\ N >= 1 /\ DOMAIN lines = 1..N /\ \A k \in 1..N : lines[k] \in Nat
  OBVIOUS
<1>2. DOMAIN tods = 1..N /\ \A k \in 1..N : tods[k] = lines[k] % Day
  BY <1>1 DEF TimesOfDay, TimeOfDay
<1>3. \A k \in 1..N :
        /\ DateOf(lines[k]) \in Nat /\ tods[k] \in Nat
        /\ lines[k] = Day * DateOf(lines[k]) + tods[k]
  <2>. SUFFICES ASSUME NEW k \in 1..N
                PROVE  /\ DateOf(lines[k]) \in Nat /\ tods[k] \in Nat
                       /\ lines[k] = Day * DateOf(lines[k]) + tods[k]
    OBVIOUS
  <2>1. lines[k] \in Nat /\ tods[k] = lines[k] % Day
    BY <1>1, <1>2
  <2>. HIDE DEF tods
  <2>. QED  BY <1>0, <2>1, DivMod DEF DateOf
<1>4. \A k \in 2..N :
        DateOf(lines[k - 1]) - DateOf(lines[k]) = IF tods[k] > tods[k - 1] THEN 1 ELSE 0
  <2>. SUFFICES ASSUME NEW k \in 2..N
                PROVE  DateOf(lines[k - 1]) - DateOf(lines[k])
                         = IF tods[k] > tods[k - 1] THEN 1 ELSE 0
    OBVIOUS
  <2>1. k \in 1..N /\ k - 1 \in 1..N
    BY <1>1
  <2>2. lines[k] \in Nat /\ lines[k - 1] \in Nat
    BY <1>1, <2>1
  <2>3. lines[k - 1] \div Day - lines[k] \div Day
          = IF lines[k] % Day > lines[k - 1] % Day THEN 1 ELSE 0
    BY <1>0, <2>2, DatesInARow
  <2>. QED  BY <1>2, <2>1, <2>3 DEF DateOf
<1>. HIDE DEF tods, N, anchor
<1>5. Right(1)
  <2>1. crossed(1) = {}
    OBVIOUS
  <2>. QED  BY <1>1, <1>3, <2>1, FS_EmptySet DEF anchor
<1>6. ASSUME NEW k \in 2..N, Right(k - 1)
      PROVE  Right(k)
  <2>. DEFINE C == crossed(k - 1)
  <2>1. crossed(k) = IF tods[k] > tods[k - 1] THEN C \union {k} ELSE C
    BY <1>1
  <2>2. k \notin C /\ IsFiniteSet(C) /\ Cardinality(C) = anchor - DateOf(lines[k - 1])
    BY <1>6
  <2>3. k \in 1..N /\ k - 1 \in 1..N
    BY <1>1
  <2>4. /\ DateOf(lines[k]) \in Nat /\ DateOf(lines[k - 1]) \in Nat /\ anchor \in Nat
    BY <1>1, <1>3, <2>3 DEF anchor
  <2>. HIDE DEF C, crossed
  <2>5. CASE tods[k] > tods[k - 1]
    <3>1. IsFiniteSet(crossed(k)) /\ Cardinality(crossed(k)) = Cardinality(C) + 1
      BY <2>1, <2>2, <2>5, FS_AddElement
    <3>. QED  BY <1>4, <2>2, <2>4, <2>5, <3>1
  <2>6. CASE ~(tods[k] > tods[k - 1])
    BY <1>4, <2>1, <2>2, <2>4, <2>6
  <2>. QED  BY <2>5, <2>6
<1>. HIDE DEF Right
<1>7. ASSUME NEW k \in 1..N
      PROVE  Right(k)
  <2>. DEFINE Bad == {n \in 1..N : ~Right(n)}
  <2>. SUFFICES ASSUME Bad # {} PROVE FALSE
    OBVIOUS
  <2>1. Bad \subseteq Nat
    BY <1>1
  <2>2. PICK n \in Bad : \A m \in Bad : n <= m
    <3>. HIDE DEF Bad
    <3>. QED  BY <2>1, LeastExists
  <2>3. n \in 2..N /\ n - 1 \in 1..N
    BY <1>1, <1>5
  <2>4. Right(n - 1)
    BY <2>2, <2>3
  <2>. QED  BY <1>6, <2>3, <2>4
<1>8. ASSUME NEW k \in 1..N
      PROVE  (anchor - Cardinality(crossed(k))) * Day + tods[k] = lines[k]
  <2>1. Cardinality(crossed(k)) = anchor - DateOf(lines[k])
    BY <1>7 DEF Right
  <2>2. anchor \in Nat /\ DateOf(lines[k]) \in Nat
    BY <1>1, <1>3 DEF anchor
  <2>3. anchor - Cardinality(crossed(k)) = DateOf(lines[k])
    BY <2>1, <2>2
  <2>. QED  BY <1>0, <1>3, <2>2, <2>3
<1>9. ReconstructDates(tods, anchor)
        = [k \in DOMAIN tods |-> (anchor - Cardinality(crossed(k))) * Day + tods[k]]
  BY DEF ReconstructDates
<1>10. ReconstructDates(tods, anchor) = [k \in 1..N |-> lines[k]]
  <2>. HIDE DEF crossed
  <2>. QED  BY <1>2, <1>8, <1>9
<1>11. lines = [k \in 1..N |-> lines[k]]
  BY <1>1
<1>. QED  BY <1>10, <1>11 DEF tods, anchor

-----------------------------------------------------------------------------
(* The invariant.                                                          *)

FileFields == {"br", "content", "anchor", "ts", "fight", "superseded"}

\* The date a is the one of the newest line of log c, whichever parser finds it.
IsDateOf(a, c) ==
    /\ a = NoDate => \E p \in {1, 2} : LinesOf[p][c] = <<>>
    /\ a # NoDate =>
         /\ a \in Nat
         /\ \A p \in {1, 2} : LinesOf[p][c] # <<>> => a = DateOf(LinesOf[p][c][1])

RowOK(row) ==
    /\ DOMAIN row = FileFields
    /\ row.br \in BR /\ row.content \in BLOG /\ IsDateOf(row.anchor, row.content)
    /\ \E p \in {1, 2} : row.ts = Parse(row.content, p)

FilesOK ==
    /\ bfile = [i \in DOMAIN bfile |-> bfile[i]] /\ DOMAIN bfile \subseteq 1..MaxFiles
    /\ \A i \in DOMAIN bfile : RowOK(bfile[i])

\* The flags are those that supersession would set.
FlagsOK(rows) ==
    \A i \in DOMAIN rows : rows[i].superseded = (i \in Superseded(rows, rows[i].br))

\* An upload has its file, unless that was taken away.
RequestOK(q) ==
    /\ q.op \in {"log", "unlinkLog"} => q.content \in GLOG
    /\ q.op = "unlinkAll" => q.paths \subseteq BLOG
    /\ q.op = "broadcast" =>
         /\ q.br \in BR /\ q.content \in BLOG /\ IsDateOf(q.anchor, q.content)
         /\ \E p \in {1, 2} : q.lines = Parse(q.content, p)
    /\ q.op \in {"log", "broadcast"} => q.content \in disk \union excused

RequestsOK == req = [r \in REQ |-> req[r]] /\ \A r \in REQ : RequestOK(req[r])

RestOK ==
    /\ report \subseteq BR /\ fights \in [BR -> FightSets \union {{}}]
    /\ parser \in {1, 2} /\ glog \subseteq GLOG

UploadInv ==
    RestOK /\ FilesOK /\ FlagsOK(bfile) /\ RequestsOK /\ RowsKeepTheirFiles

-----------------------------------------------------------------------------
(* What the operators keep.                                                *)

\* A log dated anew is one that a parser finds, with its true instants.
LEMMA DatedIsTrue ==
    ASSUME NEW c \in BLOG, NEW p \in {1, 2}, NEW a, IsDateOf(a, c)
    PROVE  \E q \in {1, 2} : Dated(Parse(c, p), a) = Parse(c, q)
<1>. DEFINE lines == LinesOf[p][c]
<1>0. lines \in Seq(Nat) /\ LinesOf \in [{1, 2} -> [BLOG -> Seq(Nat)]]
  BY UploadAssumption
<1>1. CASE a = NoDate
  BY <1>1 DEF IsDateOf, Dated, Parse
<1>2. CASE a # NoDate /\ lines # <<>>
  <2>1. a = DateOf(lines[1])
    BY <1>2 DEF IsDateOf
  <2>2. \A k \in 2..Len(lines) : lines[k] <= lines[k - 1] /\ lines[k - 1] < lines[k] + Day
    BY <1>2, UploadAssumption
  <2>. HIDE DEF lines
  <2>3. ReconstructDates(TimesOfDay(lines), a) = lines
    BY <1>0, <1>2, <2>1, <2>2, LogIsDatedRight
  <2>. QED  BY <1>2, <2>3 DEF Dated, Parse, lines
<1>3. CASE a # NoDate /\ lines = <<>>
  <2>1. DOMAIN lines = {} /\ DOMAIN TimesOfDay(lines) = {}
    BY <1>3 DEF TimesOfDay
  <2>2. ReconstructDates(TimesOfDay(lines), a) = [k \in {} |-> {}]
    BY <2>1 DEF ReconstructDates
  <2>3. lines = [k \in {} |-> {}]
    BY <1>3
  <2>. QED  BY <1>3, <2>2, <2>3 DEF Dated, Parse
<1>. QED  BY <1>1, <1>2, <1>3

\* Supersession looks at the reports of one file and their broadcasts only.
LEMMA SupersededOfSame ==
    ASSUME NEW rows1, NEW rows2, NEW b,
           \A i : (i \in DOMAIN rows1 /\ rows1[i].br = b) <=> (i \in DOMAIN rows2 /\ rows2[i].br = b),
           \A i \in DOMAIN rows1 : rows1[i].br = b => rows1[i].ts = rows2[i].ts
    PROVE  Superseded(rows1, b) = Superseded(rows2, b)
<1>. DEFINE mine == {i \in DOMAIN rows1 : rows1[i].br = b}
<1>1. mine = {i \in DOMAIN rows2 : rows2[i].br = b}
  OBVIOUS
<1>2. ASSUME NEW i \in mine, NEW j \in mine
      PROVE  Beats(rows1, i, j) = Beats(rows2, i, j)
  <2>1. rows1[i].ts = rows2[i].ts /\ rows1[j].ts = rows2[j].ts
    OBVIOUS
  <2>. QED  BY <2>1 DEF Beats, LastEnd
<1>3. /\ Superseded(rows1, b) = {i \in mine : \E j \in mine : Beats(rows1, j, i)}
      /\ Superseded(rows2, b) = {i \in mine : \E j \in mine : Beats(rows2, j, i)}
  BY <1>1 DEF Superseded
<1>. HIDE DEF mine
<1>. QED  BY <1>2, <1>3

\* Settling changes stamps and flags.
LEMMA SettleKeeps ==
    ASSUME NEW rows, NEW b, NEW order, \A i \in DOMAIN rows : DOMAIN rows[i] = FileFields
    PROVE  LET s == Settle(rows, b, order) IN
           /\ DOMAIN s = DOMAIN rows /\ s = [i \in DOMAIN s |-> s[i]]
           /\ \A i \in DOMAIN s :
                /\ DOMAIN s[i] = FileFields
                /\ s[i].br = rows[i].br /\ s[i].content = rows[i].content
                /\ s[i].anchor = rows[i].anchor /\ s[i].ts = rows[i].ts
                /\ s[i].superseded = IF rows[i].br = b THEN i \in Superseded(rows, b)
                                                       ELSE rows[i].superseded
<1>. DEFINE mid == ApplySupersession(rows, b)
            s == Settle(rows, b, order)
<1>1. /\ DOMAIN mid = DOMAIN rows
      /\ \A i \in DOMAIN rows :
           /\ DOMAIN mid[i] = FileFields
           /\ mid[i].br = rows[i].br /\ mid[i].content = rows[i].content
           /\ mid[i].anchor = rows[i].anchor /\ mid[i].ts = rows[i].ts
           /\ mid[i].superseded = IF rows[i].br = b THEN i \in Superseded(rows, b)
                                                    ELSE rows[i].superseded
  BY DEF ApplySupersession, FileFields
<1>. HIDE DEF mid
<1>2. s = Associate(mid, b, order)
  BY DEF Settle, mid
<1>3. /\ DOMAIN s = DOMAIN mid /\ s = [i \in DOMAIN s |-> s[i]]
      /\ \A i \in DOMAIN mid :
           s[i] = IF mid[i].br = b
                    THEN [mid[i] EXCEPT !.fight =
                            [k \in DOMAIN mid[i].ts |-> StampOf(order, mid[i].ts[k])]]
                    ELSE mid[i]
  BY <1>2 DEF Associate
<1>. HIDE DEF s
<1>4. ASSUME NEW i \in DOMAIN mid
      PROVE  /\ DOMAIN s[i] = DOMAIN mid[i]
             /\ s[i].br = mid[i].br /\ s[i].content = mid[i].content
             /\ s[i].anchor = mid[i].anchor /\ s[i].ts = mid[i].ts
             /\ s[i].superseded = mid[i].superseded
  <2>. DEFINE stamps == [k \in DOMAIN mid[i].ts |-> StampOf(order, mid[i].ts[k])]
  <2>1. DOMAIN mid[i] = FileFields
    BY <1>1
  <2>2. s[i] = [mid[i] EXCEPT !.fight = stamps] \/ s[i] = mid[i]
    BY <1>3
  <2>. HIDE DEF stamps
  <2>. QED  BY <2>1, <2>2 DEF FileFields
<1>. QED  BY <1>1, <1>3, <1>4 DEF s

\* Once the files of b are settled, its flags are right.
LEMMA SettledFlags ==
    ASSUME NEW rows, NEW b, NEW order, \A i \in DOMAIN rows : DOMAIN rows[i] = FileFields,
           \A i \in DOMAIN rows :
             rows[i].br # b => rows[i].superseded = (i \in Superseded(rows, rows[i].br))
    PROVE  FlagsOK(Settle(rows, b, order))
<1>. DEFINE s == Settle(rows, b, order)
<1>1. /\ DOMAIN s = DOMAIN rows
      /\ \A i \in DOMAIN s :
           /\ s[i].br = rows[i].br /\ s[i].ts = rows[i].ts
           /\ s[i].superseded = IF rows[i].br = b THEN i \in Superseded(rows, b)
                                                  ELSE rows[i].superseded
  BY SettleKeeps
<1>. HIDE DEF s
<1>2. \A x : Superseded(s, x) = Superseded(rows, x)
  BY <1>1, SupersededOfSame
<1>3. FlagsOK(s)
  BY <1>1, <1>2 DEF FlagsOK
<1>. QED  BY <1>3 DEF s

-----------------------------------------------------------------------------
(* Files and requests.                                                     *)

LEMMA UploadInvInit == Init => UploadInv
<1>. SUFFICES ASSUME Init PROVE UploadInv
  OBVIOUS
<1>1. RestOK
  BY DEF Init, RestOK
<1>2. FilesOK /\ FlagsOK(bfile) /\ RowsKeepTheirFiles
  BY DEF Init, NoFile, FilesOK, FlagsOK, RowsKeepTheirFiles, PointingAt
<1>3. RequestsOK
  BY DEF Init, RequestsOK, RequestOK, Idle
<1>. QED  BY <1>1, <1>2, <1>3 DEF UploadInv

\* A file goes only while nothing refers to it and no upload of it is under way,
\* or is counted among the excused.
OnlyUnusedGo ==
    \A c \in disk \union excused :
      \/ c \in disk' \union excused'
      \/ ~Uploading(c) /\ c \notin glog' /\ \A i \in DOMAIN bfile' : bfile'[i].content # c

\* A row is there from before, or comes of an upload.
RowsAreUploads ==
    /\ \A c \in glog' : c \in glog \/ Uploading(c)
    /\ \A i \in DOMAIN bfile' :
         LET c == bfile'[i].content IN
         Uploading(c) \/ \E j \in DOMAIN bfile : bfile[j].content = c

LEMMA FilesKept ==
    ASSUME UploadInv, RestOK', FilesOK', OnlyUnusedGo, RowsAreUploads
    PROVE  RowsKeepTheirFiles'
<1>. SUFFICES ASSUME NEW c \in GLOG \union BLOG,
                     c \in glog' \/ \E i \in DOMAIN bfile' : bfile'[i].content = c
              PROVE  c \in disk' \union excused'
  BY DEF RowsKeepTheirFiles, PointingAt
<1>1. Uploading(c) => c \in disk \union excused
  BY DEF UploadInv, RequestsOK, RequestOK, Uploading
<1>2. Uploading(c) \/ c \in glog \/ \E j \in DOMAIN bfile : bfile[j].content = c
  BY DEF RowsAreUploads
<1>3. c \in disk \union excused
  BY <1>1, <1>2 DEF UploadInv, RowsKeepTheirFiles, PointingAt
<1>. QED  BY <1>3 DEF OnlyUnusedGo

\* One request goes on.
LEMMA RequestsKept ==
    ASSUME UploadInv, OnlyUnusedGo, NEW r \in REQ, NEW s, req' = [req EXCEPT ![r] = s],
           RequestOK(s)'
    PROVE  RequestsOK'
<1>1. req'[r] = s /\ req' = [q \in REQ |-> req'[q]]
  BY DEF UploadInv, RequestsOK
<1>2. ASSUME NEW q \in REQ, q # r
      PROVE  RequestOK(req[q])'
  <2>1. req'[q] = req[q] /\ RequestOK(req[q])
    BY <1>2 DEF UploadInv, RequestsOK
  <2>2. req[q].op \in {"log", "broadcast"} => req[q].content \in disk' \union excused'
    BY <2>1 DEF RequestOK, OnlyUnusedGo, Uploading
  <2>. QED  BY <2>1, <2>2 DEF RequestOK
<1>3. RequestOK(req[r])'
  BY <1>1 DEF RequestOK
<1>. QED  BY <1>1, <1>2, <1>3 DEF RequestsOK

\* No request goes on.
LEMMA RequestsStay ==
    ASSUME UploadInv, OnlyUnusedGo, req' = req
    PROVE  RequestsOK'
<1>1. ASSUME NEW q \in REQ
      PROVE  RequestOK(req[q])'
  <2>1. RequestOK(req[q])
    BY DEF UploadInv, RequestsOK
  <2>2. req[q].op \in {"log", "broadcast"} => req[q].content \in disk' \union excused'
    BY <2>1 DEF RequestOK, OnlyUnusedGo, Uploading
  <2>. QED  BY <2>1, <2>2 DEF RequestOK
<1>. QED  BY <1>1 DEF UploadInv, RequestsOK

LEMMA AllIdle ==
    ASSUME req' = [r \in REQ |-> Idle]
    PROVE  RequestsOK'
BY DEF RequestsOK, RequestOK, Idle

\* Files that no row of the report's refers to may be unlinked.
LEMMA UnlinkOK ==
    ASSUME UploadInv, NEW C, C \subseteq BLOG, Unlink(C), glog' = glog,
           \A i \in DOMAIN bfile' : bfile'[i].content \notin C
    PROVE  OnlyUnusedGo
BY UploadAssumption DEF Unlink, OnlyUnusedGo, UploadInv, RestOK

-----------------------------------------------------------------------------
(* Gamelogs.                                                               *)

LEMMA UploadLogStoreInv ==
    ASSUME UploadInv, NEW r \in REQ, NEW c \in GLOG, UploadLogStore(r, c)
    PROVE  UploadInv'
<1>1. PICK s : s = [op |-> "log", content |-> c]
  OBVIOUS
<1>2. /\ disk' = disk \union {c} /\ excused' = excused \ {c}
      /\ req' = [req EXCEPT ![r] = s]
      /\ UNCHANGED <<report, fights, glog, bfile, parser>>
  BY <1>1 DEF UploadLogStore, Become
<1>3. RestOK' /\ FilesOK' /\ FlagsOK(bfile)'
  BY <1>2 DEF UploadInv, RestOK, FilesOK, FlagsOK
<1>4. OnlyUnusedGo /\ RowsAreUploads
  BY <1>2 DEF OnlyUnusedGo, RowsAreUploads
<1>5. RequestOK(s)'
  BY <1>1, <1>2 DEF RequestOK
<1>. QED  BY <1>2, <1>3, <1>4, <1>5, FilesKept, RequestsKept DEF UploadInv

LEMMA UploadLogCommitInv ==
    ASSUME UploadInv, NEW r \in REQ, UploadLogCommit(r)
    PROVE  UploadInv'
<1>1. PICK c : c = req[r].content
  OBVIOUS
<1>2. /\ req[r].op = "log" /\ glog' = glog \union {c}
      /\ req' = [req EXCEPT ![r] = Idle]
      /\ UNCHANGED <<report, fights, disk, bfile, parser, excused>>
  BY <1>1 DEF UploadLogCommit, Become
<1>3. c \in GLOG
  BY <1>1, <1>2 DEF UploadInv, RequestsOK, RequestOK
<1>4. RestOK' /\ FilesOK' /\ FlagsOK(bfile)'
  BY <1>2, <1>3 DEF UploadInv, RestOK, FilesOK, FlagsOK
<1>5. OnlyUnusedGo /\ RowsAreUploads
  BY <1>1, <1>2 DEF OnlyUnusedGo, RowsAreUploads, Uploading
<1>6. RequestOK(Idle)'
  BY DEF RequestOK, Idle
<1>. QED  BY <1>2, <1>4, <1>5, <1>6, FilesKept, RequestsKept DEF UploadInv

LEMMA DeleteLogCommitInv ==
    ASSUME UploadInv, NEW r \in REQ, NEW c \in GLOG, DeleteLogCommit(r, c)
    PROVE  UploadInv'
<1>1. PICK s : s = [op |-> "unlinkLog", content |-> c]
  OBVIOUS
<1>2. /\ glog' = glog \ {c}
      /\ req' = [req EXCEPT ![r] = s]
      /\ UNCHANGED <<report, fights, disk, bfile, parser, excused>>
  BY <1>1 DEF DeleteLogCommit, Become
<1>3. RestOK' /\ FilesOK' /\ FlagsOK(bfile)'
  BY <1>2 DEF UploadInv, RestOK, FilesOK, FlagsOK
<1>4. OnlyUnusedGo /\ RowsAreUploads
  BY <1>2 DEF OnlyUnusedGo, RowsAreUploads
<1>5. RequestOK(s)'
  BY <1>1 DEF RequestOK
<1>. QED  BY <1>2, <1>3, <1>4, <1>5, FilesKept, RequestsKept DEF UploadInv

LEMMA DeleteLogUnlinkInv ==
    ASSUME UploadInv, NEW r \in REQ, DeleteLogUnlink(r)
    PROVE  UploadInv'
<1>1. PICK c : c = req[r].content
  OBVIOUS
<1>2. /\ req[r].op = "unlinkLog" /\ disk' = disk \ {c}
      /\ excused' = IF Uploading(c) \/ c \in glog THEN excused \union {c} ELSE excused
      /\ req' = [req EXCEPT ![r] = Idle]
      /\ UNCHANGED <<report, fights, glog, bfile, parser>>
  BY <1>1 DEF DeleteLogUnlink, Become
<1>3. c \in GLOG
  BY <1>1, <1>2 DEF UploadInv, RequestsOK, RequestOK
<1>4. RestOK' /\ FilesOK' /\ FlagsOK(bfile)'
  BY <1>2 DEF UploadInv, RestOK, FilesOK, FlagsOK
<1>5. \A i \in DOMAIN bfile : bfile[i].content # c
  BY <1>3, UploadAssumption DEF UploadInv, FilesOK, RowOK
<1>6. OnlyUnusedGo
  BY <1>2, <1>5 DEF OnlyUnusedGo
<1>7. RowsAreUploads
  BY <1>2 DEF RowsAreUploads
<1>8. RequestOK(Idle)'
  BY DEF RequestOK, Idle
<1>. QED  BY <1>2, <1>4, <1>6, <1>7, <1>8, FilesKept, RequestsKept DEF UploadInv

-----------------------------------------------------------------------------
(* Fleet broadcasts.                                                       *)

LEMMA ReferenceIsAnEnd ==
    ASSUME UploadInv, NEW b \in BR
    PROVE  ReferenceEnd(b) \in Ends /\ ReferenceEnd(b) \in Nat
<1>1. CASE fights[b] = {}
  BY <1>1, UploadAssumption DEF ReferenceEnd, Ends
<1>2. CASE fights[b] # {}
  <2>. DEFINE S == {f.end : f \in fights[b]}
  <2>1. fights[b] \in FightSets
    BY <1>2 DEF UploadInv, RestOK
  <2>2. S # {} /\ S \subseteq Nat /\ S \subseteq Int /\ S \subseteq Ends
    BY <1>2, <2>1, UploadAssumption DEF Ends
  <2>3. IsFiniteSet(S)
    <3>1. PICK fs \in Seq(fights[b]) : \A f \in fights[b] : \E n \in 1..Len(fs) : fs[n] = f
      BY <2>1, UploadAssumption DEF IsFiniteSet
    <3>. DEFINE es == [n \in 1..Len(fs) |-> fs[n].end]
    <3>2. es \in Seq(S) /\ Len(es) = Len(fs)
      OBVIOUS
    <3>3. \A e \in S : \E n \in 1..Len(es) : es[n] = e
      BY <3>1, <3>2
    <3>. QED  BY <3>2, <3>3 DEF IsFiniteSet
  <2>. HIDE DEF S
  <2>4. Max(S) \in S
    BY <2>2, <2>3, MaxIsIn
  <2>5. ReferenceEnd(b) = Max(S)
    BY <1>2 DEF ReferenceEnd, S
  <2>. QED  BY <2>2, <2>4, <2>5
<1>. QED  BY <1>1, <1>2

LEMMA UploadBroadcastStoreInv ==
    ASSUME UploadInv, NEW r \in REQ, NEW b \in BR, NEW c \in BLOG, UploadBroadcastStore(r, b, c)
    PROVE  UploadInv'
<1>. DEFINE lines == Parse(c, parser)
<1>1. PICK s : s = [op |-> "broadcast", br |-> b, content |-> c, lines |-> lines,
                    anchor |-> IF lines = <<>> THEN NoDate
                               ELSE ChooseAnchorDate(TimeOfDay(lines[1]), ReferenceEnd(b))]
  OBVIOUS
<1>2. /\ disk' = disk \union {c} /\ excused' = excused \ {c} /\ ReferenceEnd(b) # 0
      /\ req' = [req EXCEPT ![r] = s]
      /\ UNCHANGED <<report, fights, glog, bfile, parser>>
  BY <1>1 DEF UploadBroadcastStore, Become
<1>3. RestOK' /\ FilesOK' /\ FlagsOK(bfile)'
  BY <1>2 DEF UploadInv, RestOK, FilesOK, FlagsOK
<1>4. OnlyUnusedGo /\ RowsAreUploads
  BY <1>2 DEF OnlyUnusedGo, RowsAreUploads
<1>5. parser \in {1, 2} /\ lines = LinesOf[parser][c] /\ lines \in Seq(Nat)
  BY UploadAssumption DEF UploadInv, RestOK, Parse
<1>6. IsDateOf(s.anchor, c)
  <2>1. CASE lines = <<>>
    BY <1>1, <1>5, <2>1 DEF IsDateOf
  <2>2. CASE lines # <<>>
    <3>1. lines[1] \in Nat /\ ReferenceEnd(b) \in Nat /\ ReferenceEnd(b) \in Ends \ {0}
      BY <1>2, <1>5, <2>2, ReferenceIsAnEnd
    <3>2. /\ 2 * ReferenceEnd(b) < 2 * lines[1] + Day
          /\ 2 * lines[1] < 2 * ReferenceEnd(b) + Day
      BY <1>5, <2>2, <3>1, UploadAssumption
    <3>. HIDE DEF lines
    <3>3. s.anchor = DateOf(lines[1])
      BY <1>1, <2>2, <3>1, <3>2, AnchorIsTheDate
    <3>4. DateOf(lines[1]) \in Nat
      BY <3>1, DivMod, UploadAssumption DEF DateOf
    <3>5. \A p \in {1, 2} : LinesOf[p][c] # <<>> => LinesOf[p][c][1] \div Day = lines[1] \div Day
      BY <1>5, <2>2, UploadAssumption
    <3>. QED  BY <3>3, <3>4, <3>5 DEF IsDateOf, DateOf, NoDate
  <2>. QED  BY <2>1, <2>2
<1>7. RequestOK(s)'
  <2>1. \E p \in {1, 2} : s.lines = Parse(c, p)
    BY <1>1, <1>5
  <2>2. s.op = "broadcast" /\ s.br = b /\ s.content = c
    BY <1>1
  <2>. QED  BY <1>2, <1>6, <2>1, <2>2 DEF RequestOK
<1>. QED  BY <1>2, <1>3, <1>4, <1>7, FilesKept, RequestsKept DEF UploadInv

LEMMA UploadBroadcastFailsInv ==
    ASSUME UploadInv, NEW r \in REQ, UploadBroadcastFails(r)
    PROVE  UploadInv'
<1>1. /\ req' = [req EXCEPT ![r] = Idle]
      /\ UNCHANGED <<report, fights, disk, glog, bfile, parser, excused>>
  BY DEF UploadBroadcastFails, Become
<1>2. RestOK' /\ FilesOK' /\ FlagsOK(bfile)'
  BY <1>1 DEF UploadInv, RestOK, FilesOK, FlagsOK
<1>3. OnlyUnusedGo /\ RowsAreUploads
  BY <1>1 DEF OnlyUnusedGo, RowsAreUploads, UploadInv, RowsKeepTheirFiles
<1>4. RequestOK(Idle)'
  BY DEF RequestOK, Idle
<1>. QED  BY <1>1, <1>2, <1>3, <1>4, FilesKept, RequestsKept DEF UploadInv

LEMMA UploadBroadcastCommitInv ==
    ASSUME UploadInv, NEW r \in REQ, UploadBroadcastCommit(r)
    PROVE  UploadInv'
<1>1. PICK q : q = req[r]
  OBVIOUS
<1>. DEFINE ts == Dated(q.lines, q.anchor)
<1>2. PICK row : row = [br |-> q.br, content |-> q.content, anchor |-> q.anchor, ts |-> ts,
                        fight |-> [k \in DOMAIN ts |-> 0], superseded |-> FALSE]
  OBVIOUS
<1>3. PICK id \in NewIds, order \in Orders(q.br) : bfile' = Settle(With(id, row), q.br, order)
  BY <1>1, <1>2 DEF UploadBroadcastCommit
<1>4. /\ q.op = "broadcast" /\ req' = [req EXCEPT ![r] = Idle]
      /\ UNCHANGED <<report, fights, disk, glog, parser, excused>>
  BY <1>1 DEF UploadBroadcastCommit, Become
<1>5. RequestOK(q)
  BY <1>1 DEF UploadInv, RequestsOK, RequestOK
<1>6. /\ q.br \in BR /\ q.content \in BLOG /\ IsDateOf(q.anchor, q.content)
      /\ \E p \in {1, 2} : q.lines = Parse(q.content, p)
  BY <1>4, <1>5 DEF RequestOK
<1>7. RowOK(row)
  <2>1. \E p \in {1, 2} : ts = Parse(q.content, p)
    BY <1>6, DatedIsTrue
  <2>. HIDE DEF ts
  <2>2. DOMAIN row = FileFields /\ row.br = q.br /\ row.content = q.content
        /\ row.anchor = q.anchor /\ row.ts = ts
    BY <1>2 DEF FileFields
  <2>. QED  BY <1>6, <2>1, <2>2 DEF RowOK
<1>. DEFINE rows == With(id, row)
<1>8. id \in 1..MaxFiles /\ id \notin DOMAIN bfile
  BY <1>3, UploadAssumption DEF NewIds, UploadInv, FilesOK
<1>9. /\ DOMAIN rows = DOMAIN bfile \union {id} /\ rows[id] = row
      /\ \A i \in DOMAIN bfile : rows[i] = bfile[i]
  BY <1>8 DEF With
<1>. HIDE DEF rows, ts
<1>10. /\ \A i \in DOMAIN rows : RowOK(rows[i])
       /\ \A i \in DOMAIN rows : DOMAIN rows[i] = FileFields
  BY <1>7, <1>9 DEF UploadInv, FilesOK, RowOK
<1>11. /\ DOMAIN bfile' = DOMAIN rows /\ bfile' = [i \in DOMAIN bfile' |-> bfile'[i]]
       /\ \A i \in DOMAIN bfile' :
            /\ DOMAIN bfile'[i] = FileFields
            /\ bfile'[i].br = rows[i].br /\ bfile'[i].content = rows[i].content
            /\ bfile'[i].anchor = rows[i].anchor /\ bfile'[i].ts = rows[i].ts
  BY <1>3, <1>10, SettleKeeps DEF rows
<1>12. FilesOK'
  <2>1. \A i \in DOMAIN bfile' : RowOK(bfile'[i])
    BY <1>10, <1>11 DEF RowOK
  <2>2. DOMAIN bfile' \subseteq 1..MaxFiles
    BY <1>8, <1>9, <1>11 DEF UploadInv, FilesOK
  <2>. QED  BY <1>11, <2>1, <2>2 DEF FilesOK, RowOK
<1>13. FlagsOK(bfile)'
  <2>1. ASSUME NEW i \in DOMAIN rows, rows[i].br # q.br
        PROVE  rows[i].superseded = (i \in Superseded(rows, rows[i].br))
    <3>1. row.br = q.br
      BY <1>2
    <3>2. i \in DOMAIN bfile /\ rows[i] = bfile[i]
      BY <1>9, <2>1, <3>1
    <3>3. Superseded(rows, rows[i].br) = Superseded(bfile, rows[i].br)
      BY <1>9, <2>1, <3>1, SupersededOfSame
    <3>. QED  BY <3>2, <3>3 DEF UploadInv, FlagsOK
  <2>2. FlagsOK(Settle(rows, q.br, order))
    BY <1>10, <2>1, SettledFlags
  <2>. QED  BY <1>3, <2>2 DEF rows, FlagsOK
<1>14. RestOK'
  BY <1>4 DEF UploadInv, RestOK
<1>15. OnlyUnusedGo
  BY <1>4 DEF OnlyUnusedGo
<1>16. RowsAreUploads
  <2>1. Uploading(row.content)
    BY <1>1, <1>2, <1>4 DEF Uploading
  <2>2. \A i \in DOMAIN rows : i = id \/ i \in DOMAIN bfile
    BY <1>9
  <2>. QED  BY <1>4, <1>9, <1>11, <2>1, <2>2 DEF RowsAreUploads
<1>17. RequestOK(Idle)'
  BY DEF RequestOK, Idle
<1>. QED
  BY <1>4, <1>12, <1>13, <1>14, <1>15, <1>16, <1>17, FilesKept, RequestsKept DEF UploadInv

LEMMA DeleteBroadcastInv ==
    ASSUME UploadInv, NEW b \in BR, NEW i \in DOMAIN bfile, DeleteBroadcast(b, i)
    PROVE  UploadInv'
<1>1. PICK left : left = Without(bfile, {i})
  OBVIOUS
<1>2. PICK C : C = Unreferenced(left, {bfile[i].content})
  OBVIOUS
<1>3. PICK order : bfile' = Settle(left, b, order)
  BY <1>1 DEF DeleteBroadcast
<1>4. /\ Unlink(C) /\ bfile[i].br = b
      /\ UNCHANGED <<report, fights, glog, parser, req>>
  BY <1>1, <1>2 DEF DeleteBroadcast, FilesOf
<1>5. DOMAIN left = DOMAIN bfile \ {i} /\ \A j \in DOMAIN left : left[j] = bfile[j]
  BY <1>1 DEF Without
<1>6. /\ \A j \in DOMAIN left : RowOK(left[j])
      /\ \A j \in DOMAIN left : DOMAIN left[j] = FileFields
  BY <1>5 DEF UploadInv, FilesOK, RowOK
<1>7. /\ DOMAIN bfile' = DOMAIN left /\ bfile' = [j \in DOMAIN bfile' |-> bfile'[j]]
      /\ \A j \in DOMAIN bfile' :
           /\ DOMAIN bfile'[j] = FileFields
           /\ bfile'[j].br = left[j].br /\ bfile'[j].content = left[j].content
           /\ bfile'[j].anchor = left[j].anchor /\ bfile'[j].ts = left[j].ts
  BY <1>3, <1>6, SettleKeeps
<1>8. FilesOK'
  <2>1. \A j \in DOMAIN bfile' : RowOK(bfile'[j])
    BY <1>6, <1>7 DEF RowOK
  <2>. QED  BY <1>5, <1>7, <2>1 DEF FilesOK, RowOK, UploadInv
<1>9. FlagsOK(bfile)'
  <2>1. ASSUME NEW j \in DOMAIN left, left[j].br # b
        PROVE  left[j].superseded = (j \in Superseded(left, left[j].br))
    <3>1. Superseded(left, left[j].br) = Superseded(bfile, left[j].br)
      BY <1>4, <1>5, <2>1, SupersededOfSame
    <3>. QED  BY <1>5, <3>1 DEF UploadInv, FlagsOK
  <2>2. FlagsOK(Settle(left, b, order))
    BY <1>6, <2>1, SettledFlags
  <2>. QED  BY <1>3, <2>2 DEF FlagsOK
<1>10. RestOK'
  BY <1>4 DEF UploadInv, RestOK
<1>11. OnlyUnusedGo
  <2>1. bfile[i].content \in BLOG
    BY DEF UploadInv, FilesOK, RowOK
  <2>2. C \subseteq BLOG /\ \A j \in DOMAIN left : left[j].content \notin C
    BY <1>2, <2>1 DEF Unreferenced, PointingAt
  <2>. QED  BY <1>4, <1>7, <2>2, UnlinkOK
<1>12. RowsAreUploads
  BY <1>4, <1>5, <1>7 DEF RowsAreUploads
<1>. QED
  BY <1>4, <1>8, <1>9, <1>10, <1>11, <1>12, FilesKept, RequestsStay DEF UploadInv

LEMMA DeleteBroadcastRolledBackInv ==
    ASSUME UploadInv, NEW i \in DOMAIN bfile, DeleteBroadcastRolledBack(i)
    PROVE  UploadInv'
<1>1. PICK gone : gone = Unreferenced(Without(bfile, {i}), {bfile[i].content})
  OBVIOUS
<1>2. /\ disk' = disk \ gone /\ excused' = excused \union gone
      /\ UNCHANGED <<report, fights, glog, bfile, parser, req>>
  BY <1>1 DEF DeleteBroadcastRolledBack
<1>3. RestOK' /\ FilesOK' /\ FlagsOK(bfile)'
  BY <1>2 DEF UploadInv, RestOK, FilesOK, FlagsOK
<1>4. OnlyUnusedGo /\ RowsAreUploads
  BY <1>2 DEF OnlyUnusedGo, RowsAreUploads
<1>. QED  BY <1>2, <1>3, <1>4, FilesKept, RequestsStay DEF UploadInv

LEMMA DeleteBrCommitInv ==
    ASSUME UploadInv, NEW r \in REQ, NEW b \in BR, DeleteBrCommit(r, b)
    PROVE  UploadInv'
<1>1. PICK s : s = [op |-> "unlinkAll", paths |-> {bfile[i].content : i \in FilesOf(b)}]
  OBVIOUS
<1>2. /\ report' = report \ {b} /\ fights' = [fights EXCEPT ![b] = {}]
      /\ bfile' = Without(bfile, FilesOf(b))
      /\ req' = [req EXCEPT ![r] = s]
      /\ UNCHANGED <<disk, glog, parser, excused>>
  BY <1>1 DEF DeleteBrCommit, Become
<1>3. /\ DOMAIN bfile' = DOMAIN bfile \ FilesOf(b)
      /\ bfile' = [i \in DOMAIN bfile' |-> bfile'[i]]
      /\ \A i \in DOMAIN bfile' : bfile'[i] = bfile[i] /\ bfile[i].br # b
  BY <1>2 DEF Without, FilesOf
<1>4. RestOK'
  BY <1>2 DEF UploadInv, RestOK
<1>5. FilesOK'
  <2>1. \A i \in DOMAIN bfile' : RowOK(bfile[i])
    BY <1>3 DEF UploadInv, FilesOK
  <2>2. \A i \in DOMAIN bfile' : RowOK(bfile'[i])
    BY <1>3, <2>1
  <2>. QED  BY <1>3, <2>2 DEF UploadInv, FilesOK, RowOK
<1>6. FlagsOK(bfile)'
  <2>1. ASSUME NEW i \in DOMAIN bfile'
        PROVE  Superseded(bfile', bfile'[i].br) = Superseded(bfile, bfile[i].br)
    <3>1. \A j : (j \in DOMAIN bfile' /\ bfile'[j].br = bfile[i].br)
                   <=> (j \in DOMAIN bfile /\ bfile[j].br = bfile[i].br)
      BY <1>3 DEF FilesOf
    <3>2. \A j \in DOMAIN bfile' : bfile'[j].ts = bfile[j].ts
      BY <1>3
    <3>. QED  BY <1>3, <3>1, <3>2, SupersededOfSame
  <2>. QED  BY <1>3, <2>1 DEF UploadInv, FlagsOK, Superseded
<1>7. OnlyUnusedGo /\ RowsAreUploads
  BY <1>2, <1>3 DEF OnlyUnusedGo, RowsAreUploads
<1>8. RequestOK(s)'
  <2>1. s.paths \subseteq BLOG
    BY <1>1 DEF UploadInv, FilesOK, RowOK, FilesOf
  <2>. QED  BY <1>1, <2>1 DEF RequestOK
<1>. QED  BY <1>2, <1>4, <1>5, <1>6, <1>7, <1>8, FilesKept, RequestsKept DEF UploadInv

LEMMA DeleteBrUnlinkInv ==
    ASSUME UploadInv, NEW r \in REQ, DeleteBrUnlink(r)
    PROVE  UploadInv'
<1>1. UNCHANGED <<report, fights, glog, bfile, parser>>
  BY DEF DeleteBrUnlink
<1>2. RestOK' /\ FilesOK' /\ FlagsOK(bfile)'
  BY <1>1 DEF UploadInv, RestOK, FilesOK, FlagsOK
<1>3. RowsAreUploads
  BY <1>1 DEF RowsAreUploads
<1>4. CASE req[r].paths = {}
  <2>1. req' = [req EXCEPT ![r] = Idle] /\ UNCHANGED <<disk, excused>>
    BY <1>4 DEF DeleteBrUnlink, Become
  <2>2. OnlyUnusedGo
    BY <1>1, <2>1 DEF OnlyUnusedGo
  <2>3. RequestOK(Idle)'
    BY DEF RequestOK, Idle
  <2>. QED  BY <1>2, <1>3, <2>1, <2>2, <2>3, FilesKept, RequestsKept DEF UploadInv
<1>5. CASE req[r].paths # {}
  <2>1. PICK c \in req[r].paths :
          /\ Unlink(Unreferenced(bfile, {c}))
          /\ Become(r, [req[r] EXCEPT !.paths = @ \ {c}])
    BY <1>5 DEF DeleteBrUnlink
  <2>2. PICK C : C = Unreferenced(bfile, {c})
    OBVIOUS
  <2>3. PICK s : s = [req[r] EXCEPT !.paths = @ \ {c}]
    OBVIOUS
  <2>4. req[r].op = "unlinkAll" /\ req[r].paths \subseteq BLOG
    BY DEF DeleteBrUnlink, UploadInv, RequestsOK, RequestOK
  <2>5. C \subseteq BLOG /\ \A i \in DOMAIN bfile : bfile[i].content \notin C
    BY <2>2, <2>4 DEF Unreferenced, PointingAt
  <2>6. OnlyUnusedGo
    BY <1>1, <2>1, <2>2, <2>5, UnlinkOK
  <2>7. RequestOK(s)'
    <3>1. s.op = req[r].op /\ (s.paths = req[r].paths \ {c} \/ s = req[r])
      BY <2>3
    <3>. QED  BY <2>4, <3>1 DEF RequestOK
  <2>8. req' = [req EXCEPT ![r] = s]
    BY <2>1, <2>3 DEF Become
  <2>. QED  BY <1>2, <1>3, <2>6, <2>7, <2>8, FilesKept, RequestsKept DEF UploadInv
<1>. QED  BY <1>4, <1>5

-----------------------------------------------------------------------------
(* The rest of the system.                                                 *)

LEMMA RebuildFightsInv ==
    ASSUME UploadInv, NEW b \in BR, RebuildFights(b)
    PROVE  UploadInv'
<1>1. /\ \E F \in FightSets : fights' = [fights EXCEPT ![b] = F]
      /\ UNCHANGED <<report, disk, glog, bfile, parser, req, excused>>
  BY DEF RebuildFights
<1>2. RestOK' /\ FilesOK' /\ FlagsOK(bfile)'
  BY <1>1 DEF UploadInv, RestOK, FilesOK, FlagsOK
<1>3. OnlyUnusedGo /\ RowsAreUploads
  BY <1>1 DEF OnlyUnusedGo, RowsAreUploads
<1>. QED  BY <1>1, <1>2, <1>3, FilesKept, RequestsStay DEF UploadInv

LEMMA RestartInv ==
    ASSUME UploadInv, req' = [r \in REQ |-> Idle], parser' \in {1, 2},
           UNCHANGED <<report, fights, disk, glog, bfile, excused>>
    PROVE  UploadInv'
<1>1. RestOK' /\ FilesOK' /\ FlagsOK(bfile)'
  BY DEF UploadInv, RestOK, FilesOK, FlagsOK
<1>2. OnlyUnusedGo /\ RowsAreUploads
  BY DEF OnlyUnusedGo, RowsAreUploads
<1>. QED  BY <1>1, <1>2, FilesKept, AllIdle DEF UploadInv

LEMMA ReparseBroadcastsInv ==
    ASSUME UploadInv, ReparseBroadcasts
    PROVE  UploadInv'
<1>1. PICK readable : readable = {i \in DOMAIN bfile : bfile[i].content \in disk}
  OBVIOUS
<1>2. PICK touched : touched = {bfile[i].br : i \in readable}
  OBVIOUS
<1>3. PICK rows : rows = [i \in DOMAIN bfile |-> IF i \in readable THEN Reparsed(i) ELSE bfile[i]]
  OBVIOUS
<1>4. PICK orders :
        bfile' = [i \in DOMAIN rows |->
                    IF rows[i].br \in touched
                      THEN Settle(rows, rows[i].br, orders[rows[i].br])[i]
                      ELSE rows[i]]
  <2>. DEFINE rd == {i \in DOMAIN bfile : bfile[i].content \in disk}
              rs == [i \in DOMAIN bfile |-> IF i \in rd THEN Reparsed(i) ELSE bfile[i]]
              to == {bfile[i].br : i \in rd}
  <2>1. \E orders :
          bfile' = [i \in DOMAIN rs |->
                      IF rs[i].br \in to THEN Settle(rs, rs[i].br, orders[rs[i].br])[i]
                                         ELSE rs[i]]
    BY Zenon DEF ReparseBroadcasts
  <2>2. rs = rows /\ to = touched
    BY <1>1, <1>2, <1>3
  <2>. HIDE DEF rs, to
  <2>. QED  BY <2>1, <2>2
<1>5. UNCHANGED <<report, fights, disk, glog, parser, req, excused>>
  BY DEF ReparseBroadcasts
<1>6. DOMAIN rows = DOMAIN bfile
  BY <1>3
<1>7. ASSUME NEW i \in DOMAIN bfile
      PROVE  /\ RowOK(rows[i])
             /\ rows[i].br = bfile[i].br /\ rows[i].content = bfile[i].content
             /\ rows[i].superseded = bfile[i].superseded
             /\ i \notin readable => rows[i].ts = bfile[i].ts
  <2>1. RowOK(bfile[i]) /\ parser \in {1, 2}
    BY DEF UploadInv, FilesOK, RestOK
  <2>2. CASE i \notin readable
    BY <1>3, <2>1, <2>2
  <2>3. CASE i \in readable
    <3>. DEFINE ts == Dated(Parse(bfile[i].content, parser), bfile[i].anchor)
    <3>1. \E p \in {1, 2} : ts = Parse(bfile[i].content, p)
      BY <2>1, DatedIsTrue DEF RowOK
    <3>2. rows[i] = [bfile[i] EXCEPT !.ts = ts]
      BY <1>3, <2>3 DEF Reparsed
    <3>. HIDE DEF ts
    <3>3. /\ DOMAIN rows[i] = FileFields /\ rows[i].br = bfile[i].br
          /\ rows[i].content = bfile[i].content /\ rows[i].anchor = bfile[i].anchor
          /\ rows[i].superseded = bfile[i].superseded /\ rows[i].ts = ts
      BY <2>1, <3>2 DEF RowOK, FileFields
    <3>. QED  BY <2>1, <2>3, <3>1, <3>3 DEF RowOK
  <2>. QED  BY <2>2, <2>3
<1>8. \A i \in DOMAIN rows : DOMAIN rows[i] = FileFields
  BY <1>6, <1>7 DEF RowOK
<1>9. DOMAIN bfile' = DOMAIN rows /\ bfile' = [i \in DOMAIN bfile' |-> bfile'[i]]
  BY <1>4
<1>10. ASSUME NEW i \in DOMAIN rows
       PROVE  /\ DOMAIN bfile'[i] = FileFields
              /\ bfile'[i].br = rows[i].br /\ bfile'[i].content = rows[i].content
              /\ bfile'[i].anchor = rows[i].anchor /\ bfile'[i].ts = rows[i].ts
              /\ bfile'[i].superseded = IF rows[i].br \in touched
                                          THEN i \in Superseded(rows, rows[i].br)
                                          ELSE rows[i].superseded
  <2>1. CASE rows[i].br \in touched
    <3>1. bfile'[i] = Settle(rows, rows[i].br, orders[rows[i].br])[i]
      BY <1>4, <2>1
    <3>. QED  BY <1>8, <2>1, <3>1, SettleKeeps
  <2>2. CASE rows[i].br \notin touched
    <3>1. bfile'[i] = rows[i]
      BY <1>4, <2>2
    <3>. QED  BY <1>8, <2>2, <3>1
  <2>. QED  BY <2>1, <2>2
<1>11. FilesOK'
  <2>1. \A i \in DOMAIN rows : RowOK(rows[i])
    BY <1>6, <1>7
  <2>2. \A i \in DOMAIN bfile' : RowOK(bfile'[i])
    BY <1>9, <1>10, <2>1 DEF RowOK
  <2>. QED  BY <1>6, <1>9, <2>2 DEF UploadInv, FilesOK, RowOK
<1>12. FlagsOK(bfile)'
  <2>1. ASSUME NEW i \in DOMAIN rows
        PROVE  bfile'[i].superseded = (i \in Superseded(bfile', bfile'[i].br))
    <3>1. Superseded(bfile', rows[i].br) = Superseded(rows, rows[i].br)
      BY <1>9, <1>10, SupersededOfSame
    <3>2. CASE rows[i].br \in touched
      BY <1>10, <3>1, <3>2
    <3>3. CASE rows[i].br \notin touched
      <4>1. \A j \in DOMAIN rows : rows[j].br = rows[i].br => rows[j].ts = bfile[j].ts
        BY <1>2, <1>6, <1>7, <3>3
      <4>2. \A j : (j \in DOMAIN rows /\ rows[j].br = rows[i].br)
                     <=> (j \in DOMAIN bfile /\ bfile[j].br = rows[i].br)
        BY <1>6, <1>7
      <4>3. Superseded(rows, rows[i].br) = Superseded(bfile, bfile[i].br)
        BY <1>6, <1>7, <4>1, <4>2, SupersededOfSame
      <4>4. bfile[i].superseded = (i \in Superseded(bfile, bfile[i].br))
        BY <1>6 DEF UploadInv, FlagsOK
      <4>. QED  BY <1>6, <1>7, <1>10, <3>1, <3>3, <4>3, <4>4
    <3>. QED  BY <3>2, <3>3
  <2>. QED  BY <1>9, <2>1 DEF FlagsOK, Superseded
<1>13. RestOK'
  BY <1>5 DEF UploadInv, RestOK
<1>14. OnlyUnusedGo
  BY <1>5 DEF OnlyUnusedGo
<1>15. RowsAreUploads
  BY <1>5, <1>6, <1>7, <1>9, <1>10 DEF RowsAreUploads
<1>. QED
  BY <1>5, <1>11, <1>12, <1>13, <1>14, <1>15, FilesKept, RequestsStay DEF UploadInv

LEMMA UploadInvNext == UploadInv /\ [Next]_vars => UploadInv'
<1>. SUFFICES ASSUME UploadInv, [Next]_vars PROVE UploadInv'
  OBVIOUS
<1>1. ASSUME NEW r \in REQ, NEW c \in GLOG, UploadLogStore(r, c) \/ DeleteLogCommit(r, c)
      PROVE  UploadInv'
  BY <1>1, UploadLogStoreInv, DeleteLogCommitInv
<1>2. ASSUME NEW r \in REQ, NEW b \in BR, NEW c \in BLOG, UploadBroadcastStore(r, b, c)
      PROVE  UploadInv'
  BY <1>2, UploadBroadcastStoreInv
<1>3. ASSUME NEW r \in REQ, UploadLogCommit(r) \/ DeleteLogUnlink(r)
      PROVE  UploadInv'
  BY <1>3, UploadLogCommitInv, DeleteLogUnlinkInv
<1>4. ASSUME NEW r \in REQ, UploadBroadcastCommit(r) \/ UploadBroadcastFails(r)
      PROVE  UploadInv'
  BY <1>4, UploadBroadcastCommitInv, UploadBroadcastFailsInv
<1>5. ASSUME NEW r \in REQ, NEW b \in BR, DeleteBrCommit(r, b)
      PROVE  UploadInv'
  BY <1>5, DeleteBrCommitInv
<1>6. ASSUME NEW r \in REQ, DeleteBrUnlink(r)
      PROVE  UploadInv'
  BY <1>6, DeleteBrUnlinkInv
<1>7. ASSUME NEW b \in BR, NEW i \in DOMAIN bfile, DeleteBroadcast(b, i)
      PROVE  UploadInv'
  BY <1>7, DeleteBroadcastInv
<1>8. ASSUME NEW b \in BR, RebuildFights(b)
      PROVE  UploadInv'
  BY <1>8, RebuildFightsInv
<1>9. ASSUME NEW i \in DOMAIN bfile, DeleteBroadcastRolledBack(i)
      PROVE  UploadInv'
  BY <1>9, DeleteBroadcastRolledBackInv
<1>10. CASE Upgrade
  BY <1>10, RestartInv DEF Upgrade
<1>11. CASE ReparseBroadcasts
  BY <1>11, ReparseBroadcastsInv
<1>12. CASE Crash
  <2>1. parser' \in {1, 2}
    BY <1>12 DEF Crash, UploadInv, RestOK
  <2>. QED  BY <1>12, <2>1, RestartInv DEF Crash
<1>13. CASE UNCHANGED vars
  <2>1. RestOK' /\ FilesOK' /\ FlagsOK(bfile)'
    BY <1>13 DEF vars, UploadInv, RestOK, FilesOK, FlagsOK
  <2>2. OnlyUnusedGo /\ RowsAreUploads
    BY <1>13 DEF vars, OnlyUnusedGo, RowsAreUploads
  <2>3. req' = req
    BY <1>13 DEF vars
  <2>. QED  BY <2>1, <2>2, <2>3, FilesKept, RequestsStay DEF UploadInv
<1>. QED
  BY <1>1, <1>2, <1>3, <1>4, <1>5, <1>6, <1>7, <1>8, <1>9, <1>10, <1>11, <1>12, <1>13 DEF Next

\* The rows, the flags and the requests are always as the invariant says: a file's
\* broadcasts are those of one version of the parser, its anchor the date of its
\* newest line, its flag what supersession would set now, and the content of every
\* upload under way is stored, or counted among the excused.
THEOREM UploadSafety == Spec => []UploadInv
<1>1. Init => UploadInv
  BY UploadInvInit
<1>2. UploadInv /\ [Next]_vars => UploadInv'
  BY UploadInvNext
<1>. QED  BY <1>1, <1>2, PTL DEF Spec

\* For any interleaving of uploads, deletes, rebuilds, reparses, releases and
\* crashes: a row whose stored file is gone lost it to a removal that overtook an
\* upload of the same content, or to a delete that was rolled back
\* (unlink_if_unreferenced, delete_log, delete_br).
THEOREM RowsKeepFiles == Spec => []RowsKeepTheirFiles
<1>1. UploadInv => RowsKeepTheirFiles
  BY DEF UploadInv
<1>. QED  BY <1>1, UploadSafety, PTL

\* For any logs whose lines are in order and less than a day apart, and any fights
\* within half a day of the newest line: every stored instant is the true one,
\* across any number of midnights, and stays so through reparses
\* (choose_anchor_date, reconstruct_datetimes, reparse_broadcasts).
THEOREM DatesAreTheTrueOnes == Spec => []DatesAreTrue
<1>1. UploadInv => DatesAreTrue
  BY DEF UploadInv, FilesOK, RowOK, DatesAreTrue
<1>. QED  BY <1>1, UploadSafety, PTL

\* Of the files of b one beats all others, and none beats it.
LEMMA OneBeatsAll ==
    ASSUME UploadInv, NEW b \in BR, FilesOf(b) # {}
    PROVE  \E m \in FilesOf(b) :
             /\ Superseded(bfile, b) = FilesOf(b) \ {m}
             /\ \A i \in FilesOf(b) : Len(bfile[i].ts) <= Len(bfile[m].ts)
<1>1. PICK rows : rows = bfile
  OBVIOUS
<1>2. PICK mine : mine = FilesOf(b)
  OBVIOUS
<1>3. PICK N \in Nat : mine \subseteq 1..N
  BY <1>2, UploadAssumption DEF UploadInv, FilesOK, FilesOf
<1>4. ASSUME NEW i \in mine
      PROVE  rows[i].ts \in Seq(Nat)
  <2>1. RowOK(rows[i])
    BY <1>1, <1>2 DEF UploadInv, FilesOK, FilesOf
  <2>2. PICK p \in {1, 2} : rows[i].ts = LinesOf[p][rows[i].content]
    BY <2>1 DEF RowOK, Parse
  <2>3. rows[i].content \in BLOG
    BY <2>1 DEF RowOK
  <2>. QED  BY <2>2, <2>3, UploadAssumption
<1>5. mine = {i \in DOMAIN rows : rows[i].br = b} /\ mine # {}
  BY <1>1, <1>2 DEF FilesOf
<1>. DEFINE n == [i \in mine |-> Len(rows[i].ts)]
            e == [i \in mine |-> LastEnd(rows[i])]
<1>6. \A i \in mine : i \in Int
  BY <1>3
<1>7. \A i \in mine : n[i] \in Int
  BY <1>4
<1>8. \A i \in mine : e[i] \in Int
  <2>. SUFFICES ASSUME NEW i \in mine PROVE e[i] \in Int
    OBVIOUS
  <2>. DEFINE S == {0} \union ToSet(rows[i].ts)
  <2>1. IsFiniteSet(ToSet(rows[i].ts)) /\ ToSet(rows[i].ts) \subseteq Nat
    BY <1>4, SetOfSeq
  <2>2. IsFiniteSet(S) /\ S # {} /\ S \subseteq Int
    <3>1. S = ToSet(rows[i].ts) \union {0}
      OBVIOUS
    <3>2. IsFiniteSet(S)
      <4>. HIDE DEF S
      <4>. QED  BY <2>1, <3>1, FS_AddElement
    <3>. QED  BY <2>1, <3>2
  <2>. HIDE DEF S
  <2>3. Max(S) \in Int
    BY <2>2, MaxIsIn
  <2>. QED  BY <2>3 DEF S, LastEnd
<1>9. \A i, j \in mine :
        Beats(rows, i, j) <=> \/ n[i] > n[j]
                              \/ n[i] = n[j] /\ (e[i] > e[j] \/ (e[i] = e[j] /\ i > j))
  <2>1. \A i \in mine : n[i] = Len(rows[i].ts) /\ e[i] = LastEnd(rows[i])
    OBVIOUS
  <2>. HIDE DEF n, e
  <2>. SUFFICES ASSUME NEW i \in mine, NEW j \in mine
                PROVE  Beats(rows, i, j) <=> \/ n[i] > n[j]
                                             \/ /\ n[i] = n[j]
                                                /\ e[i] > e[j] \/ (e[i] = e[j] /\ i > j)
    OBVIOUS
  <2>2. n[i] = Len(rows[i].ts) /\ n[j] = Len(rows[j].ts)
        /\ e[i] = LastEnd(rows[i]) /\ e[j] = LastEnd(rows[j])
    BY <2>1
  <2>3. /\ n[i] \in Int /\ n[j] \in Int /\ e[i] \in Int /\ e[j] \in Int
        /\ i \in Int /\ j \in Int
    BY <1>6, <1>7, <1>8
  <2>. QED  BY <2>2, <2>3 DEF Beats
<1>. HIDE DEF n, e
<1>11. PICK m1 \in mine : \A i \in mine : n[i] <= n[m1]
  BY <1>7, <1>3, <1>5, GreatestExists
<1>. DEFINE most == {i \in mine : n[i] = n[m1]}
<1>12. PICK m2 \in most : \A i \in most : e[i] <= e[m2]
  <2>1. most \in SUBSET (1..N) /\ most # {} /\ \A i \in most : e[i] \in Int
    BY <1>8, <1>3
  <2>. HIDE DEF most
  <2>. QED  BY <1>3, <2>1, GreatestExists
<1>. DEFINE last == {i \in most : e[i] = e[m2]}
<1>13. PICK m \in last : \A i \in last : i <= m
  <2>. DEFINE id == [i \in last |-> i]
  <2>1. last \in SUBSET (1..N) /\ last # {} /\ \A i \in last : id[i] = i /\ id[i] \in Int
    BY <1>6, <1>3
  <2>. HIDE DEF last, id
  <2>2. PICK m \in last : \A i \in last : id[i] <= id[m]
    BY <1>3, <2>1, GreatestExists
  <2>. QED  BY <2>1, <2>2
<1>14. m \in mine /\ n[m] = n[m1] /\ e[m] = e[m2]
  OBVIOUS
<1>15. ASSUME NEW i \in mine, i # m
      PROVE  Beats(rows, m, i) /\ ~Beats(rows, i, m)
  <2>1. n[i] <= n[m] /\ n[i] \in Int /\ n[m] \in Int /\ e[i] \in Int /\ e[m] \in Int
    BY <1>7, <1>8, <1>11, <1>14
  <2>2. n[i] = n[m] => e[i] <= e[m]
    BY <1>12, <1>14
  <2>3. n[i] = n[m] /\ e[i] = e[m] => i < m
    BY <1>6, <1>13, <1>14, <1>15
  <2>. HIDE DEF most, last
  <2>4. /\ Beats(rows, m, i) <=> \/ n[m] > n[i]
                                 \/ n[m] = n[i] /\ (e[m] > e[i] \/ (e[m] = e[i] /\ m > i))
        /\ Beats(rows, i, m) <=> \/ n[i] > n[m]
                                 \/ n[i] = n[m] /\ (e[i] > e[m] \/ (e[i] = e[m] /\ i > m))
    BY <1>9, <1>14
  <2>5. m \in Int /\ i \in Int
    BY <1>6, <1>14
  <2>6. CASE n[i] < n[m]
    BY <2>1, <2>4, <2>6
  <2>7. CASE n[i] = n[m] /\ e[i] < e[m]
    BY <2>1, <2>4, <2>5, <2>7
  <2>8. CASE n[i] = n[m] /\ e[i] = e[m] /\ i < m
    BY <2>1, <2>4, <2>5, <2>8
  <2>. QED  BY <2>1, <2>2, <2>3, <2>6, <2>7, <2>8
<1>16. ~Beats(rows, m, m)
  BY <1>7, <1>8, <1>9, <1>6, <1>14
<1>17. Superseded(rows, b) = mine \ {m}
  <2>. HIDE DEF most, last
  <2>1. Superseded(rows, b) = {i \in mine : \E j \in mine : Beats(rows, j, i)}
    BY <1>5 DEF Superseded
  <2>. QED  BY <1>14, <1>15, <1>16, <2>1
<1>18. \A i \in mine : Len(rows[i].ts) <= Len(rows[m].ts)
  BY <1>11, <1>14 DEF n
<1>. QED  BY <1>14, <1>17, <1>18, <1>1, <1>2

\* One file of a report shows, the most complete one, and its broadcasts only, for
\* any order of uploads, deletes and reparses (_apply_supersession,
\* list_broadcasts, get_broadcast_file).
THEOREM OneFileSpeaksAlone == Spec => []OneFileSpeaks
<1>1. ASSUME UploadInv, NEW b \in BR, FilesOf(b) # {}
      PROVE  LET i == BroadcastFileShown(b) IN
             /\ i \in FilesOf(b)
             /\ ListBroadcasts(b) = {i} \X DOMAIN bfile[i].ts
             /\ \A j \in FilesOf(b) : Len(bfile[j].ts) <= Len(bfile[i].ts)
  <2>1. FilesOf(b) \subseteq Nat \ {0}
    BY <1>1 DEF UploadInv, FilesOK, FilesOf
  <2>2. PICK m \in FilesOf(b) : /\ Superseded(bfile, b) = FilesOf(b) \ {m}
                                /\ \A i \in FilesOf(b) : Len(bfile[i].ts) <= Len(bfile[m].ts)
    BY <1>1, OneBeatsAll
  <2>3. {i \in FilesOf(b) : ~bfile[i].superseded} = {m}
    BY <1>1, <2>2 DEF UploadInv, FlagsOK, FilesOf
  <2>4. BroadcastFileShown(b) = m
    <3>1. m \in Nat /\ m >= 1
      BY <2>1
    <3>2. \A x \in {m} \union {0} : x = m \/ x = 0
      OBVIOUS
    <3>3. Max({m} \union {0}) = m
      BY <3>1, <3>2 DEF Max
    <3>. QED  BY <2>3, <3>3 DEF BroadcastFileShown
  <2>5. ListBroadcasts(b) = {m} \X DOMAIN bfile[m].ts
    BY <2>3 DEF ListBroadcasts
  <2>. QED  BY <2>2, <2>4, <2>5
<1>2. UploadInv => OneFileSpeaks
  BY <1>1 DEF OneFileSpeaks
<1>. QED  BY <1>2, UploadSafety, PTL
=============================================================================
