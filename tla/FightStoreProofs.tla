-------------------------- MODULE FightStoreProofs --------------------------
(***************************************************************************)
(* Proofs about fights and the logs stamped with them, for any reports,    *)
(* killmails, clusterings, files and clients: that what reports share      *)
(* stays whole, that an event has one owner and is summed once, and that   *)
(* the order in which files and kills came does not matter.                *)
(***************************************************************************)
EXTENDS FightStore, Sequences, FiniteSetTheorems, WellFoundedInduction, NaturalsInduction, TLAPS

(* Least and greatest.                                                     *)

LEMMA NatLess == OpToRel(<, Nat) = {ss \in Nat \X Nat : ss[1] < ss[2]}
BY DEF OpToRel

LEMMA LeastExists ==
    ASSUME NEW S, S \subseteq Nat, S # {}
    PROVE  \E n \in S : \A m \in S : n <= m
<1>. DEFINE Less == {ss \in Nat \X Nat : ss[1] < ss[2]}
<1>1. IsWellFoundedOn(Less, Nat)
  BY NatLessThanWellFounded, NatLess
<1>2. PICK n \in S : \A m \in S : <<m, n>> \notin Less
  <2>. HIDE DEF Less
  <2>. QED  BY <1>1, WFMin
<1>3. ASSUME NEW m \in S
      PROVE  n <= m
  <2>1. m \in Nat /\ n \in Nat
    OBVIOUS
  <2>2. m < n => <<m, n>> \in Less
    BY <2>1
  <2>. QED  BY <1>2, <2>1, <2>2
<1>. QED  BY <1>3

\* Of the values of f on a non-empty T there is a greatest.
LEMMA GreatestExists ==
    ASSUME NEW N \in Nat, NEW T \in SUBSET (1..N), T # {}, NEW f, \A i \in T : f[i] \in Int
    PROVE  \E m \in T : \A i \in T : f[i] <= f[m]
<1>. DEFINE Open(U) == U # {} /\ \A m \in U : \E i \in U : ~(f[i] <= f[m])
            Bad == {n \in Nat : \E U \in SUBSET T : U \subseteq 1..n /\ Open(U)}
<1>. SUFFICES ASSUME Open(T) PROVE FALSE
  OBVIOUS
<1>1. Bad # {} /\ Bad \subseteq Nat
  OBVIOUS
<1>2. PICK n \in Bad : \A m \in Bad : n <= m
  <2>. HIDE DEF Bad
  <2>. QED  BY <1>1, LeastExists
<1>3. PICK U \in SUBSET T : U \subseteq 1..n /\ Open(U)
  BY <1>2
<1>4. n \in Nat /\ n # 0 /\ n - 1 \in Nat
  <2>1. n \in Nat
    BY <1>1
  <2>2. 1..0 = {}
    OBVIOUS
  <2>3. n # 0
    BY <1>3, <2>2
  <2>. QED  BY <2>1, <2>3
<1>5. n - 1 \notin Bad
  <2>. HIDE DEF Bad
  <2>. QED  BY <1>2, <1>4
<1>6. U \ {n} \subseteq 1..(n - 1)
  BY <1>3, <1>4
<1>7. ~Open(U \ {n})
  BY <1>4, <1>5, <1>6
<1>8. CASE U \ {n} = {}
  <2>1. \A i \in U : i = n /\ f[i] <= f[n]
    BY <1>3, <1>8
  <2>. QED  BY <1>3, <2>1
<1>9. CASE U \ {n} # {}
  <2>1. PICK m \in U \ {n} : \A i \in U \ {n} : f[i] <= f[m]
    BY <1>7, <1>9
  <2>2. CASE n \in U /\ f[m] <= f[n]
    <3>1. \A i \in U : f[i] <= f[n]
      BY <2>1, <2>2
    <3>. QED  BY <1>3, <2>2, <3>1
  <2>3. CASE n \in U => ~(f[m] <= f[n])
    <3>1. \A i \in U : f[i] <= f[m]
      BY <2>1, <2>3
    <3>. QED  BY <1>3, <2>1, <3>1
  <2>. QED  BY <2>2, <2>3
<1>. QED  BY <1>8, <1>9

LEMMA MinIsIn ==
    ASSUME NEW S, S # {}, S \subseteq Nat
    PROVE  Min(S) \in S /\ \A e \in S : Min(S) <= e
BY LeastExists DEF Min

\* Of the values of g on a non-empty finite set there is a greatest.
LEMMA GreatestOver ==
    ASSUME NEW C, IsFiniteSet(C), C # {}, NEW g, \A k \in C : g[k] \in Nat,
           NEW S, \A v : v \in S <=> \E k \in C : v = g[k]
    PROVE  Max(S) \in S /\ \A e \in S : e <= Max(S)
<1>1. PICK seq \in Seq(C) : \A e \in C : \E n \in 1..Len(seq) : seq[n] = e
  BY DEF IsFiniteSet
<1>. DEFINE N == Len(seq)
            f == [n \in 1..N |-> g[seq[n]]]
<1>2. N \in Nat /\ \A n \in 1..N : seq[n] \in C
  OBVIOUS
<1>3. \E m \in 1..N : \A n \in 1..N : f[n] <= f[m]
  <2>1. 1..N # {} /\ 1..N \in SUBSET (1..N)
    BY <1>1
  <2>2. \A n \in 1..N : f[n] \in Int
    BY <1>2
  <2>. HIDE DEF N, f
  <2>. QED  BY <1>2, <2>1, <2>2, GreatestExists
<1>4. \E m \in S : \A e \in S : m >= e
  <2>1. PICK m \in 1..N : \A n \in 1..N : f[n] <= f[m]
    BY <1>3
  <2>2. f[m] \in S
    BY <1>2
  <2>3. ASSUME NEW k \in C
        PROVE  f[m] >= g[k]
    <3>1. PICK n \in 1..N : seq[n] = k
      BY <1>1
    <3>2. f[n] = g[k] /\ f[n] <= f[m] /\ f[m] \in Nat /\ g[k] \in Nat
      BY <1>2, <2>1, <3>1
    <3>. QED  BY <3>2
  <2>. HIDE DEF f
  <2>. QED  BY <2>2, <2>3
<1>5. S \subseteq Nat
  OBVIOUS
<1>6. Max(S) \in S /\ \A e \in S : Max(S) >= e
  BY <1>4 DEF Max
<1>. QED  BY <1>5, <1>6

\* A finite set of naturals has a maximum.
LEMMA MaxIsIn ==
    ASSUME NEW S, IsFiniteSet(S), S # {}, S \subseteq Nat
    PROVE  Max(S) \in S /\ \A e \in S : e <= Max(S)
<1>. DEFINE g == [e \in S |-> e]
<1>1. /\ \A k \in S : g[k] \in Nat
      /\ \A v : v \in S <=> \E k \in S : v = g[k]
  OBVIOUS
<1>. HIDE DEF g
<1>. QED  BY <1>1, GreatestOver

-----------------------------------------------------------------------------
(* Clusters, windows and owners.                                           *)

\* The rows of the table fight: numbered from 1, finitely many, none empty.
FightRows(fs) ==
    /\ DOMAIN fs \subseteq Nat \ {0} /\ IsFiniteSet(DOMAIN fs)
    /\ \A i \in DOMAIN fs : fs[i] \in (SUBSET KM) \ {{}}

\* The fight i is the lowest whose window holds t.
Owns(fs, i, t) ==
    /\ i \in DOMAIN fs /\ InWindow(fs[i], t)
    /\ \A j \in DOMAIN fs : InWindow(fs[j], t) => i <= j

LEMMA ClusterSpan ==
    ASSUME NEW C \in (SUBSET KM) \ {{}}
    PROVE  Start(C) \in Nat /\ End(C) \in Nat
<1>1. IsFiniteSet(C) /\ C # {} /\ \A k \in C : TimeOf[k] \in Nat
  BY FightStoreAssumption, FS_Subset
<1>. DEFINE S == {TimeOf[k] : k \in C}
<1>2. /\ S # {} /\ S \subseteq Nat
      /\ \A v : v \in S <=> \E k \in C : v = TimeOf[k]
  BY <1>1
<1>3. Max(S) \in S
  <2>. HIDE DEF S
  <2>. QED  BY <1>1, <1>2, GreatestOver
<1>4. Min(S) \in S
  <2>. HIDE DEF S
  <2>. QED  BY <1>2, MinIsIn
<1>. QED  BY <1>2, <1>3, <1>4 DEF Start, End

LEMMA FightSpan ==
    ASSUME NEW fs, FightRows(fs), NEW i \in DOMAIN fs
    PROVE  Start(fs[i]) \in Nat /\ End(fs[i]) \in Nat /\ i \in Nat /\ i # 0
<1>1. fs[i] \in (SUBSET KM) \ {{}} /\ i \in Nat /\ i # 0
  BY DEF FightRows
<1>. QED  BY <1>1, ClusterSpan

LEMMA LogSpan ==
    ASSUME NEW f \in LOG
    PROVE  /\ f \in Nat
           /\ EventsOf[f] \subseteq Nat /\ EventsOf[f] # {} /\ IsFiniteSet(EventsOf[f])
           /\ Max(EventsOf[f]) \in Nat /\ Min(EventsOf[f]) \in Nat
           /\ Cardinality(EventsOf[f]) \in Nat
           /\ \A t \in EventsOf[f] : Min(EventsOf[f]) <= t /\ t <= Max(EventsOf[f])
<1>1. f \in Nat /\ EventsOf[f] \subseteq Nat /\ EventsOf[f] # {} /\ IsFiniteSet(EventsOf[f])
  BY FightStoreAssumption
<1>2. Max(EventsOf[f]) \in EventsOf[f] /\ \A t \in EventsOf[f] : t <= Max(EventsOf[f])
  BY <1>1, MaxIsIn
<1>3. Min(EventsOf[f]) \in EventsOf[f] /\ \A t \in EventsOf[f] : Min(EventsOf[f]) <= t
  BY <1>1, MinIsIn
<1>4. Cardinality(EventsOf[f]) \in Nat
  BY <1>1, FS_CardinalityType
<1>. QED  BY <1>1, <1>2, <1>3, <1>4

LEMMA EventIs ==
    ASSUME NEW e
    PROVE  e \in Event <=> /\ e = <<e[1], e[2]>> /\ e[1] \in LOG
                           /\ e[2] \in EventsOf[e[1]]
BY DEF Event

\* Owner finds the owner, if there is one.
LEMMA OwnerOwns ==
    ASSUME NEW fs, FightRows(fs), NEW t
    PROVE  /\ Owner(fs, t) \in Nat
           /\ Owner(fs, t) # 0 => Owns(fs, Owner(fs, t), t)
           /\ \A i \in DOMAIN fs : InWindow(fs[i], t) => Owner(fs, t) # 0
<1>. DEFINE claims == {i \in DOMAIN fs : InWindow(fs[i], t)}
<1>1. claims \subseteq Nat \ {0}
  BY DEF FightRows
<1>2. CASE claims = {}
  <2>1. Owner(fs, t) = 0
    BY <1>2 DEF Owner
  <2>. QED  BY <1>2, <2>1
<1>3. CASE claims # {}
  <2>1. Owner(fs, t) = Min(claims)
    BY <1>3 DEF Owner
  <2>2. Min(claims) \in claims /\ \A i \in claims : Min(claims) <= i
    <3>. HIDE DEF claims
    <3>. QED  BY <1>1, <1>3, MinIsIn
  <2>. QED  BY <1>1, <2>1, <2>2 DEF Owns
<1>. QED  BY <1>2, <1>3

LEMMA OneOwner ==
    ASSUME NEW fs, FightRows(fs), NEW t, NEW i, NEW j, Owns(fs, i, t), Owns(fs, j, t)
    PROVE  i = j
<1>1. i \in Nat /\ j \in Nat /\ i <= j /\ j <= i
  BY DEF Owns, FightRows
<1>. QED  BY <1>1

\* A fight whose window holds an event of f overlaps f, and every upload of
\* the same client log that reaches as far.
LEMMA HoldersOverlap ==
    ASSUME NEW fs, FightRows(fs), NEW i \in DOMAIN fs,
           NEW f \in LOG, NEW t \in EventsOf[f], InWindow(fs[i], t),
           NEW g \in LOG, SessionOf[g] = SessionOf[f],
           Max(EventsOf[f]) <= Max(EventsOf[g])
    PROVE  i \in Overlapping(fs, g)
<1>1. Start(fs[i]) \in Nat /\ End(fs[i]) \in Nat
  BY FightSpan
<1>2. /\ t \in Nat /\ Max(EventsOf[f]) \in Nat /\ Min(EventsOf[f]) \in Nat
      /\ Min(EventsOf[f]) <= t /\ t <= Max(EventsOf[f])
  BY LogSpan
<1>3. Max(EventsOf[g]) \in Nat /\ Min(EventsOf[g]) = Min(EventsOf[f])
  BY LogSpan, FightStoreAssumption
<1>4. Pad \in Nat /\ Start(fs[i]) <= t + Pad /\ t <= End(fs[i]) + Pad
  BY FightStoreAssumption DEF InWindow
<1>5. Start(fs[i]) <= Max(EventsOf[g]) + Pad /\ Min(EventsOf[g]) <= End(fs[i]) + Pad
  BY <1>1, <1>2, <1>3, <1>4
<1>. QED  BY <1>5 DEF Overlapping

-----------------------------------------------------------------------------
(* Supersession.                                                           *)

LEMMA CoversOrder ==
    ASSUME NEW f \in LOG, NEW g \in LOG, NEW h \in LOG
    PROVE  /\ Covers(f, f)
           /\ Covers(f, g) \/ Covers(g, f)
           /\ Covers(f, g) /\ Covers(g, f) => f = g
           /\ Covers(f, g) /\ Covers(g, h) => Covers(f, h)
           /\ Covers(f, g) => Max(EventsOf[g]) <= Max(EventsOf[f])
<1>1. /\ f \in Nat /\ Max(EventsOf[f]) \in Nat /\ Cardinality(EventsOf[f]) \in Nat
      /\ g \in Nat /\ Max(EventsOf[g]) \in Nat /\ Cardinality(EventsOf[g]) \in Nat
      /\ h \in Nat /\ Max(EventsOf[h]) \in Nat /\ Cardinality(EventsOf[h]) \in Nat
  BY LogSpan
<1>. QED  BY <1>1 DEF Covers

\* Another file of F has more of the client log than f.
Beaten(F, f) == \E h \in F : SessionOf[h] = SessionOf[f] /\ ~Covers(f, h)

LEMMA SupersededIs ==
    ASSUME NEW F, NEW f, NEW g
    PROVE  g \in Superseded(F, f) <=>
             g \in F /\ SessionOf[g] = SessionOf[f] /\ Beaten(F, g)
BY DEF Superseded, Beaten

LEMMA BeatenMore ==
    ASSUME NEW F, NEW G, F \subseteq G, NEW f, Beaten(F, f)
    PROVE  Beaten(G, f)
BY DEF Beaten

\* Of the files of one session one is not beaten.
LEMMA OneUnbeaten ==
    ASSUME NEW F \in SUBSET LOG, NEW f \in F, NEW g \in F, SessionOf[f] = SessionOf[g],
           ~Beaten(F, f), ~Beaten(F, g)
    PROVE  f = g
<1>1. Covers(f, g) /\ Covers(g, f)
  BY DEF Beaten
<1>. QED  BY <1>1, CoversOrder

-----------------------------------------------------------------------------
(* What a transaction does to the rows.                                    *)

IsRows(r) == DOMAIN r = {"fight", "brFight", "stamp", "bucket"}

\* A stamp is of a stored file that no other beats, and names the owner.
StampsOK(r, F) ==
    \A e \in Event : r.stamp[e] # 0 =>
        e[1] \in F /\ Owns(r.fight, r.stamp[e], e[2]) /\ ~Beaten(F, e[1])

\* What is summed happened in the window of a fight that is there.  It may be of
\* a file that has gone, but then of one that would be the fullest if it came back.
BucketsLive(r, F) ==
    \A x \in r.bucket :
        /\ x = <<x[1], x[2]>> /\ x[2] \in Event
        /\ x[1] \in DOMAIN r.fight /\ InWindow(r.fight[x[1]], x[2][2])
        /\ ~Beaten(F, x[2][1])

BucketsExact(r, F) ==
    \A e \in Event : e[1] \in F => \A i : <<i, e>> \in r.bucket <=> i = r.stamp[e] /\ i # 0

\* The rows of the logs F fit those of the fights.
LogRows(r, F) ==
    /\ IsRows(r) /\ FightRows(r.fight) /\ r.stamp \in [Event -> Nat]
    /\ StampsOK(r, F) /\ BucketsLive(r, F) /\ BucketsExact(r, F)

LEMMA DropFightsRows ==
    ASSUME NEW r, NEW F, LogRows(r, F), NEW gone, NEW d, d = DropFights(r, gone)
    PROVE  /\ d.brFight = r.brFight
           /\ DOMAIN d.fight = DOMAIN r.fight \ gone
           /\ \A i \in DOMAIN d.fight : d.fight[i] = r.fight[i]
           /\ \A e \in Event : d.stamp[e] = IF r.stamp[e] \in gone THEN 0 ELSE r.stamp[e]
           /\ LogRows(d, F)
<1>1. /\ IsRows(r) /\ FightRows(r.fight) /\ r.stamp \in [Event -> Nat]
      /\ StampsOK(r, F) /\ BucketsLive(r, F) /\ BucketsExact(r, F)
  BY DEF LogRows
<1>2. /\ IsRows(d) /\ d.brFight = r.brFight
      /\ d.fight = [i \in DOMAIN r.fight \ gone |-> r.fight[i]]
      /\ d.stamp = [e \in Event |-> IF r.stamp[e] \in gone THEN 0 ELSE r.stamp[e]]
      /\ d.bucket = {x \in r.bucket : x[1] \notin gone}
  BY <1>1 DEF IsRows, DropFights
<1>3. /\ DOMAIN d.fight = DOMAIN r.fight \ gone
      /\ \A i \in DOMAIN d.fight : d.fight[i] = r.fight[i]
      /\ \A e \in Event : d.stamp[e] = IF r.stamp[e] \in gone THEN 0 ELSE r.stamp[e]
  BY <1>2
<1>4. FightRows(d.fight)
  <2>1. IsFiniteSet(DOMAIN d.fight)
    BY <1>1, <1>3, FS_Subset DEF FightRows
  <2>. QED  BY <1>1, <1>3, <2>1 DEF FightRows
<1>5. d.stamp \in [Event -> Nat]
  BY <1>1, <1>2
<1>6. StampsOK(d, F)
  BY <1>1, <1>3 DEF StampsOK, Owns
<1>7. BucketsLive(d, F)
  BY <1>1, <1>2, <1>3 DEF BucketsLive
<1>8. BucketsExact(d, F)
  <2>1. ASSUME NEW e \in Event, e[1] \in F, NEW i
        PROVE  <<i, e>> \in d.bucket <=> i = d.stamp[e] /\ i # 0
    <3>1. <<i, e>> \in d.bucket <=> <<i, e>> \in r.bucket /\ i \notin gone
      BY <1>2
    <3>2. <<i, e>> \in r.bucket <=> i = r.stamp[e] /\ i # 0
      BY <1>1, <2>1 DEF BucketsExact
    <3>. QED  BY <1>3, <3>1, <3>2
  <2>. QED  BY <2>1 DEF BucketsExact
<1>. QED  BY <1>2, <1>3, <1>4, <1>5, <1>6, <1>7, <1>8 DEF LogRows

\* New fights come with higher numbers and so take nothing from the old.
LEMMA GrownRows ==
    ASSUME NEW r, NEW F, LogRows(r, F), NEW q, IsRows(q), FightRows(q.fight),
           q.stamp = r.stamp, q.bucket = r.bucket,
           \A i \in DOMAIN r.fight : i \in DOMAIN q.fight /\ q.fight[i] = r.fight[i],
           \A i \in DOMAIN r.fight : \A j \in DOMAIN q.fight \ DOMAIN r.fight : i <= j
    PROVE  LogRows(q, F)
<1>1. /\ r.stamp \in [Event -> Nat]
      /\ StampsOK(r, F) /\ BucketsLive(r, F) /\ BucketsExact(r, F)
  BY DEF LogRows
<1>2. StampsOK(q, F)
  BY <1>1 DEF StampsOK, Owns
<1>3. BucketsLive(q, F)
  BY <1>1 DEF BucketsLive
<1>4. BucketsExact(q, F)
  BY <1>1 DEF BucketsExact
<1>. QED  BY <1>1, <1>2, <1>3, <1>4 DEF LogRows

\* Where pairs are rebuilt the buckets are the stamps, elsewhere they stay.
LEMMA RebuiltFields ==
    ASSUME NEW r, IsRows(r), NEW pairs, NEW q, q = RebuildBuckets(r, pairs)
    PROVE  /\ IsRows(q) /\ q.fight = r.fight /\ q.brFight = r.brFight /\ q.stamp = r.stamp
           /\ \A x \in q.bucket :
                \/ x \in r.bucket /\ <<x[1], CharOf[x[2][1]]>> \notin pairs
                \/ \E e \in Event : x = <<r.stamp[e], e>> /\ <<r.stamp[e], CharOf[e[1]]>> \in pairs
           /\ \A e \in Event : \A i :
                <<i, e>> \in q.bucket <=>
                  IF <<i, CharOf[e[1]]>> \in pairs THEN r.stamp[e] = i ELSE <<i, e>> \in r.bucket
<1>1. /\ IsRows(q) /\ q.fight = r.fight /\ q.brFight = r.brFight /\ q.stamp = r.stamp
      /\ q.bucket = {x \in r.bucket : <<x[1], CharOf[x[2][1]]>> \notin pairs}
                      \union Summed(r, pairs)
  BY DEF IsRows, RebuildBuckets
<1>2. \A x : x \in Summed(r, pairs) <=>
        \E e \in Event : x = <<r.stamp[e], e>> /\ <<r.stamp[e], CharOf[e[1]]>> \in pairs
  BY DEF Summed
<1>3. \A e \in Event : \A i : <<i, e>> \in Summed(r, pairs) <=>
        r.stamp[e] = i /\ <<i, CharOf[e[1]]>> \in pairs
  <2>1. ASSUME NEW e \in Event, NEW i
        PROVE  <<i, e>> \in Summed(r, pairs) <=>
                 r.stamp[e] = i /\ <<i, CharOf[e[1]]>> \in pairs
    <3>1. <<i, e>> \in Summed(r, pairs) <=>
            \E d \in Event : <<i, e>> = <<r.stamp[d], d>> /\ <<r.stamp[d], CharOf[d[1]]>> \in pairs
      BY <1>2
    <3>. QED  BY <3>1
  <2>. QED  BY <2>1
<1>4. \A e \in Event : \A i : <<i, e>> \in q.bucket <=>
        IF <<i, CharOf[e[1]]>> \in pairs THEN r.stamp[e] = i ELSE <<i, e>> \in r.bucket
  BY <1>1, <1>3
<1>5. \A x \in q.bucket :
        \/ x \in r.bucket /\ <<x[1], CharOf[x[2][1]]>> \notin pairs
        \/ \E e \in Event : x = <<r.stamp[e], e>> /\ <<r.stamp[e], CharOf[e[1]]>> \in pairs
  BY <1>1, <1>2
<1>. QED  BY <1>1, <1>4, <1>5

LEMMA RebuiltRows ==
    ASSUME NEW r, NEW F, LogRows(r, F), NEW pairs, \A i, c : <<i, c>> \in pairs => i # 0
    PROVE  LogRows(RebuildBuckets(r, pairs), F)
<1>. DEFINE q == RebuildBuckets(r, pairs)
<1>1. /\ IsRows(r) /\ FightRows(r.fight) /\ r.stamp \in [Event -> Nat]
      /\ StampsOK(r, F) /\ BucketsLive(r, F) /\ BucketsExact(r, F)
  BY DEF LogRows
<1>2. /\ IsRows(q) /\ q.fight = r.fight /\ q.brFight = r.brFight /\ q.stamp = r.stamp
      /\ \A x \in q.bucket :
           \/ x \in r.bucket /\ <<x[1], CharOf[x[2][1]]>> \notin pairs
           \/ \E e \in Event : x = <<r.stamp[e], e>> /\ <<r.stamp[e], CharOf[e[1]]>> \in pairs
      /\ \A e \in Event : \A i :
           <<i, e>> \in q.bucket <=>
             IF <<i, CharOf[e[1]]>> \in pairs THEN r.stamp[e] = i ELSE <<i, e>> \in r.bucket
  BY <1>1, RebuiltFields
<1>. HIDE DEF q
<1>3. StampsOK(q, F)
  BY <1>1, <1>2 DEF StampsOK
<1>4. BucketsLive(q, F)
  <2>1. ASSUME NEW x \in q.bucket, x \in r.bucket
        PROVE  /\ x = <<x[1], x[2]>> /\ x[2] \in Event
               /\ x[1] \in DOMAIN q.fight /\ InWindow(q.fight[x[1]], x[2][2])
               /\ ~Beaten(F, x[2][1])
    BY <1>1, <1>2, <2>1 DEF BucketsLive
  <2>2. ASSUME NEW e \in Event, <<r.stamp[e], CharOf[e[1]]>> \in pairs
        PROVE  /\ r.stamp[e] \in DOMAIN q.fight /\ InWindow(q.fight[r.stamp[e]], e[2])
               /\ ~Beaten(F, e[1])
    <3>1. r.stamp[e] # 0
      BY <2>2
    <3>. QED  BY <1>1, <1>2, <3>1 DEF StampsOK, Owns
  <2>3. ASSUME NEW x \in q.bucket
        PROVE  /\ x = <<x[1], x[2]>> /\ x[2] \in Event
               /\ x[1] \in DOMAIN q.fight /\ InWindow(q.fight[x[1]], x[2][2])
               /\ ~Beaten(F, x[2][1])
    <3>1. CASE x \in r.bucket
      BY <2>1, <3>1
    <3>2. ASSUME NEW e \in Event, x = <<r.stamp[e], e>>, <<r.stamp[e], CharOf[e[1]]>> \in pairs
          PROVE  /\ x = <<x[1], x[2]>> /\ x[2] \in Event
                 /\ x[1] \in DOMAIN q.fight /\ InWindow(q.fight[x[1]], x[2][2])
                 /\ ~Beaten(F, x[2][1])
      <4>1. x[1] = r.stamp[e] /\ x[2] = e
        BY <3>2
      <4>. QED  BY <2>2, <3>2, <4>1
    <3>. QED  BY <1>2, <3>1, <3>2
  <2>. QED  BY <2>3 DEF BucketsLive
<1>5. BucketsExact(q, F)
  <2>1. ASSUME NEW e \in Event, e[1] \in F, NEW i
        PROVE  <<i, e>> \in q.bucket <=> i = q.stamp[e] /\ i # 0
    <3>1. <<i, e>> \in r.bucket <=> i = r.stamp[e] /\ i # 0
      BY <1>1, <2>1 DEF BucketsExact
    <3>. QED  BY <1>2, <3>1
  <2>. QED  BY <2>1 DEF BucketsExact
<1>. QED  BY <1>1, <1>2, <1>3, <1>4, <1>5 DEF LogRows, q

\* The files that associating the files S finds superseded, and the pairs of
\* fight and character whose buckets it rebuilds.
Lost(F, S) == UNION {Superseded(F, f) : f \in S}
Touches(r, F, S, i, c) ==
    \E g \in Lost(F, S) \union S :
        /\ c = CharOf[g]
        /\ \/ i \in StampedIn(r, {g})
           \/ g \notin Lost(F, S) /\ i \in Overlapping(r.fight, g)

LEMMA LostIs ==
    ASSUME NEW F \in SUBSET LOG, NEW S \in SUBSET F, NEW g
    PROVE  /\ g \in Lost(F, S) => g \in F /\ Beaten(F, g)
           /\ g \in Lost(F, S) <=>
                g \in F /\ Beaten(F, g) /\ \E f \in S : SessionOf[g] = SessionOf[f]
BY SupersededIs DEF Lost

LEMMA StampedInIs ==
    ASSUME NEW r, NEW g, NEW i
    PROVE  i \in StampedIn(r, {g}) <=>
             i # 0 /\ \E e \in Event : e[1] = g /\ i = r.stamp[e]
BY DEF StampedIn, EventsIn

\* The rows q that associating S leaves of r, field by field.
Associated(r, F, S, q) ==
    /\ IsRows(q) /\ q.fight = r.fight /\ q.brFight = r.brFight
    /\ q.stamp \in [Event -> Nat]
    /\ \A e \in Event : q.stamp[e] = IF e[1] \in Lost(F, S) THEN 0
                                     ELSE IF e[1] \in S THEN Owner(r.fight, e[2])
                                     ELSE r.stamp[e]
    /\ \A x \in q.bucket :
         \/ x \in r.bucket /\ ~Touches(r, F, S, x[1], CharOf[x[2][1]])
         \/ \E e \in Event : x = <<q.stamp[e], e>> /\ q.stamp[e] # 0
    /\ \A e \in Event : \A i :
         <<i, e>> \in q.bucket <=>
           IF Touches(r, F, S, i, CharOf[e[1]]) THEN q.stamp[e] = i ELSE <<i, e>> \in r.bucket
    /\ \A i, c : Touches(r, F, S, i, c) => i # 0

LEMMA AssociatedFields ==
    ASSUME NEW r, IsRows(r), FightRows(r.fight), r.stamp \in [Event -> Nat],
           NEW F \in SUBSET LOG, NEW S \in SUBSET F, NEW q, q = AssociateFiles(r, F, S)
    PROVE  Associated(r, F, S, q)
<1>. DEFINE won == S \ Lost(F, S)
            Touched(g) == StampedIn(r, {g})
                            \union (IF g \in won THEN Overlapping(r.fight, g) ELSE {})
            pairs == UNION {Touched(g) \X {CharOf[g]} : g \in Lost(F, S) \union won}
            New == [e \in Event |-> CASE e[1] \in Lost(F, S) -> 0
                                      [] e[1] \in won -> Owner(r.fight, e[2])
                                      [] OTHER -> r.stamp[e]]
            p == [r EXCEPT !.stamp = New]
<1>1. q = RebuildBuckets(p, pairs)
  BY DEF AssociateFiles, Lost
<1>2. \A e \in Event : New[e] = IF e[1] \in Lost(F, S) THEN 0
                                ELSE IF e[1] \in S THEN Owner(r.fight, e[2])
                                ELSE r.stamp[e]
  OBVIOUS
<1>3. New \in [Event -> Nat]
  <2>1. \A e \in Event : New[e] \in Nat
    <3>. HIDE DEF New
    <3>. QED  BY <1>2, OwnerOwns
  <2>. QED  BY <2>1
<1>4. IsRows(p) /\ p.fight = r.fight /\ p.brFight = r.brFight /\ p.stamp = New /\ p.bucket = r.bucket
  <2>. HIDE DEF New
  <2>. QED  BY DEF IsRows
<1>5. \A i, c : <<i, c>> \in pairs <=> Touches(r, F, S, i, c)
  <2>1. ASSUME NEW i, NEW c
        PROVE  <<i, c>> \in pairs <=>
                 \E g \in Lost(F, S) \union won : i \in Touched(g) /\ c = CharOf[g]
    <3>. HIDE DEF Touched, won
    <3>. QED  OBVIOUS
  <2>2. \A g : g \in Lost(F, S) \union won <=> g \in Lost(F, S) \union S
    OBVIOUS
  <2>3. \A g \in Lost(F, S) \union S : \A i :
           i \in Touched(g) <=> \/ i \in StampedIn(r, {g})
                                \/ g \notin Lost(F, S) /\ i \in Overlapping(r.fight, g)
    OBVIOUS
  <2>. HIDE DEF won, Touched, pairs
  <2>. QED  BY <2>1, <2>2, <2>3 DEF Touches
<1>6. \A i, c : Touches(r, F, S, i, c) => i # 0
  <2>1. ASSUME NEW i, NEW c, Touches(r, F, S, i, c)
        PROVE  i # 0
    <3>1. PICK g \in Lost(F, S) \union S :
            i \in StampedIn(r, {g}) \/ i \in Overlapping(r.fight, g)
      BY <2>1 DEF Touches
    <3>2. i \in StampedIn(r, {g}) => i # 0
      BY DEF StampedIn
    <3>3. i \in Overlapping(r.fight, g) => i \in DOMAIN r.fight
      BY DEF Overlapping
    <3>. QED  BY <3>1, <3>2, <3>3 DEF FightRows
  <2>. QED  BY <2>1
<1>. HIDE DEF won, Touched, pairs, New, p
<1>7. /\ IsRows(q) /\ q.fight = p.fight /\ q.brFight = p.brFight /\ q.stamp = p.stamp
      /\ \A x \in q.bucket :
           \/ x \in p.bucket /\ <<x[1], CharOf[x[2][1]]>> \notin pairs
           \/ \E e \in Event : x = <<p.stamp[e], e>> /\ <<p.stamp[e], CharOf[e[1]]>> \in pairs
      /\ \A e \in Event : \A i :
           <<i, e>> \in q.bucket <=>
             IF <<i, CharOf[e[1]]>> \in pairs THEN p.stamp[e] = i ELSE <<i, e>> \in p.bucket
  BY <1>1, <1>4, RebuiltFields
<1>8. /\ IsRows(q) /\ q.fight = r.fight /\ q.brFight = r.brFight
      /\ q.stamp \in [Event -> Nat]
      /\ \A e \in Event : q.stamp[e] = IF e[1] \in Lost(F, S) THEN 0
                                       ELSE IF e[1] \in S THEN Owner(r.fight, e[2])
                                       ELSE r.stamp[e]
  BY <1>2, <1>3, <1>4, <1>7
<1>9. \A x \in q.bucket :
           \/ x \in r.bucket /\ ~Touches(r, F, S, x[1], CharOf[x[2][1]])
           \/ \E e \in Event : x = <<q.stamp[e], e>> /\ q.stamp[e] # 0
  <2>1. ASSUME NEW x \in q.bucket
        PROVE  \/ x \in r.bucket /\ ~Touches(r, F, S, x[1], CharOf[x[2][1]])
               \/ \E e \in Event : x = <<q.stamp[e], e>> /\ q.stamp[e] # 0
    <3>1. <<x[1], CharOf[x[2][1]]>> \in pairs <=> Touches(r, F, S, x[1], CharOf[x[2][1]])
      BY <1>5
    <3>2. \A e \in Event : <<p.stamp[e], CharOf[e[1]]>> \in pairs
                             => q.stamp[e] = p.stamp[e] /\ q.stamp[e] # 0
      BY <1>5, <1>6, <1>7
    <3>3. p.bucket = r.bucket
      BY <1>4
    <3>4. CASE x \in p.bucket /\ <<x[1], CharOf[x[2][1]]>> \notin pairs
      BY <3>1, <3>3, <3>4
    <3>5. ASSUME NEW e \in Event, x = <<p.stamp[e], e>>, <<p.stamp[e], CharOf[e[1]]>> \in pairs
          PROVE  \E d \in Event : x = <<q.stamp[d], d>> /\ q.stamp[d] # 0
      <4>1. x = <<q.stamp[e], e>> /\ q.stamp[e] # 0
        BY <3>2, <3>5
      <4>. QED  BY <4>1
    <3>6. \/ x \in p.bucket /\ <<x[1], CharOf[x[2][1]]>> \notin pairs
          \/ \E e \in Event : x = <<p.stamp[e], e>> /\ <<p.stamp[e], CharOf[e[1]]>> \in pairs
      BY <1>7
    <3>. QED  BY <3>4, <3>5, <3>6
  <2>. QED  BY <2>1
<1>10. \A e \in Event : \A i :
           <<i, e>> \in q.bucket <=>
             IF Touches(r, F, S, i, CharOf[e[1]]) THEN q.stamp[e] = i ELSE <<i, e>> \in r.bucket
  <2>1. ASSUME NEW e \in Event, NEW i
        PROVE  <<i, e>> \in q.bucket <=>
                 IF Touches(r, F, S, i, CharOf[e[1]]) THEN q.stamp[e] = i ELSE <<i, e>> \in r.bucket
    <3>1. <<i, CharOf[e[1]]>> \in pairs <=> Touches(r, F, S, i, CharOf[e[1]])
      BY <1>5
    <3>2. <<i, e>> \in q.bucket <=>
            IF <<i, CharOf[e[1]]>> \in pairs THEN p.stamp[e] = i ELSE <<i, e>> \in p.bucket
      BY <1>7
    <3>3. p.bucket = r.bucket /\ p.stamp[e] = q.stamp[e]
      BY <1>4, <1>7
    <3>. QED  BY <3>1, <3>2, <3>3
  <2>. QED  BY <2>1
<1>. QED  BY <1>6, <1>8, <1>9, <1>10 DEF Associated

\* Associating files brings the rows of the logs in order, if those of the files
\* it does not touch are, and if what is left of the others is in its reach.
LEMMA AssociatedRows ==
    ASSUME NEW r, IsRows(r), FightRows(r.fight), r.stamp \in [Event -> Nat],
           NEW F \in SUBSET LOG, NEW S \in SUBSET F,
           \A e \in Event : r.stamp[e] # 0 =>
             /\ e[1] \in F /\ Owns(r.fight, r.stamp[e], e[2])
             /\ e[1] \in Lost(F, S) \/ ~Beaten(F, e[1]),
           \A x \in r.bucket :
             /\ x = <<x[1], x[2]>> /\ x[2] \in Event
             /\ x[1] \in DOMAIN r.fight /\ InWindow(r.fight[x[1]], x[2][2])
             /\ Beaten(F, x[2][1]) =>
                  \E h \in S \ Lost(F, S) :
                    SessionOf[h] = SessionOf[x[2][1]] /\ x[1] \in Overlapping(r.fight, h),
           \A e \in Event : e[1] \in F \ (S \union Lost(F, S)) =>
             \A i : <<i, e>> \in r.bucket <=> i = r.stamp[e] /\ i # 0,
           \A e \in Event : e[1] \in Lost(F, S) =>
             \A i : <<i, e>> \in r.bucket => i = r.stamp[e],
           NEW q, q = AssociateFiles(r, F, S)
    PROVE  LogRows(q, F)
<1>1. /\ IsRows(q) /\ q.fight = r.fight /\ q.brFight = r.brFight
      /\ q.stamp \in [Event -> Nat]
      /\ \A e \in Event : q.stamp[e] = IF e[1] \in Lost(F, S) THEN 0
                                       ELSE IF e[1] \in S THEN Owner(r.fight, e[2])
                                       ELSE r.stamp[e]
      /\ \A x \in q.bucket :
           \/ x \in r.bucket /\ ~Touches(r, F, S, x[1], CharOf[x[2][1]])
           \/ \E e \in Event : x = <<q.stamp[e], e>> /\ q.stamp[e] # 0
      /\ \A e \in Event : \A i :
           <<i, e>> \in q.bucket <=>
             IF Touches(r, F, S, i, CharOf[e[1]]) THEN q.stamp[e] = i ELSE <<i, e>> \in r.bucket
      /\ \A i, c : Touches(r, F, S, i, c) => i # 0
  <2>1. Associated(r, F, S, q)
    BY AssociatedFields
  <2>. QED  BY <2>1 DEF Associated
<1>2. ASSUME NEW e \in Event, q.stamp[e] # 0
      PROVE  e[1] \in F /\ Owns(q.fight, q.stamp[e], e[2]) /\ ~Beaten(F, e[1])
  <2>1. e[1] \notin Lost(F, S)
    BY <1>1, <1>2
  <2>2. CASE e[1] \in S
    <3>1. q.stamp[e] = Owner(r.fight, e[2])
      BY <1>1, <2>1, <2>2
    <3>2. Owns(r.fight, q.stamp[e], e[2])
      BY <1>2, <3>1, OwnerOwns
    <3>3. ~Beaten(F, e[1])
      BY <2>1, <2>2, LostIs
    <3>. QED  BY <1>1, <2>2, <3>2, <3>3
  <2>3. CASE e[1] \notin S
    BY <1>1, <1>2, <2>1, <2>3
  <2>. QED  BY <2>2, <2>3
<1>3. StampsOK(q, F)
  BY <1>2 DEF StampsOK
<1>4. BucketsLive(q, F)
  <2>1. ASSUME NEW x \in q.bucket
        PROVE  /\ x = <<x[1], x[2]>> /\ x[2] \in Event
               /\ x[1] \in DOMAIN q.fight /\ InWindow(q.fight[x[1]], x[2][2])
               /\ ~Beaten(F, x[2][1])
    <3>1. CASE x \in r.bucket /\ ~Touches(r, F, S, x[1], CharOf[x[2][1]])
      <4>1. /\ x = <<x[1], x[2]>> /\ x[2] \in Event
            /\ x[1] \in DOMAIN q.fight /\ InWindow(q.fight[x[1]], x[2][2])
        BY <1>1, <3>1
      <4>2. ASSUME NEW h \in S \ Lost(F, S), SessionOf[h] = SessionOf[x[2][1]],
                   x[1] \in Overlapping(r.fight, h)
            PROVE  FALSE
        <5>1. x[2][1] \in LOG
          BY <4>1, EventIs
        <5>2. CharOf[h] = CharOf[x[2][1]]
          BY <4>2, <5>1, FightStoreAssumption
        <5>. QED  BY <3>1, <4>2, <5>2 DEF Touches
      <4>3. ~Beaten(F, x[2][1])
        BY <3>1, <4>2
      <4>. QED  BY <4>1, <4>3
    <3>2. ASSUME NEW e \in Event, x = <<q.stamp[e], e>>, q.stamp[e] # 0
          PROVE  /\ x = <<x[1], x[2]>> /\ x[2] \in Event
                 /\ x[1] \in DOMAIN q.fight /\ InWindow(q.fight[x[1]], x[2][2])
                 /\ ~Beaten(F, x[2][1])
      <4>1. x[1] = q.stamp[e] /\ x[2] = e /\ x = <<x[1], x[2]>>
        BY <3>2
      <4>. QED  BY <1>2, <3>2, <4>1 DEF Owns
    <3>. QED  BY <1>1, <3>1, <3>2
  <2>. QED  BY <2>1 DEF BucketsLive
<1>5. BucketsExact(q, F)
  <2>1. ASSUME NEW e \in Event, e[1] \in F, NEW i
        PROVE  <<i, e>> \in q.bucket <=> i = q.stamp[e] /\ i # 0
    <3>1. <<i, e>> \in q.bucket <=>
            IF Touches(r, F, S, i, CharOf[e[1]]) THEN q.stamp[e] = i ELSE <<i, e>> \in r.bucket
      BY <1>1
    <3>2. CASE Touches(r, F, S, i, CharOf[e[1]])
      BY <1>1, <3>1, <3>2
    <3>. SUFFICES ASSUME ~Touches(r, F, S, i, CharOf[e[1]])
                  PROVE  <<i, e>> \in r.bucket <=> i = q.stamp[e] /\ i # 0
      BY <3>1, <3>2
    <3>3. <<i, e>> \in r.bucket => i \in DOMAIN r.fight /\ InWindow(r.fight[i], e[2]) /\ i # 0
      <4>1. <<i, e>>[1] = i /\ <<i, e>>[2] = e
        OBVIOUS
      <4>. QED  BY <4>1 DEF FightRows
    <3>4. CASE e[1] \in Lost(F, S)
      <4>1. q.stamp[e] = 0
        BY <1>1, <3>4
      <4>2. ASSUME <<i, e>> \in r.bucket
            PROVE  FALSE
        <5>1. i = r.stamp[e] /\ i # 0
          BY <3>3, <3>4, <4>2
        <5>2. i \in StampedIn(r, {e[1]})
          BY <5>1, StampedInIs
        <5>. QED  BY <3>4, <5>2 DEF Touches
      <4>. QED  BY <4>1, <4>2
    <3>5. CASE e[1] \in S \ Lost(F, S)
      <4>1. i \notin Overlapping(r.fight, e[1])
        BY <3>5 DEF Touches
      <4>2. e[1] \in LOG /\ e[2] \in EventsOf[e[1]]
        BY EventIs
      <4>3. ~(i \in DOMAIN r.fight /\ InWindow(r.fight[i], e[2]))
        <5>1. Max(EventsOf[e[1]]) <= Max(EventsOf[e[1]])
          BY <4>2, LogSpan
        <5>. QED  BY <4>1, <4>2, <5>1, HoldersOverlap
      <4>4. ~(i = q.stamp[e] /\ i # 0)
        <5>1. q.stamp[e] = Owner(r.fight, e[2])
          BY <1>1, <3>5
        <5>. QED  BY <4>3, <5>1, OwnerOwns DEF Owns
      <4>. QED  BY <3>3, <4>3, <4>4
    <3>6. CASE e[1] \notin S \union Lost(F, S)
      BY <1>1, <2>1, <3>6
    <3>. QED  BY <3>4, <3>5, <3>6
  <2>. QED  BY <2>1 DEF BucketsExact
<1>. QED  BY <1>1, <1>3, <1>4, <1>5 DEF LogRows

\* Of rows in order: every step of an association keeps them so.
LEMMA AssociatedAgain ==
    ASSUME NEW F \in SUBSET LOG, NEW S \in SUBSET F, NEW r, LogRows(r, F)
    PROVE  LogRows(AssociateFiles(r, F, S), F)
<1>1. /\ IsRows(r) /\ FightRows(r.fight) /\ r.stamp \in [Event -> Nat]
      /\ StampsOK(r, F) /\ BucketsLive(r, F) /\ BucketsExact(r, F)
  BY DEF LogRows
<1>2. \A e \in Event : r.stamp[e] # 0 =>
        /\ e[1] \in F /\ Owns(r.fight, r.stamp[e], e[2])
        /\ e[1] \in Lost(F, S) \/ ~Beaten(F, e[1])
  BY <1>1 DEF StampsOK
<1>3. \A x \in r.bucket :
        /\ x = <<x[1], x[2]>> /\ x[2] \in Event
        /\ x[1] \in DOMAIN r.fight /\ InWindow(r.fight[x[1]], x[2][2])
        /\ ~Beaten(F, x[2][1])
  BY <1>1 DEF BucketsLive
<1>4. \A e \in Event : e[1] \in F \ (S \union Lost(F, S)) =>
        \A i : <<i, e>> \in r.bucket <=> i = r.stamp[e] /\ i # 0
  BY <1>1 DEF BucketsExact
<1>5. \A e \in Event : e[1] \in Lost(F, S) => \A i : <<i, e>> \in r.bucket => i = r.stamp[e]
  BY <1>1, LostIs DEF BucketsExact
<1>. QED  BY <1>1, <1>2, <1>3, <1>4, <1>5, AssociatedRows

\* A new file: it beats the others of its session, or is beaten.
LEMMA UploadedRows ==
    ASSUME NEW F \in SUBSET LOG, NEW f \in LOG \ F, NEW r, LogRows(r, F)
    PROVE  LogRows(AssociateFiles(r, F \union {f}, {f}), F \union {f})
<1>. DEFINE G == F \union {f}
            lost == Lost(G, {f})
<1>1. /\ IsRows(r) /\ FightRows(r.fight) /\ r.stamp \in [Event -> Nat]
      /\ StampsOK(r, F) /\ BucketsLive(r, F) /\ BucketsExact(r, F)
  BY DEF LogRows
<1>2. \A g : g \in lost <=> g \in G /\ Beaten(G, g) /\ SessionOf[g] = SessionOf[f]
  BY LostIs
<1>. HIDE DEF lost
<1>3. ASSUME NEW g \in LOG, Beaten(G, g), ~Beaten(F, g)
      PROVE  /\ SessionOf[f] = SessionOf[g] /\ ~Covers(g, f)
             /\ g # f => f \notin lost
  <2>1. SessionOf[f] = SessionOf[g] /\ ~Covers(g, f)
    BY <1>3 DEF Beaten
  <2>2. ASSUME f \in lost
        PROVE  FALSE
    <3>1. PICK h \in G : SessionOf[h] = SessionOf[f] /\ ~Covers(f, h)
      BY <1>2, <2>2 DEF Beaten
    <3>2. h \in F /\ h \in LOG
      BY <3>1, CoversOrder
    <3>3. Covers(g, h)
      BY <1>3, <2>1, <3>1, <3>2 DEF Beaten
    <3>4. Covers(h, f)
      BY <3>1, <3>2, CoversOrder
    <3>5. Covers(g, f)
      BY <3>2, <3>3, <3>4, CoversOrder
    <3>. QED  BY <2>1, <3>5
  <2>. QED  BY <2>1, <2>2
<1>4. \A e \in Event : r.stamp[e] # 0 =>
        /\ e[1] \in G /\ Owns(r.fight, r.stamp[e], e[2])
        /\ e[1] \in lost \/ ~Beaten(G, e[1])
  <2>1. ASSUME NEW e \in Event, r.stamp[e] # 0
        PROVE  /\ e[1] \in G /\ Owns(r.fight, r.stamp[e], e[2])
               /\ e[1] \in lost \/ ~Beaten(G, e[1])
    <3>1. e[1] \in F /\ Owns(r.fight, r.stamp[e], e[2]) /\ ~Beaten(F, e[1])
      BY <1>1, <2>1 DEF StampsOK
    <3>2. e[1] \in LOG
      BY EventIs
    <3>. QED  BY <1>2, <1>3, <3>1, <3>2
  <2>. QED  BY <2>1
<1>5. \A x \in r.bucket :
        /\ x = <<x[1], x[2]>> /\ x[2] \in Event
        /\ x[1] \in DOMAIN r.fight /\ InWindow(r.fight[x[1]], x[2][2])
        /\ Beaten(G, x[2][1]) =>
             \E h \in {f} \ lost :
               SessionOf[h] = SessionOf[x[2][1]] /\ x[1] \in Overlapping(r.fight, h)
  <2>1. ASSUME NEW x \in r.bucket
        PROVE  /\ x = <<x[1], x[2]>> /\ x[2] \in Event
               /\ x[1] \in DOMAIN r.fight /\ InWindow(r.fight[x[1]], x[2][2])
               /\ ~Beaten(F, x[2][1])
    BY <1>1 DEF BucketsLive
  <2>2. ASSUME NEW x \in r.bucket, Beaten(G, x[2][1])
        PROVE  /\ f \notin lost /\ SessionOf[f] = SessionOf[x[2][1]]
               /\ x[1] \in Overlapping(r.fight, f)
    <3>. DEFINE g == x[2][1]
    <3>1. g \in LOG /\ x[2][2] \in EventsOf[g]
      BY <2>1, EventIs
    <3>2. SessionOf[f] = SessionOf[g] /\ ~Covers(g, f) /\ (g # f => f \notin lost)
      BY <1>3, <2>1, <2>2, <3>1
    <3>3. g # f
      BY <3>2, CoversOrder
    <3>4. Covers(f, g)
      BY <3>1, <3>2, CoversOrder
    <3>5. Max(EventsOf[g]) <= Max(EventsOf[f])
      BY <3>1, <3>4, CoversOrder
    <3>6. x[1] \in Overlapping(r.fight, f)
      BY <1>1, <2>1, <3>1, <3>2, <3>5, HoldersOverlap
    <3>. QED  BY <3>2, <3>3, <3>6
  <2>. QED  BY <2>1, <2>2
<1>6. \A e \in Event : e[1] \in G \ ({f} \union lost) =>
        \A i : <<i, e>> \in r.bucket <=> i = r.stamp[e] /\ i # 0
  BY <1>1 DEF BucketsExact
<1>7. \A e \in Event : e[1] \in lost => \A i : <<i, e>> \in r.bucket => i = r.stamp[e]
  <2>1. ASSUME NEW e \in Event, e[1] \in lost, NEW i, <<i, e>> \in r.bucket
        PROVE  i = r.stamp[e]
    <3>1. CASE e[1] \in F
      BY <1>1, <2>1, <3>1 DEF BucketsExact
    <3>2. CASE e[1] = f
      <4>1. ~Beaten(F, f)
        <5>1. <<i, e>>[2] = e
          OBVIOUS
        <5>. QED  BY <1>1, <2>1, <3>2, <5>1 DEF BucketsLive
      <4>2. Beaten(G, f)
        BY <1>2, <2>1, <3>2
      <4>. QED  BY <1>3, <4>1, <4>2, CoversOrder
    <3>. QED  BY <1>2, <2>1, <3>1, <3>2
  <2>. QED  BY <2>1
<1>8. G \in SUBSET LOG /\ {f} \in SUBSET G
  OBVIOUS
<1>. HIDE DEF G
<1>. QED  BY <1>1, <1>4, <1>5, <1>6, <1>7, <1>8, AssociatedRows DEF lost, G

\* New parses: their events are not stamped yet, but their buckets are in reach.
LEMMA ReparsedRows ==
    ASSUME NEW F \in SUBSET LOG, NEW S \in SUBSET F, NEW r, LogRows(r, F)
    PROVE  LogRows(AssociateFiles(Emptied(r, S), F, S), F)
<1>. DEFINE p == Emptied(r, S)
<1>1. /\ IsRows(r) /\ FightRows(r.fight) /\ r.stamp \in [Event -> Nat]
      /\ StampsOK(r, F) /\ BucketsLive(r, F) /\ BucketsExact(r, F)
  BY DEF LogRows
<1>2. /\ IsRows(p) /\ p.fight = r.fight /\ p.bucket = r.bucket
      /\ p.stamp = [e \in Event |-> IF e[1] \in S THEN 0 ELSE r.stamp[e]]
  BY <1>1 DEF IsRows, Emptied
<1>. HIDE DEF p
<1>3. p.stamp \in [Event -> Nat] /\ FightRows(p.fight)
  BY <1>1, <1>2
<1>4. \A e \in Event : p.stamp[e] # 0 =>
        /\ e[1] \in F /\ Owns(p.fight, p.stamp[e], e[2])
        /\ e[1] \in Lost(F, S) \/ ~Beaten(F, e[1])
  BY <1>1, <1>2 DEF StampsOK
<1>5. \A x \in p.bucket :
        /\ x = <<x[1], x[2]>> /\ x[2] \in Event
        /\ x[1] \in DOMAIN p.fight /\ InWindow(p.fight[x[1]], x[2][2])
        /\ ~Beaten(F, x[2][1])
  BY <1>1, <1>2 DEF BucketsLive
<1>6. \A e \in Event : e[1] \in F \ (S \union Lost(F, S)) =>
        \A i : <<i, e>> \in p.bucket <=> i = p.stamp[e] /\ i # 0
  BY <1>1, <1>2 DEF BucketsExact
<1>7. \A e \in Event : e[1] \in Lost(F, S) => \A i : <<i, e>> \notin p.bucket
  <2>1. ASSUME NEW e \in Event, e[1] \in Lost(F, S), NEW i, <<i, e>> \in p.bucket
        PROVE  FALSE
    <3>1. <<i, e>>[2] = e
      OBVIOUS
    <3>2. ~Beaten(F, e[1])
      BY <1>5, <2>1, <3>1
    <3>. QED  BY <2>1, <3>2, LostIs
  <2>. QED  BY <2>1
<1>. QED  BY <1>2, <1>3, <1>4, <1>5, <1>6, <1>7, AssociatedRows DEF p

-----------------------------------------------------------------------------
(* What aggregate_br does to the rows.                                     *)

Single(fs) == \A i, j \in DOMAIN fs : fs[i] = fs[j] => i = j

LEMMA PersistedFights ==
    ASSUME NEW fs, FightRows(fs), NEW Cs \in SUBSET ((SUBSET KM) \ {{}}),
           NEW gs \in PersistClusters(fs, Cs)
    PROVE  /\ FightRows(gs)
           /\ \A i \in DOMAIN fs : i \in DOMAIN gs /\ gs[i] = fs[i]
           /\ \A j \in DOMAIN gs \ DOMAIN fs :
                gs[j] \in Cs /\ \A i \in DOMAIN fs : i < j
           /\ \A C \in Cs : \E i \in DOMAIN gs : gs[i] = C
           /\ Single(fs) => Single(gs)
<1>. DEFINE new == {C \in Cs : \A i \in DOMAIN fs : fs[i] # C}
            top == Max(DOMAIN fs \union {0})
            size == Cardinality(new)
            ids == {top + n : n \in 1..size}
<1>1. top \in Nat /\ \A i \in DOMAIN fs : i \in Nat /\ i # 0 /\ i <= top
  <2>1. IsFiniteSet(DOMAIN fs \union {0}) /\ DOMAIN fs \union {0} \subseteq Nat
    BY FS_AddElement DEF FightRows
  <2>2. top \in DOMAIN fs \union {0} /\ \A i \in DOMAIN fs \union {0} : i <= top
    BY <2>1, MaxIsIn
  <2>. QED  BY <2>1, <2>2 DEF FightRows
<1>2. size \in Nat
  <2>1. new \in SUBSET (SUBSET KM) /\ IsFiniteSet(SUBSET KM)
    BY FightStoreAssumption, FS_SUBSET
  <2>. HIDE DEF new
  <2>. QED  BY <2>1, FS_Subset, FS_CardinalityType
<1>. HIDE DEF top, size
<1>3. IsFiniteSet(ids) /\ \A j \in ids : j \in Nat /\ top < j
  <2>1. ids \in SUBSET (top + 1..top + size) /\ \A j \in ids : j \in Nat /\ top < j
    BY <1>1, <1>2
  <2>2. IsFiniteSet(top + 1..top + size)
    BY <1>1, <1>2, FS_Interval
  <2>. HIDE DEF ids
  <2>. QED  BY <2>1, <2>2, FS_Subset
<1>4. PICK m \in Bijection(ids, new) :
        gs = [i \in DOMAIN fs \union ids |-> IF i \in ids THEN m[i] ELSE fs[i]]
  BY DEF PersistClusters, top, size
<1>. HIDE DEF ids
<1>5. /\ \A i \in ids : m[i] \in new
      /\ \A i, j \in ids : m[i] = m[j] => i = j
      /\ \A C \in new : \E i \in ids : m[i] = C
  <2>. HIDE DEF new
  <2>. QED  BY <1>4 DEF Bijection, Injection, Surjection, IsInjective
<1>6. \A i \in DOMAIN fs : i \notin ids
  BY <1>1, <1>3
<1>7. /\ DOMAIN gs = DOMAIN fs \union ids
      /\ \A i \in DOMAIN fs : gs[i] = fs[i]
      /\ \A j \in ids : gs[j] = m[j] /\ gs[j] \in new
  BY <1>4, <1>5, <1>6
<1>8. FightRows(gs)
  <2>1. IsFiniteSet(DOMAIN gs)
    <3>1. IsFiniteSet(DOMAIN fs)
      BY DEF FightRows
    <3>2. IsFiniteSet(DOMAIN fs \union ids)
      BY <1>3, <3>1, FS_Union
    <3>. QED  BY <1>7, <3>2
  <2>2. DOMAIN gs \subseteq Nat \ {0}
    BY <1>1, <1>3, <1>7
  <2>3. \A i \in DOMAIN gs : gs[i] \in (SUBSET KM) \ {{}}
    BY <1>7 DEF FightRows
  <2>. QED  BY <2>1, <2>2, <2>3 DEF FightRows
<1>9. \A j \in DOMAIN gs \ DOMAIN fs : gs[j] \in Cs /\ \A i \in DOMAIN fs : i < j
  BY <1>1, <1>3, <1>7
<1>10. \A C \in Cs : \E i \in DOMAIN gs : gs[i] = C
  BY <1>5, <1>7
<1>11. ASSUME Single(fs)
       PROVE  Single(gs)
  BY <1>5, <1>7, <1>11 DEF Single
<1>. QED  BY <1>7, <1>8, <1>9, <1>10, <1>11

LEMMA FightsOfIs ==
    ASSUME NEW fs, FightRows(fs), NEW Cs, \A C \in Cs : \E i \in DOMAIN fs : fs[i] = C
    PROVE  /\ \A i \in FightsOf(fs, Cs) : i \in DOMAIN fs /\ fs[i] \in Cs
           /\ Single(fs) => \A i \in DOMAIN fs : fs[i] \in Cs => i \in FightsOf(fs, Cs)
<1>. DEFINE Of(C) == {i \in DOMAIN fs : fs[i] = C}
<1>1. \A i : i \in FightsOf(fs, Cs) <=> \E C \in Cs : i = Min(Of(C))
  BY DEF FightsOf
<1>2. \A C \in Cs : Min(Of(C)) \in Of(C)
  <2>1. ASSUME NEW C \in Cs
        PROVE  Of(C) # {} /\ Of(C) \subseteq Nat
    BY <2>1 DEF FightRows
  <2>. HIDE DEF Of
  <2>. QED  BY <2>1, MinIsIn
<1>3. \A i \in FightsOf(fs, Cs) : i \in DOMAIN fs /\ fs[i] \in Cs
  <2>1. ASSUME NEW i \in FightsOf(fs, Cs)
        PROVE  i \in DOMAIN fs /\ fs[i] \in Cs
    <3>1. PICK C \in Cs : i = Min(Of(C))
      BY <1>1
    <3>2. i \in Of(C)
      BY <1>2, <3>1
    <3>. QED  BY <3>2
  <2>. QED  BY <2>1
<1>4. ASSUME Single(fs), NEW i \in DOMAIN fs, fs[i] \in Cs
      PROVE  i \in FightsOf(fs, Cs)
  <2>1. Min(Of(fs[i])) \in Of(fs[i])
    BY <1>2, <1>4
  <2>2. i = Min(Of(fs[i]))
    <3>1. PICK j \in Of(fs[i]) : j = Min(Of(fs[i]))
      BY <2>1
    <3>2. i = j
      BY <1>4 DEF Single
    <3>. QED  BY <3>1, <3>2
  <2>. HIDE DEF Of
  <2>. QED  BY <1>1, <1>4, <2>2
<1>. QED  BY <1>3, <1>4

\* The rows a that aggregating the report b, whose clusters are Cs, leaves of r.
Aggregated(r, b, Cs, a) ==
    /\ a.brFight \in [BR -> SUBSET Nat]
    /\ \A c \in BR : a.brFight[c] \subseteq DOMAIN a.fight
    /\ \A c \in BR \ {b} : a.brFight[c] = r.brFight[c]
    /\ \A i \in a.brFight[b] : a.fight[i] \in Cs
    /\ Single(a.fight)
    /\ \A i \in DOMAIN a.fight :
         \/ i \in DOMAIN r.fight /\ a.fight[i] = r.fight[i]
         \/ a.fight[i] \in Cs /\ \A j \in DOMAIN r.fight : j < i
    /\ \A i \in DOMAIN r.fight : r.fight[i] \in Cs =>
         i \in a.brFight[b] /\ a.fight[i] = r.fight[i]
    /\ \A e \in Event : r.stamp[e] \in DOMAIN a.fight => a.stamp[e] = r.stamp[e]

LEMMA AggregatedRows ==
    ASSUME NEW r, NEW F, LogRows(r, F), Single(r.fight), r.brFight \in [BR -> SUBSET Nat],
           \A c \in BR : r.brFight[c] \subseteq DOMAIN r.fight,
           NEW b \in BR, linked[b] \in SUBSET KM, NEW prev,
           NEW a \in Aggregate(r, b, prev)
    PROVE  LogRows(a, F) /\ Aggregated(r, b, ClustersOf[linked[b]], a)
<1>. DEFINE Cs == ClustersOf[linked[b]]
            Built(fs) == [r EXCEPT !.fight = fs, !.brFight[b] = FightsOf(fs, Cs)]
<1>1. Cs \in SUBSET ((SUBSET KM) \ {{}})
  BY FightStoreAssumption
<1>2. PICK fs \in PersistClusters(r.fight, Cs) :
        a = DropFights(Built(fs), Unreferenced(Built(fs), prev \ Built(fs).brFight[b]))
  BY DEF Aggregate
<1>. DEFINE q == Built(fs)
            gone == Unreferenced(q, prev \ q.brFight[b])
<1>. HIDE DEF Cs
<1>3. IsRows(r) /\ FightRows(r.fight) /\ r.stamp \in [Event -> Nat]
  BY DEF LogRows
<1>4. /\ FightRows(fs)
      /\ \A i \in DOMAIN r.fight : i \in DOMAIN fs /\ fs[i] = r.fight[i]
      /\ \A j \in DOMAIN fs \ DOMAIN r.fight :
           fs[j] \in Cs /\ \A i \in DOMAIN r.fight : i < j
      /\ \A C \in Cs : \E i \in DOMAIN fs : fs[i] = C
      /\ Single(fs)
  BY <1>1, <1>3, PersistedFights
<1>5. /\ IsRows(q) /\ q.fight = fs /\ q.stamp = r.stamp /\ q.bucket = r.bucket
      /\ q.brFight = [r.brFight EXCEPT ![b] = FightsOf(fs, Cs)]
  BY <1>3 DEF IsRows
<1>6. a = DropFights(q, gone)
  BY <1>2
<1>. HIDE DEF q, Built
<1>7. /\ \A i \in FightsOf(fs, Cs) : i \in DOMAIN fs /\ fs[i] \in Cs
      /\ \A i \in DOMAIN fs : fs[i] \in Cs => i \in FightsOf(fs, Cs)
  BY <1>4, FightsOfIs
<1>8. q.brFight[b] = FightsOf(fs, Cs) /\ \A c \in BR \ {b} : q.brFight[c] = r.brFight[c]
  BY <1>5
<1>9. LogRows(q, F)
  <2>1. \A i \in DOMAIN r.fight : i \in DOMAIN q.fight /\ q.fight[i] = r.fight[i]
    BY <1>4, <1>5
  <2>2. \A i \in DOMAIN r.fight : \A j \in DOMAIN q.fight \ DOMAIN r.fight : i <= j
    BY <1>3, <1>4, <1>5 DEF FightRows
  <2>. QED  BY <1>4, <1>5, <2>1, <2>2, GrownRows
<1>10. \A i \in gone : \A c \in BR : i \notin q.brFight[c]
  BY DEF Unreferenced
<1>. HIDE DEF gone
<1>11. /\ a.brFight = q.brFight
       /\ DOMAIN a.fight = DOMAIN fs \ gone
       /\ \A i \in DOMAIN a.fight : a.fight[i] = fs[i]
       /\ \A e \in Event : a.stamp[e] = IF r.stamp[e] \in gone THEN 0 ELSE r.stamp[e]
       /\ LogRows(a, F)
  BY <1>5, <1>6, <1>9, DropFightsRows
<1>12. a.brFight \in [BR -> SUBSET Nat]
  <2>1. FightsOf(fs, Cs) \in SUBSET Nat
    BY <1>4, <1>7 DEF FightRows
  <2>. QED  BY <1>5, <1>11, <2>1
<1>13. \A c \in BR : a.brFight[c] \subseteq DOMAIN a.fight
  <2>1. ASSUME NEW c \in BR, NEW i \in a.brFight[c]
        PROVE  i \in DOMAIN fs /\ i \notin gone
    <3>1. i \in q.brFight[c] /\ i \notin gone
      BY <1>10, <1>11, <2>1
    <3>2. CASE c = b
      BY <1>7, <1>8, <3>1, <3>2
    <3>3. CASE c # b
      BY <1>4, <1>8, <3>1, <3>3
    <3>. QED  BY <3>1, <3>2, <3>3
  <2>. QED  BY <1>11, <2>1
<1>14. \A i \in a.brFight[b] : a.fight[i] \in Cs
  BY <1>7, <1>8, <1>11, <1>13
<1>15. Single(a.fight)
  BY <1>4, <1>11 DEF Single
<1>16. \A i \in DOMAIN a.fight :
         \/ i \in DOMAIN r.fight /\ a.fight[i] = r.fight[i]
         \/ a.fight[i] \in Cs /\ \A j \in DOMAIN r.fight : j < i
  BY <1>4, <1>11
<1>17. \A i \in DOMAIN r.fight : r.fight[i] \in Cs =>
         i \in a.brFight[b] /\ a.fight[i] = r.fight[i]
  <2>1. ASSUME NEW i \in DOMAIN r.fight, r.fight[i] \in Cs
        PROVE  i \in a.brFight[b] /\ a.fight[i] = r.fight[i]
    <3>1. i \in DOMAIN fs /\ fs[i] = r.fight[i]
      BY <1>4
    <3>2. i \in a.brFight[b]
      BY <1>7, <1>8, <1>11, <2>1, <3>1
    <3>3. i \in DOMAIN a.fight
      BY <1>13, <3>2
    <3>. QED  BY <1>11, <3>1, <3>2, <3>3
  <2>. QED  BY <2>1
<1>18. \A e \in Event : r.stamp[e] \in DOMAIN a.fight => a.stamp[e] = r.stamp[e]
  BY <1>11
<1>19. \A c \in BR \ {b} : a.brFight[c] = r.brFight[c]
  BY <1>8, <1>11
<1>20. Aggregated(r, b, Cs, a)
  BY <1>12, <1>13, <1>14, <1>15, <1>16, <1>17, <1>18, <1>19 DEF Aggregated
<1>. QED  BY <1>11, <1>20 DEF Cs

-----------------------------------------------------------------------------
(* The inductive invariant.                                                *)

FightTypeOK ==
    /\ report \in SUBSET BR /\ linked \in [BR -> SUBSET KM] /\ file \in SUBSET LOG
    /\ IsFiniteSet(file)
    /\ deleting \in [BR -> SUBSET Nat] /\ dropping \in [LOG -> SUBSET Nat]
    /\ reparse.old \in SUBSET Nat

\* What has been read of the stamps of a file is fights, not the lack of one.
ReadsAreFights ==
    /\ \A f \in LOG : dropping[f] = NotRead \/ 0 \notin dropping[f]
    /\ 0 \notin reparse.old

FightInv ==
    /\ FightTypeOK /\ ReadsAreFights
    /\ LogRows(Rows, file) /\ brFight \in [BR -> SUBSET Nat]
    /\ ForeignKeysHold /\ NoTwinFights

LEMMA RowsAre ==
    /\ IsRows(Rows) /\ Rows.fight = fight /\ Rows.brFight = brFight
    /\ Rows.stamp = stamp /\ Rows.bucket = bucket
BY DEF IsRows, Rows

LEMMA CommittedRows ==
    ASSUME NEW q, Commit(q), NEW F, F = file', LogRows(q, F)
    PROVE  LogRows(Rows, file)'
<1>1. fight' = q.fight /\ stamp' = q.stamp /\ bucket' = q.bucket
  BY DEF Commit
<1>2. /\ (Rows').fight = q.fight /\ (Rows').stamp = q.stamp /\ (Rows').bucket = q.bucket
      /\ DOMAIN (Rows') = {"fight", "brFight", "stamp", "bucket"}
  BY <1>1 DEF Rows
<1>. QED  BY <1>2 DEF LogRows, IsRows, StampsOK, BucketsLive, BucketsExact

LEMMA StampedFights ==
    ASSUME LogRows(Rows, file), NEW f
    PROVE  StampedIn(Rows, {f}) \in SUBSET Nat /\ 0 \notin StampedIn(Rows, {f})
<1>1. Rows.stamp \in [Event -> Nat]
  BY DEF LogRows
<1>. QED  BY <1>1 DEF StampedIn, EventsIn

LEMMA FightInvInit == Init => FightInv
<1>. SUFFICES ASSUME Init PROVE FightInv
  OBVIOUS
<1>1. FightTypeOK /\ ReadsAreFights /\ brFight \in [BR -> SUBSET Nat]
  BY FS_EmptySet DEF Init, FightTypeOK, ReadsAreFights, NotRead, NoReparse
<1>2. DOMAIN fight = {} /\ bucket = {} /\ file = {} /\ \A e \in Event : stamp[e] = 0
  BY DEF Init
<1>3. LogRows(Rows, file)
  <2>1. FightRows(Rows.fight)
    BY <1>2, RowsAre, FS_EmptySet DEF FightRows
  <2>2. Rows.stamp \in [Event -> Nat]
    BY RowsAre DEF Init
  <2>3. StampsOK(Rows, file) /\ BucketsLive(Rows, file) /\ BucketsExact(Rows, file)
    BY <1>2, RowsAre DEF StampsOK, BucketsLive, BucketsExact
  <2>. QED  BY <2>1, <2>2, <2>3, RowsAre DEF LogRows
<1>4. ForeignKeysHold /\ NoTwinFights
  BY <1>2 DEF Init, ForeignKeysHold, NoTwinFights, Fights
<1>. QED  BY <1>1, <1>3, <1>4 DEF FightInv

\* A step that leaves fights, links and killmails alone.
LEMMA LogStepInv ==
    ASSUME FightInv, FightTypeOK', ReadsAreFights', LogRows(Rows, file)',
           UNCHANGED <<report, linked, killmail, fight, brFight>>
    PROVE  FightInv'
BY DEF FightInv, ForeignKeysHold, NoTwinFights, Fights

\* A step that only reads, or whose writes are not of these tables.
LEMMA ReadStepInv ==
    ASSUME FightInv, FightTypeOK', ReadsAreFights',
           UNCHANGED <<report, linked, killmail, fight, brFight, file, stamp, bucket>>
    PROVE  FightInv'
<1>1. LogRows(Rows, file) /\ Rows' = Rows /\ file' = file
  BY DEF FightInv, Rows
<1>2. LogRows(Rows, file)'
  BY <1>1 DEF LogRows, StampsOK, BucketsLive, BucketsExact
<1>. QED  BY <1>2, LogStepInv

LEMMA UploadLogInv ==
    ASSUME FightInv, NEW f \in LOG, UploadLog(f)
    PROVE  FightInv'
<1>1. PICK F, r : F = file /\ r = Rows
  OBVIOUS
<1>2. FightTypeOK /\ ReadsAreFights /\ LogRows(r, F) /\ F \in SUBSET LOG
  BY <1>1 DEF FightInv, FightTypeOK
<1>3. /\ f \notin F /\ file' = F \union {f} /\ Commit(AssociateFiles(Rows, file', {f}))
      /\ UNCHANGED <<report, linked, killmail, ingest, deleting, dropping, reparse>>
  BY <1>1 DEF UploadLog
<1>4. PICK q : q = AssociateFiles(r, F \union {f}, {f})
  OBVIOUS
<1>5. Commit(q)
  BY <1>1, <1>3, <1>4
<1>6. LogRows(q, F \union {f})
  BY <1>2, <1>3, <1>4, UploadedRows
<1>7. Associated(r, F \union {f}, {f}, q)
  BY <1>2, <1>3, <1>4, AssociatedFields DEF LogRows
<1>8. fight' = fight /\ brFight' = brFight
  BY <1>1, <1>5, <1>7, RowsAre DEF Commit, Associated
<1>9. PICK G : G = F \union {f}
  OBVIOUS
<1>10. LogRows(Rows, file)'
  BY <1>3, <1>5, <1>6, <1>9, CommittedRows
<1>11. FightTypeOK' /\ ReadsAreFights'
  <2>1. IsFiniteSet(file')
    BY <1>1, <1>2, <1>3, FS_AddElement DEF FightTypeOK
  <2>. QED  BY <1>2, <1>3, <2>1 DEF FightTypeOK, ReadsAreFights
<1>. QED  BY <1>3, <1>8, <1>10, <1>11, LogStepInv

LEMMA DeleteLogReadInv ==
    ASSUME FightInv, NEW f \in LOG, DeleteLogRead(f)
    PROVE  FightInv'
<1>1. FightTypeOK /\ ReadsAreFights /\ LogRows(Rows, file)
  BY DEF FightInv
<1>2. /\ dropping' = [dropping EXCEPT ![f] = StampedIn(Rows, {f})]
      /\ UNCHANGED <<battleVars, logVars, ingest, deleting, reparse>>
  BY DEF DeleteLogRead
<1>3. StampedIn(Rows, {f}) \in SUBSET Nat /\ 0 \notin StampedIn(Rows, {f})
  BY <1>1, StampedFights
<1>4. FightTypeOK' /\ ReadsAreFights'
  BY <1>1, <1>2, <1>3 DEF FightTypeOK, ReadsAreFights, battleVars, logVars
<1>. QED  BY <1>2, <1>4, ReadStepInv DEF battleVars, logVars

\* The rows once f is gone and the fights it was in are summed again.
LEMMA LogGoneRows ==
    ASSUME NEW F \in SUBSET LOG, NEW f \in LOG, NEW r, LogRows(r, F), NEW pairs,
           \A i, c : <<i, c>> \in pairs => i # 0,
           NEW p, p = RebuildBuckets(Emptied(r, {f}), pairs)
    PROVE  LogRows(p, F \ {f}) /\ p.fight = r.fight /\ p.brFight = r.brFight
<1>. DEFINE q == Emptied(r, {f})
<1>1. /\ IsRows(r) /\ FightRows(r.fight) /\ r.stamp \in [Event -> Nat]
      /\ StampsOK(r, F) /\ BucketsLive(r, F) /\ BucketsExact(r, F)
  BY DEF LogRows
<1>2. /\ IsRows(q) /\ q.fight = r.fight /\ q.brFight = r.brFight /\ q.bucket = r.bucket
      /\ q.stamp = [e \in Event |-> IF e[1] \in {f} THEN 0 ELSE r.stamp[e]]
  BY <1>1 DEF IsRows, Emptied
<1>. HIDE DEF q
<1>3. q.stamp \in [Event -> Nat]
  BY <1>1, <1>2
<1>4. StampsOK(q, F \ {f})
  BY <1>1, <1>2, BeatenMore DEF StampsOK
<1>5. BucketsLive(q, F \ {f})
  BY <1>1, <1>2, BeatenMore DEF BucketsLive
<1>6. BucketsExact(q, F \ {f})
  BY <1>1, <1>2 DEF BucketsExact
<1>7. LogRows(q, F \ {f})
  BY <1>1, <1>2, <1>3, <1>4, <1>5, <1>6 DEF LogRows
<1>8. p = RebuildBuckets(q, pairs)
  BY DEF q
<1>9. LogRows(p, F \ {f})
  BY <1>7, <1>8, RebuiltRows
<1>10. p.fight = q.fight /\ p.brFight = q.brFight
  BY <1>2, <1>8, RebuiltFields
<1>. QED  BY <1>2, <1>9, <1>10

LEMMA DeleteLogWriteInv ==
    ASSUME FightInv, NEW f \in LOG, DeleteLogWrite(f)
    PROVE  FightInv'
<1>1. PICK F, r : F = file /\ r = Rows
  OBVIOUS
<1>2. FightTypeOK /\ ReadsAreFights /\ LogRows(r, F) /\ F \in SUBSET LOG
  BY <1>1 DEF FightInv, FightTypeOK
<1>3. PICK pairs, p, S, q :
        /\ pairs = dropping[f] \X {CharOf[f]}
        /\ p = RebuildBuckets(Emptied(r, {f}), pairs)
        /\ S = {g \in F \ {f} : SessionOf[g] = SessionOf[f]}
        /\ q = AssociateFiles(p, F \ {f}, S)
  OBVIOUS
<1>4. /\ dropping[f] # NotRead /\ file' = F \ {f} /\ Commit(q)
      /\ dropping' = [dropping EXCEPT ![f] = NotRead]
      /\ UNCHANGED <<report, linked, killmail, ingest, deleting, reparse>>
  BY <1>1, <1>3 DEF DeleteLogWrite
<1>5. \A i, c : <<i, c>> \in pairs => i # 0
  BY <1>2, <1>3, <1>4 DEF ReadsAreFights
<1>6. LogRows(p, F \ {f}) /\ p.fight = r.fight /\ p.brFight = r.brFight
  <2>1. F \in SUBSET LOG /\ LogRows(r, F) /\ p = RebuildBuckets(Emptied(r, {f}), pairs)
    BY <1>2, <1>3
  <2>. QED  BY ONLY f \in LOG, <1>5, <2>1, LogGoneRows
<1>7. F \ {f} \in SUBSET LOG /\ S \in SUBSET (F \ {f})
  BY <1>2, <1>3
<1>8. LogRows(q, F \ {f})
  BY <1>3, <1>6, <1>7, AssociatedAgain
<1>9. Associated(p, F \ {f}, S, q)
  BY <1>3, <1>6, <1>7, AssociatedFields DEF LogRows
<1>10. fight' = fight /\ brFight' = brFight
  BY <1>1, <1>4, <1>6, <1>9, RowsAre DEF Commit, Associated
<1>11. PICK G : G = F \ {f}
  OBVIOUS
<1>12. LogRows(Rows, file)'
  BY <1>4, <1>8, <1>11, CommittedRows
<1>13. FightTypeOK' /\ ReadsAreFights'
  <2>1. IsFiniteSet(file')
    BY <1>1, <1>2, <1>4, FS_RemoveElement DEF FightTypeOK
  <2>. QED  BY <1>2, <1>4, <2>1 DEF FightTypeOK, ReadsAreFights, NotRead
<1>. QED  BY <1>4, <1>10, <1>12, <1>13, LogStepInv

LEMMA ReparseReadInv ==
    ASSUME FightInv, ReparseRead
    PROVE  FightInv'
<1>1. FightTypeOK /\ ReadsAreFights /\ LogRows(Rows, file)
  BY DEF FightInv
<1>2. /\ reparse' = [files |-> file, old |-> StampedIn(Rows, {Min(file)})]
      /\ UNCHANGED <<battleVars, logVars, ingest, deleting, dropping>>
  BY DEF ReparseRead
<1>3. PICK f : f = Min(file)
  OBVIOUS
<1>4. reparse'.old \in SUBSET Nat /\ 0 \notin reparse'.old
  BY <1>1, <1>2, <1>3, StampedFights
<1>5. FightTypeOK' /\ ReadsAreFights'
  BY <1>1, <1>2, <1>4 DEF FightTypeOK, ReadsAreFights, battleVars, logVars
<1>. QED  BY <1>2, <1>5, ReadStepInv DEF battleVars, logVars

LEMMA ReparseWriteInv ==
    ASSUME FightInv, NEW S \in SUBSET LOG, ReparseWrite(S)
    PROVE  FightInv'
<1>1. PICK F, r : F = file /\ r = Rows
  OBVIOUS
<1>2. FightTypeOK /\ ReadsAreFights /\ LogRows(r, F) /\ F \in SUBSET LOG
  BY <1>1 DEF FightInv, FightTypeOK
<1>3. /\ S \subseteq reparse.files /\ reparse' = NoReparse
      /\ UNCHANGED <<report, linked, killmail, file, ingest, deleting, dropping>>
  BY DEF ReparseWrite
<1>4. FightTypeOK' /\ ReadsAreFights'
  BY <1>2, <1>3 DEF FightTypeOK, ReadsAreFights, NoReparse
<1>5. CASE reparse.files \subseteq file
  <2>. DEFINE Old(f) == IF f = Min(reparse.files) THEN reparse.old ELSE StampedIn(Rows, {f})
  <2>1. PICK pairs, p, q :
          /\ pairs = UNION {Old(f) \X {CharOf[f]} : f \in S}
          /\ p = AssociateFiles(Emptied(r, S), F, S)
          /\ q = RebuildBuckets(p, pairs)
    OBVIOUS
  <2>2. Commit(q)
    BY <1>1, <1>5, <2>1 DEF ReparseWrite
  <2>3. \A i, c : <<i, c>> \in pairs => i # 0
    <3>1. \A f \in S : 0 \notin Old(f)
      BY <1>1, <1>2, StampedFights DEF ReadsAreFights
    <3>. HIDE DEF Old
    <3>. QED  BY <2>1, <3>1
  <2>4. S \in SUBSET F
    BY <1>1, <1>3, <1>5
  <2>5. LogRows(p, F)
    BY <1>2, <2>1, <2>4, ReparsedRows
  <2>6. LogRows(q, F)
    BY <2>1, <2>3, <2>5, RebuiltRows
  <2>7. p.fight = r.fight /\ p.brFight = r.brFight
    <3>1. PICK e : e = Emptied(r, S)
      OBVIOUS
    <3>2. /\ IsRows(e) /\ e.fight = r.fight /\ e.brFight = r.brFight
          /\ e.stamp = [x \in Event |-> IF x[1] \in S THEN 0 ELSE r.stamp[x]]
      BY <1>2, <3>1 DEF LogRows, IsRows, Emptied
    <3>3. FightRows(e.fight) /\ e.stamp \in [Event -> Nat]
      BY <1>2, <3>2 DEF LogRows
    <3>4. Associated(e, F, S, p)
      BY <1>2, <2>1, <2>4, <3>1, <3>2, <3>3, AssociatedFields
    <3>. QED  BY <3>2, <3>4 DEF Associated
  <2>8. q.fight = p.fight /\ q.brFight = p.brFight
    BY <2>1, <2>5, RebuiltFields DEF LogRows
  <2>9. fight' = fight /\ brFight' = brFight
    BY <1>1, <2>2, <2>7, <2>8, RowsAre DEF Commit
  <2>10. LogRows(Rows, file)'
    BY <1>1, <1>3, <2>2, <2>6, CommittedRows
  <2>. QED  BY <1>3, <1>4, <2>9, <2>10, LogStepInv
<1>6. CASE ~(reparse.files \subseteq file)
  <2>1. UNCHANGED <<fight, brFight, stamp, bucket>>
    BY <1>6 DEF ReparseWrite
  <2>. QED  BY <1>3, <1>4, <2>1, ReadStepInv
<1>. QED  BY <1>5, <1>6

\* A step of the reports: what it writes of fights and links, and that the
\* foreign keys and the kill sets are in order afterwards.
LEMMA AggregatedKeys ==
    ASSUME FightInv, NEW b \in BR, NEW prev, NEW a, a \in Aggregate(Rows, b, prev)
    PROVE  /\ LogRows(a, file) /\ Single(a.fight) /\ a.brFight \in [BR -> SUBSET Nat]
           /\ \A c \in BR : a.brFight[c] \subseteq DOMAIN a.fight
           /\ \A c \in BR : c \notin report => a.brFight[c] = {}
           /\ \A i \in DOMAIN a.fight : a.fight[i] \subseteq killmail
           /\ Aggregated(Rows, b, ClustersOf[linked[b]], a)
<1>1. PICK F, r : F = file /\ r = Rows
  OBVIOUS
<1>2. LogRows(r, F) /\ r.fight = fight /\ r.brFight = brFight
  BY <1>1, RowsAre DEF FightInv
<1>3. /\ Single(fight) /\ brFight \in [BR -> SUBSET Nat] /\ linked[b] \in SUBSET KM
      /\ \A c \in BR : brFight[c] \subseteq DOMAIN fight
      /\ \A c \in BR : c \notin report => linked[c] = {} /\ brFight[c] = {}
      /\ \A i \in DOMAIN fight : fight[i] \subseteq killmail
      /\ linked[b] \subseteq killmail
  BY DEF FightInv, FightTypeOK, ForeignKeysHold, NoTwinFights, Fights, Single
<1>4. LogRows(a, F) /\ Aggregated(r, b, ClustersOf[linked[b]], a)
  <2>1. a \in Aggregate(r, b, prev)
    BY <1>1
  <2>. QED  BY <1>2, <1>3, <2>1, AggregatedRows
<1>5. /\ Single(a.fight) /\ a.brFight \in [BR -> SUBSET Nat]
      /\ \A c \in BR : a.brFight[c] \subseteq DOMAIN a.fight
      /\ \A c \in BR \ {b} : a.brFight[c] = brFight[c]
      /\ \A i \in a.brFight[b] : a.fight[i] \in ClustersOf[linked[b]]
      /\ \A i \in DOMAIN a.fight : \/ i \in DOMAIN fight /\ a.fight[i] = fight[i]
                                   \/ a.fight[i] \in ClustersOf[linked[b]]
  BY <1>2, <1>4 DEF Aggregated
<1>6. UNION ClustersOf[linked[b]] = linked[b]
      /\ ClustersOf[linked[b]] \in SUBSET ((SUBSET KM) \ {{}})
  <2>1. PICK K \in SUBSET KM : K = linked[b]
    BY <1>3
  <2>2. ClustersOf[K] \in SUBSET ((SUBSET KM) \ {{}})
    BY FightStoreAssumption
  <2>3. UNION ClustersOf[K] = K
    BY FightStoreAssumption
  <2>. QED  BY <2>1, <2>2, <2>3
<1>7. \A c \in BR : c \notin report => a.brFight[c] = {}
  <2>1. ASSUME b \notin report
        PROVE  a.brFight[b] = {}
    <3>1. linked[b] = {}
      BY <1>3, <2>1
    <3>2. ClustersOf[linked[b]] = {}
      BY <1>6, <3>1
    <3>. QED  BY <1>5, <3>2
  <2>. QED  BY <1>3, <1>5, <2>1
<1>8. \A i \in DOMAIN a.fight : a.fight[i] \subseteq killmail
  <2>1. \A C \in ClustersOf[linked[b]] : C \subseteq killmail
    BY <1>3, <1>6
  <2>. QED  BY <1>3, <1>5, <2>1
<1>. QED  BY <1>1, <1>4, <1>5, <1>7, <1>8

\* Committing them, with or without the logs associated again.
LEMMA AggregatedStepInv ==
    ASSUME FightInv, NEW b \in BR, NEW prev, NEW a, a \in Aggregate(Rows, b, prev),
           NEW q, Commit(q), LogRows(q, file), q.fight = a.fight, q.brFight = a.brFight,
           FightTypeOK', ReadsAreFights', UNCHANGED <<report, linked, killmail, file>>
    PROVE  FightInv'
<1>1. /\ Single(a.fight) /\ a.brFight \in [BR -> SUBSET Nat]
      /\ \A c \in BR : a.brFight[c] \subseteq DOMAIN a.fight
      /\ \A c \in BR : c \notin report => a.brFight[c] = {}
      /\ \A i \in DOMAIN a.fight : a.fight[i] \subseteq killmail
  BY AggregatedKeys
<1>2. fight' = a.fight /\ brFight' = a.brFight
  BY DEF Commit
<1>3. ForeignKeysHold' /\ NoTwinFights' /\ brFight' \in [BR -> SUBSET Nat]
  BY <1>1, <1>2 DEF FightInv, ForeignKeysHold, NoTwinFights, Fights, Single
<1>4. LogRows(Rows, file)'
  <2>1. PICK F : F = file
    OBVIOUS
  <2>. QED  BY <2>1, CommittedRows
<1>. QED  BY <1>3, <1>4 DEF FightInv

LEMMA IngestLinkInv ==
    ASSUME FightInv, NEW b \in BR, IngestLink(b)
    PROVE  FightInv'
<1>1. FightTypeOK /\ ReadsAreFights /\ ForeignKeysHold /\ NoTwinFights
      /\ LogRows(Rows, file) /\ brFight \in [BR -> SUBSET Nat]
  BY DEF FightInv
<1>2. PICK K \in SUBSET KM : /\ killmail' = killmail \union K
                             /\ linked' = [linked EXCEPT ![b] = @ \union K]
  BY DEF IngestLink
<1>3. b \in report /\ UNCHANGED <<report, fight, brFight, logVars, deleting, dropping, reparse>>
  BY DEF IngestLink
<1>4. linked' \in [BR -> SUBSET KM] /\ \A c \in BR : linked'[c] \subseteq linked[c] \union K
                                     /\ (c # b => linked'[c] = linked[c])
  BY <1>1, <1>2 DEF FightTypeOK
<1>5. FightTypeOK' /\ ReadsAreFights'
  BY <1>1, <1>3, <1>4 DEF FightTypeOK, ReadsAreFights, logVars
<1>6. ForeignKeysHold' /\ NoTwinFights'
  BY <1>1, <1>2, <1>3, <1>4 DEF ForeignKeysHold, NoTwinFights, Fights
<1>7. LogRows(Rows, file)' /\ brFight' \in [BR -> SUBSET Nat]
  <2>1. Rows' = Rows /\ file' = file
    BY <1>3 DEF Rows, logVars
  <2>. QED  BY <1>1, <1>3, <2>1 DEF LogRows, StampsOK, BucketsLive, BucketsExact
<1>. QED  BY <1>5, <1>6, <1>7 DEF FightInv

LEMMA IngestReadsInv ==
    ASSUME FightInv, NEW b \in BR, IngestRead(b) \/ IngestFails(b)
    PROVE  FightInv'
<1>1. UNCHANGED <<battleVars, logVars, deleting, dropping, reparse>>
  BY DEF IngestRead, IngestFails
<1>2. FightTypeOK' /\ ReadsAreFights'
  BY <1>1 DEF FightInv, FightTypeOK, ReadsAreFights, battleVars, logVars
<1>. QED  BY <1>1, <1>2, ReadStepInv DEF battleVars, logVars

LEMMA IngestWriteInv ==
    ASSUME FightInv, NEW b \in BR, IngestWrite(b)
    PROVE  FightInv'
<1>1. PICK a \in Aggregate(Rows, b, ingest.prev) : Commit(AssociateLogs(a, b))
  BY DEF IngestWrite
<1>2. PICK F, prev : F = file /\ prev = ingest.prev
  OBVIOUS
<1>3. PICK S, q : /\ S = {f \in F : Overlapping(a.fight, f) \cap a.brFight[b] # {}}
                  /\ q = AssociateFiles(a, F, S)
  OBVIOUS
<1>4. Commit(q)
  BY <1>1, <1>2, <1>3 DEF AssociateLogs
<1>5. F \in SUBSET LOG /\ S \in SUBSET F
  BY <1>2, <1>3 DEF FightInv, FightTypeOK
<1>6. LogRows(a, F)
  BY <1>1, <1>2, AggregatedKeys
<1>7. LogRows(q, F)
  BY <1>3, <1>5, <1>6, AssociatedAgain
<1>8. Associated(a, F, S, q)
  BY <1>3, <1>5, <1>6, AssociatedFields DEF LogRows
<1>9. q.fight = a.fight /\ q.brFight = a.brFight
  BY <1>8 DEF Associated
<1>10. UNCHANGED <<report, linked, killmail, file, deleting, dropping, reparse>>
  BY DEF IngestWrite
<1>11. FightTypeOK' /\ ReadsAreFights'
  BY <1>10 DEF FightInv, FightTypeOK, ReadsAreFights
<1>. QED  BY <1>1, <1>2, <1>4, <1>7, <1>9, <1>10, <1>11, AggregatedStepInv

LEMMA OverrideSideInv ==
    ASSUME FightInv, NEW b \in BR, OverrideSide(b)
    PROVE  FightInv'
<1>1. PICK a \in Aggregate(Rows, b, brFight[b]) : Commit(a)
  BY DEF OverrideSide
<1>2. PICK prev : prev = brFight[b]
  OBVIOUS
<1>3. LogRows(a, file)
  BY <1>1, <1>2, AggregatedKeys
<1>4. UNCHANGED <<report, linked, killmail, file, deleting, dropping, reparse>>
  BY DEF OverrideSide
<1>5. FightTypeOK' /\ ReadsAreFights'
  BY <1>4 DEF FightInv, FightTypeOK, ReadsAreFights
<1>. QED  BY <1>1, <1>2, <1>3, <1>4, <1>5, AggregatedStepInv

LEMMA DeleteBrReadInv ==
    ASSUME FightInv, NEW b \in BR, DeleteBrRead(b)
    PROVE  FightInv'
<1>1. /\ deleting' = [deleting EXCEPT ![b] = brFight[b]]
      /\ UNCHANGED <<battleVars, logVars, ingest, dropping, reparse>>
  BY DEF DeleteBrRead
<1>2. FightTypeOK' /\ ReadsAreFights'
  BY <1>1 DEF FightInv, FightTypeOK, ReadsAreFights, battleVars, logVars
<1>. QED  BY <1>1, <1>2, ReadStepInv DEF battleVars, logVars

LEMMA DeleteBrWriteInv ==
    ASSUME FightInv, NEW b \in BR, DeleteBrWrite(b)
    PROVE  FightInv'
<1>1. PICK F, r, gone, s, left :
        /\ F = file /\ r = Rows
        /\ s = [r EXCEPT !.brFight[b] = {}]
        /\ gone = Unreferenced(s, deleting[b])
        /\ left = DropFights(s, gone)
  OBVIOUS
<1>2. PICK mine, A, V :
        /\ A = UNION {linked[c] : c \in BR \ {b}}
        /\ V = {left.fight[i] : i \in DOMAIN left.fight}
        /\ Commit(left) /\ killmail' = killmail \ (mine \ (A \union UNION V))
  <2>. DEFINE unlinked == [Rows EXCEPT !.brFight[b] = {}]
              gone2 == DropFights(unlinked, Unreferenced(unlinked, deleting[b]))
              mine2 == linked[b] \union UNION {fight[i] : i \in deleting[b] \cap Fights}
              A2 == UNION {linked[c] : c \in BR \ {b}}
              V2 == {gone2.fight[i] : i \in DOMAIN gone2.fight}
  <2>1. left = gone2
    BY <1>1
  <2>2. Commit(gone2) /\ killmail' = killmail \ (mine2 \ (A2 \union UNION V2))
    BY Zenon DEF DeleteBrWrite
  <2>3. V2 = {left.fight[i] : i \in DOMAIN left.fight}
    <3>. HIDE DEF gone2
    <3>. QED  BY <2>1
  <2>4. A2 = UNION {linked[c] : c \in BR \ {b}}
    OBVIOUS
  <2>. HIDE DEF gone2, mine2, A2, V2
  <2>. QED  BY <2>1, <2>2, <2>3, <2>4
<1>3. /\ linked' = [linked EXCEPT ![b] = {}] /\ report' = report \ {b}
      /\ deleting' = [deleting EXCEPT ![b] = NotRead]
      /\ UNCHANGED <<file, ingest, dropping, reparse>>
  BY DEF DeleteBrWrite
<1>4. /\ FightTypeOK /\ ReadsAreFights /\ ForeignKeysHold /\ NoTwinFights
      /\ LogRows(r, F) /\ brFight \in [BR -> SUBSET Nat]
  BY <1>1 DEF FightInv
<1>5. /\ IsRows(r) /\ r.fight = fight /\ r.brFight = brFight
  BY <1>1, RowsAre
<1>6. /\ IsRows(s) /\ s.fight = fight /\ s.stamp = r.stamp /\ s.bucket = r.bucket
      /\ s.brFight = [brFight EXCEPT ![b] = {}]
  BY <1>1, <1>5 DEF IsRows
<1>7. LogRows(s, F)
  <2>1. FightRows(s.fight)
    BY <1>4, <1>5, <1>6 DEF LogRows
  <2>. QED  BY <1>4, <1>5, <1>6, <2>1, GrownRows
<1>8. /\ left.brFight = s.brFight
      /\ DOMAIN left.fight = DOMAIN fight \ gone
      /\ \A i \in DOMAIN left.fight : left.fight[i] = fight[i]
      /\ LogRows(left, F)
  <2>1. /\ left.brFight = s.brFight
        /\ DOMAIN left.fight = DOMAIN s.fight \ gone
        /\ \A i \in DOMAIN left.fight : left.fight[i] = s.fight[i]
        /\ LogRows(left, F)
    <3>1. left = DropFights(s, gone)
      BY <1>1
    <3>. QED  BY ONLY <1>7, <3>1, DropFightsRows
  <2>. QED  BY <1>6, <2>1
<1>9. \A i \in gone : \A c \in BR : i \notin s.brFight[c]
  BY <1>1 DEF Unreferenced
<1>10. fight' = left.fight /\ brFight' = [brFight EXCEPT ![b] = {}]
  BY <1>2, <1>6, <1>8 DEF Commit
<1>11. LogRows(Rows, file)'
  BY <1>1, <1>2, <1>3, <1>8, CommittedRows
<1>12. FightTypeOK' /\ ReadsAreFights'
  BY <1>3, <1>4 DEF FightTypeOK, ReadsAreFights, NotRead
<1>13. \A c \in BR : /\ linked'[c] = IF c = b THEN {} ELSE linked[c]
                     /\ brFight'[c] = IF c = b THEN {} ELSE brFight[c]
                     /\ brFight'[c] = s.brFight[c]
  BY <1>3, <1>4, <1>6, <1>10 DEF FightTypeOK
<1>14. /\ \A c \in BR \ {b} : linked[c] \subseteq A \union UNION V
       /\ \A i \in DOMAIN left.fight : left.fight[i] \subseteq A \union UNION V
  <2>1. ASSUME NEW c \in BR \ {b}
        PROVE  linked[c] \subseteq A
    BY <1>2
  <2>2. ASSUME NEW i \in DOMAIN left.fight
        PROVE  left.fight[i] \in V
    BY <1>2
  <2>. QED  BY ONLY <2>1, <2>2
<1>15. ForeignKeysHold'
  <2>1. ASSUME NEW c \in BR
        PROVE  linked'[c] \subseteq killmail' /\ brFight'[c] \subseteq DOMAIN fight'
    <3>1. linked'[c] \subseteq killmail'
      BY <1>2, <1>4, <1>13, <1>14 DEF ForeignKeysHold
    <3>2. brFight'[c] \subseteq DOMAIN fight
      BY <1>4, <1>13 DEF ForeignKeysHold, Fights
    <3>. QED  BY <1>8, <1>9, <1>10, <1>13, <3>1, <3>2
  <2>2. \A c \in BR : c \notin report' => linked'[c] = {} /\ brFight'[c] = {}
    BY <1>3, <1>4, <1>13 DEF ForeignKeysHold
  <2>3. \A i \in DOMAIN fight' : fight'[i] \subseteq killmail'
    BY <1>2, <1>4, <1>8, <1>10, <1>14 DEF ForeignKeysHold, Fights
  <2>. QED  BY <2>1, <2>2, <2>3 DEF ForeignKeysHold, Fights
<1>16. NoTwinFights'
  BY <1>4, <1>8, <1>10 DEF NoTwinFights, Fights
<1>17. brFight' \in [BR -> SUBSET Nat]
  BY <1>4, <1>10
<1>. QED  BY <1>11, <1>12, <1>15, <1>16, <1>17 DEF FightInv

LEMMA FightInvNext == FightInv /\ [Next]_vars => FightInv'
<1>. SUFFICES ASSUME FightInv, [Next]_vars PROVE FightInv'
  OBVIOUS
<1>1. CASE ReparseRead
  BY <1>1, ReparseReadInv
<1>2. CASE \E S \in SUBSET LOG : ReparseWrite(S)
  BY <1>2, ReparseWriteInv
<1>3. ASSUME NEW b \in BR,
             \/ IngestLink(b) \/ IngestRead(b) \/ IngestWrite(b) \/ IngestFails(b)
             \/ OverrideSide(b) \/ DeleteBrRead(b) \/ DeleteBrWrite(b)
      PROVE  FightInv'
  BY <1>3, IngestLinkInv, IngestReadsInv, IngestWriteInv, OverrideSideInv, DeleteBrReadInv,
     DeleteBrWriteInv
<1>4. ASSUME NEW f \in LOG, UploadLog(f) \/ DeleteLogRead(f) \/ DeleteLogWrite(f)
      PROVE  FightInv'
  BY <1>4, UploadLogInv, DeleteLogReadInv, DeleteLogWriteInv
<1>5. CASE UNCHANGED vars
  <2>1. UNCHANGED <<report, linked, killmail, fight, brFight, file, stamp, bucket,
                    deleting, dropping, reparse>>
    BY <1>5 DEF vars
  <2>2. FightTypeOK' /\ ReadsAreFights'
    BY <2>1 DEF FightInv, FightTypeOK, ReadsAreFights
  <2>. QED  BY <2>1, <2>2, ReadStepInv
<1>. QED  BY <1>1, <1>2, <1>3, <1>4, <1>5 DEF Next

\* The inductive invariant of fights and logs: well-formed rows, references that
\* hold, one fight per kill set, stamps that name the owner, buckets that are the
\* stamps of the stored files (the handlers of aggregate.py, associate.py, brs.py).
THEOREM FightSafety == Spec => []FightInv
<1>1. Init => FightInv
  BY FightInvInit
<1>2. FightInv /\ [Next]_vars => FightInv'
  BY FightInvNext
<1>. QED  BY <1>1, <1>2, PTL DEF Spec

\* What reports share stays whole: no link, fight or report refers to a row that
\* a handler deleted on the strength of what it had read before.
THEOREM KeysHold == Spec => []ForeignKeysHold
<1>1. FightInv => ForeignKeysHold
  BY DEF FightInv
<1>. QED  BY <1>1, FightSafety, PTL

\* One engagement has one fight, whichever reports found it and in what order.
THEOREM FightsAreSingle == Spec => []NoTwinFights
<1>1. FightInv => NoTwinFights
  BY DEF FightInv
<1>. QED  BY <1>1, FightSafety, PTL

\* Every stamp names the lowest fight that claims the event, for one upload of
\* each client log.
THEOREM StampsAreOwners == Spec => []StampsNameTheOwner
<1>1. FightInv => StampsNameTheOwner
  <2>. SUFFICES ASSUME FightInv PROVE StampsNameTheOwner
    OBVIOUS
  <2>1. StampsOK(Rows, file) /\ file \in SUBSET LOG /\ Rows.stamp = stamp /\ Rows.fight = fight
    BY RowsAre DEF FightInv, LogRows, FightTypeOK
  <2>2. \A e \in Event : stamp[e] # 0 =>
          e[1] \in file /\ Owns(fight, stamp[e], e[2]) /\ ~Beaten(file, e[1])
    BY <2>1 DEF StampsOK
  <2>3. ASSUME NEW e \in Event, NEW d \in Event, stamp[e] # 0, stamp[d] # 0,
               SessionOf[d[1]] = SessionOf[e[1]]
        PROVE  d[1] = e[1]
    <3>1. PICK F, g, h : F = file /\ g = d[1] /\ h = e[1]
      OBVIOUS
    <3>2. g \in F /\ h \in F /\ ~Beaten(F, g) /\ ~Beaten(F, h) /\ SessionOf[g] = SessionOf[h]
          /\ F \in SUBSET LOG
      BY <2>1, <2>2, <2>3, <3>1
    <3>. QED  BY <3>1, <3>2, OneUnbeaten
  <2>. QED  BY <2>2, <2>3 DEF StampsNameTheOwner, Owns, Fights
<1>. QED  BY <1>1, FightSafety, PTL

\* The buckets of the stored files are their stamped events, each once.
THEOREM BucketsAreStamps == Spec => []StoredEventsCountOnce
<1>1. FightInv => StoredEventsCountOnce
  <2>. SUFFICES ASSUME FightInv PROVE StoredEventsCountOnce
    OBVIOUS
  <2>1. /\ StampsOK(Rows, file) /\ BucketsLive(Rows, file) /\ BucketsExact(Rows, file)
        /\ Rows.stamp = stamp /\ Rows.bucket = bucket
    BY RowsAre DEF FightInv, LogRows
  <2>2. ASSUME NEW x \in bucket, x[2][1] \in file
        PROVE  x[2] \in Event /\ stamp[x[2]] # 0 /\ x = <<stamp[x[2]], x[2]>>
    <3>1. x = <<x[1], x[2]>> /\ x[2] \in Event
      BY <2>1, <2>2 DEF BucketsLive
    <3>2. x[1] = stamp[x[2]] /\ x[1] # 0
      BY <2>1, <2>2, <3>1 DEF BucketsExact
    <3>. QED  BY <3>1, <3>2
  <2>3. ASSUME NEW e \in Event, stamp[e] # 0
        PROVE  <<stamp[e], e>> \in bucket /\ e[1] \in file
    <3>1. e[1] \in file
      BY <2>1, <2>3 DEF StampsOK
    <3>. QED  BY <2>1, <2>3, <3>1 DEF BucketsExact
  <2>4. ASSUME NEW x
        PROVE  x \in {y \in bucket : y[2][1] \in file} <=>
               x \in {<<stamp[e], e>> : e \in {y \in Event : stamp[y] # 0}}
    <3>1. CASE x \in bucket /\ x[2][1] \in file
      BY <2>2, <3>1
    <3>2. ASSUME NEW e \in Event, stamp[e] # 0, x = <<stamp[e], e>>
          PROVE  x \in bucket /\ x[2][1] \in file
      <4>1. x[2] = e
        BY <3>2
      <4>. QED  BY <2>3, <3>2, <4>1
    <3>. QED  BY <3>1, <3>2
  <2>. QED  BY <2>4 DEF StoredEventsCountOnce
<1>. QED  BY <1>1, FightSafety, PTL

-----------------------------------------------------------------------------
(* The order of associations.                                              *)

LEMMA SameRows ==
    ASSUME NEW r, IsRows(r), NEW u, NEW p, p = RebuildBuckets(r, u),
           NEW s, IsRows(s), NEW v, NEW q, q = RebuildBuckets(s, v),
           p.fight = q.fight, p.brFight = q.brFight, p.stamp = q.stamp, p.bucket = q.bucket
    PROVE  p = q
<1>1. p = [x \in DOMAIN r |-> p[x]] /\ q = [x \in DOMAIN s |-> q[x]]
  BY DEF RebuildBuckets
<1>2. \A x \in DOMAIN r : p[x] = q[x]
  BY DEF IsRows
<1>. QED  BY <1>1, <1>2 DEF IsRows

\* An association rebuilds buckets last of all.
LEMMA EndsRebuilding ==
    ASSUME NEW r, IsRows(r), NEW F, NEW S
    PROVE  \E p, pairs : IsRows(p) /\ AssociateFiles(r, F, S) = RebuildBuckets(p, pairs)
<1>. DEFINE lost == UNION {Superseded(F, f) : f \in S}
            won == S \ lost
            Touched(g) == StampedIn(r, {g})
                            \union (IF g \in won THEN Overlapping(r.fight, g) ELSE {})
            New == [e \in Event |-> CASE e[1] \in lost -> 0
                                      [] e[1] \in won -> Owner(r.fight, e[2])
                                      [] OTHER -> r.stamp[e]]
            p == [r EXCEPT !.stamp = New]
            pairs == UNION {Touched(g) \X {CharOf[g]} : g \in lost \union won}
<1>1. AssociateFiles(r, F, S) = RebuildBuckets(p, pairs)
  BY DEF AssociateFiles
<1>2. IsRows(p)
  <2>. HIDE DEF New
  <2>. QED  BY DEF IsRows
<1>. HIDE DEF p, pairs
<1>. QED  BY <1>1, <1>2

\* Associating f first touches what associating all at once does.
LEMMA TouchedInTurn ==
    ASSUME NEW F \in SUBSET LOG, NEW S \in SUBSET F, NEW f \in S,
           NEW r, NEW p, Associated(r, F, {f}, p), NEW i, NEW c
    PROVE  Touches(r, F, S, i, c) <=> Touches(r, F, {f}, i, c) \/ Touches(p, F, S \ {f}, i, c)
<1>1. \A g : /\ g \in Lost(F, S) <=> g \in Lost(F, {f}) \/ g \in Lost(F, S \ {f})
             /\ g \in S => (g \in Lost(F, S) <=> Beaten(F, g))
             /\ g \in S \ {f} => (g \in Lost(F, S \ {f}) <=> Beaten(F, g))
             /\ g = f => (g \in Lost(F, {f}) <=> Beaten(F, g))
             /\ g \in Lost(F, S \ {f}) => Beaten(F, g)
  BY LostIs
<1>2. /\ p.fight = r.fight
      /\ \A e \in Event : p.stamp[e] = IF e[1] \in Lost(F, {f}) THEN 0
                                       ELSE IF e[1] \in {f} THEN Owner(r.fight, e[2])
                                       ELSE r.stamp[e]
  BY DEF Associated
<1>3. ASSUME NEW g, g \in Lost(F, {f})
      PROVE  i \notin StampedIn(p, {g})
  <2>1. i \in StampedIn(p, {g}) <=> i # 0 /\ \E e \in Event : e[1] = g /\ i = p.stamp[e]
    BY DEF StampedIn, EventsIn
  <2>. QED  BY <1>2, <1>3, <2>1
<1>4. ASSUME NEW g, g # f, g \notin Lost(F, {f})
      PROVE  i \in StampedIn(p, {g}) <=> i \in StampedIn(r, {g})
  <2>1. \A e \in Event : e[1] = g => p.stamp[e] = r.stamp[e]
    BY <1>2, <1>4
  <2>2. /\ i \in StampedIn(p, {g}) <=> i # 0 /\ \E e \in Event : e[1] = g /\ i = p.stamp[e]
        /\ i \in StampedIn(r, {g}) <=> i # 0 /\ \E e \in Event : e[1] = g /\ i = r.stamp[e]
    BY DEF StampedIn, EventsIn
  <2>. QED  BY <2>1, <2>2
<1>5. ASSUME Touches(r, F, S, i, c)
      PROVE  Touches(r, F, {f}, i, c) \/ Touches(p, F, S \ {f}, i, c)
  <2>1. PICK g \in Lost(F, S) \union S :
          /\ c = CharOf[g]
          /\ i \in StampedIn(r, {g}) \/ (g \notin Lost(F, S) /\ i \in Overlapping(r.fight, g))
    BY <1>5 DEF Touches
  <2>2. CASE g = f \/ g \in Lost(F, {f})
    <3>1. g \in Lost(F, {f}) \union {f}
      BY <2>2
    <3>2. i \in StampedIn(r, {g}) \/ (g \notin Lost(F, {f}) /\ i \in Overlapping(r.fight, g))
      BY <1>1, <2>1
    <3>. QED  BY <2>1, <3>1, <3>2 DEF Touches
  <2>3. CASE g # f /\ g \notin Lost(F, {f})
    <3>1. g \in Lost(F, S \ {f}) \union (S \ {f})
      BY <1>1, <2>1, <2>3
    <3>2. \/ i \in StampedIn(p, {g})
          \/ g \notin Lost(F, S \ {f}) /\ i \in Overlapping(p.fight, g)
      BY <1>1, <1>2, <1>4, <2>1, <2>3
    <3>. QED  BY <2>1, <3>1, <3>2 DEF Touches
  <2>. QED  BY <2>2, <2>3
<1>6. ASSUME Touches(r, F, {f}, i, c)
      PROVE  Touches(r, F, S, i, c)
  <2>1. PICK g \in Lost(F, {f}) \union {f} :
          /\ c = CharOf[g]
          /\ i \in StampedIn(r, {g}) \/ (g \notin Lost(F, {f}) /\ i \in Overlapping(r.fight, g))
    BY <1>6 DEF Touches
  <2>2. g \in Lost(F, S) \union S
    BY <1>1
  <2>3. i \in StampedIn(r, {g}) \/ (g \notin Lost(F, S) /\ i \in Overlapping(r.fight, g))
    BY <1>1, <2>1
  <2>. QED  BY <2>1, <2>2, <2>3 DEF Touches
<1>7. ASSUME Touches(p, F, S \ {f}, i, c)
      PROVE  Touches(r, F, S, i, c)
  <2>1. PICK g \in Lost(F, S \ {f}) \union (S \ {f}) :
          /\ c = CharOf[g]
          /\ \/ i \in StampedIn(p, {g})
             \/ g \notin Lost(F, S \ {f}) /\ i \in Overlapping(p.fight, g)
    BY <1>7 DEF Touches
  <2>2. g \in Lost(F, S) \union S
    BY <1>1
  <2>3. i \in StampedIn(r, {g}) \/ (g \notin Lost(F, S) /\ i \in Overlapping(r.fight, g))
    <3>1. CASE i \in StampedIn(p, {g})
      <4>1. g \notin Lost(F, {f})
        BY <1>3, <3>1
      <4>2. g # f
        BY <1>1, <2>1, <4>1
      <4>. QED  BY <1>4, <3>1, <4>1, <4>2
    <3>2. CASE g \notin Lost(F, S \ {f}) /\ i \in Overlapping(p.fight, g)
      BY <1>1, <1>2, <2>1, <3>2
    <3>. QED  BY <2>1, <3>1, <3>2
  <2>. QED  BY <2>1, <2>2, <2>3 DEF Touches
<1>. QED  BY <1>5, <1>6, <1>7

LEMMA AssociatedInTurn ==
    ASSUME NEW F \in SUBSET LOG, NEW S \in SUBSET F, NEW f \in S, NEW r, LogRows(r, F)
    PROVE  AssociateFiles(AssociateFiles(r, F, {f}), F, S \ {f}) = AssociateFiles(r, F, S)
<1>1. PICK p, q, a : /\ p = AssociateFiles(r, F, {f})
                     /\ q = AssociateFiles(p, F, S \ {f})
                     /\ a = AssociateFiles(r, F, S)
  OBVIOUS
<1>2. {f} \in SUBSET F /\ S \ {f} \in SUBSET F
  OBVIOUS
<1>3. LogRows(p, F) /\ LogRows(q, F) /\ LogRows(a, F)
  BY <1>1, <1>2, AssociatedAgain
<1>4. /\ Associated(r, F, {f}, p) /\ Associated(p, F, S \ {f}, q) /\ Associated(r, F, S, a)
  BY <1>1, <1>2, <1>3, AssociatedFields DEF LogRows
<1>5. q.fight = a.fight /\ q.brFight = a.brFight
  BY <1>4 DEF Associated
<1>6. \A g : /\ g \in Lost(F, S) <=> g \in Lost(F, {f}) \/ g \in Lost(F, S \ {f})
             /\ g \in S \ {f} => (g \in Lost(F, S \ {f}) <=> Beaten(F, g))
             /\ g \in Lost(F, {f}) => Beaten(F, g)
  BY LostIs
<1>7. ASSUME NEW e \in Event
      PROVE  q.stamp[e] = a.stamp[e]
  <2>1. p.stamp[e] = IF e[1] \in Lost(F, {f}) THEN 0
                     ELSE IF e[1] \in {f} THEN Owner(r.fight, e[2]) ELSE r.stamp[e]
    BY <1>4 DEF Associated
  <2>2. q.stamp[e] = IF e[1] \in Lost(F, S \ {f}) THEN 0
                     ELSE IF e[1] \in S \ {f} THEN Owner(r.fight, e[2]) ELSE p.stamp[e]
    BY <1>4 DEF Associated
  <2>3. a.stamp[e] = IF e[1] \in Lost(F, S) THEN 0
                     ELSE IF e[1] \in S THEN Owner(r.fight, e[2]) ELSE r.stamp[e]
    BY <1>4 DEF Associated
  <2>. QED  BY <1>6, <2>1, <2>2, <2>3
<1>8. q.stamp = a.stamp
  BY <1>4, <1>7 DEF Associated
<1>9. ASSUME NEW e \in Event, NEW i
      PROVE  <<i, e>> \in q.bucket <=> <<i, e>> \in a.bucket
  <2>1. CASE e[1] \in F
    BY <1>3, <1>8, <2>1 DEF LogRows, BucketsExact
  <2>2. CASE e[1] \notin F
    <3>1. r.stamp[e] = 0 /\ p.stamp[e] = 0 /\ q.stamp[e] = 0 /\ a.stamp[e] = 0
      BY <1>3, <2>2 DEF LogRows, StampsOK
    <3>2. <<i, e>> \in p.bucket <=>
            IF Touches(r, F, {f}, i, CharOf[e[1]]) THEN p.stamp[e] = i ELSE <<i, e>> \in r.bucket
      BY <1>4 DEF Associated
    <3>3. <<i, e>> \in q.bucket <=>
            IF Touches(p, F, S \ {f}, i, CharOf[e[1]]) THEN q.stamp[e] = i ELSE <<i, e>> \in p.bucket
      BY <1>4 DEF Associated
    <3>4. <<i, e>> \in a.bucket <=>
            IF Touches(r, F, S, i, CharOf[e[1]]) THEN a.stamp[e] = i ELSE <<i, e>> \in r.bucket
      BY <1>4 DEF Associated
    <3>5. /\ Touches(r, F, {f}, i, CharOf[e[1]]) => i # 0
          /\ Touches(p, F, S \ {f}, i, CharOf[e[1]]) => i # 0
          /\ Touches(r, F, S, i, CharOf[e[1]]) => i # 0
      BY <1>4 DEF Associated
    <3>6. Touches(r, F, S, i, CharOf[e[1]]) <=>
            Touches(r, F, {f}, i, CharOf[e[1]]) \/ Touches(p, F, S \ {f}, i, CharOf[e[1]])
      BY <1>4, TouchedInTurn
    <3>. QED  BY <3>1, <3>2, <3>3, <3>4, <3>5, <3>6
  <2>. QED  BY <2>1, <2>2
<1>10. q.bucket = a.bucket
  <2>1. \A x : x \in q.bucket \/ x \in a.bucket => x = <<x[1], x[2]>> /\ x[2] \in Event
    BY <1>3 DEF LogRows, BucketsLive
  <2>2. \A x : x \in q.bucket <=> x \in a.bucket
    BY <1>9, <2>1
  <2>. QED  BY <2>2
<1>11. IsRows(r) /\ IsRows(p)
  BY <1>3 DEF LogRows
<1>12. PICK x, u : IsRows(x) /\ q = RebuildBuckets(x, u)
  BY <1>1, <1>11, EndsRebuilding
<1>13. PICK y, v : IsRows(y) /\ a = RebuildBuckets(y, v)
  BY <1>1, <1>11, EndsRebuilding
<1>14. q = a
  BY <1>5, <1>8, <1>10, <1>12, <1>13, SameRows
<1>. QED  BY <1>1, <1>14

\* Associating files one by one, in whatever order, leaves what associating them
\* at once does (associate_file, over the set that files_to_associate is).
THEOREM OrderIsFree == Spec => []AssociationOrderFree
<1>1. FightInv => AssociationOrderFree
  <2>. SUFFICES ASSUME FightInv, NEW S \in SUBSET file, NEW f \in S
                PROVE  AssociateFiles(AssociateFiles(Rows, file, {f}), file, S \ {f})
                         = AssociateFiles(Rows, file, S)
    BY DEF AssociationOrderFree
  <2>1. PICK F, r : F = file /\ r = Rows
    OBVIOUS
  <2>2. F \in SUBSET LOG /\ S \in SUBSET F /\ LogRows(r, F)
    BY <2>1 DEF FightInv, FightTypeOK
  <2>3. AssociateFiles(AssociateFiles(r, F, {f}), F, S \ {f}) = AssociateFiles(r, F, S)
    BY <2>2, AssociatedInTurn
  <2>. QED  BY <2>1, <2>3
<1>. QED  BY <1>1, FightSafety, PTL

-----------------------------------------------------------------------------
(* What a refresh keeps.                                                   *)

\* A fight of the report that is still a cluster, and an event stamped with it.
LEMMA RefreshKeeps ==
    ASSUME FightInv, NEW b \in BR, NEW prev, NEW a, a \in Aggregate(Rows, b, prev),
           NEW q, \/ q = a
                  \/ \E S \in SUBSET file : q = AssociateFiles(a, file, S),
           NEW i \in brFight[b], fight[i] \in ClustersOf[linked[b]]
    PROVE  /\ i \in q.brFight[b] /\ q.fight[i] = fight[i]
           /\ \A e \in Event : stamp[e] = i => q.stamp[e] = i
<1>1. PICK F : F = file
  OBVIOUS
<1>2. /\ LogRows(a, F) /\ F \in SUBSET LOG
      /\ Aggregated(Rows, b, ClustersOf[linked[b]], a)
      /\ \A c \in BR : a.brFight[c] \subseteq DOMAIN a.fight
  BY <1>1, AggregatedKeys DEF FightInv, FightTypeOK
<1>3. i \in DOMAIN fight
  BY DEF FightInv, ForeignKeysHold, Fights
<1>4. i \in a.brFight[b] /\ a.fight[i] = fight[i] /\ i \in DOMAIN a.fight
  BY <1>2, <1>3, RowsAre DEF Aggregated
<1>5. \A e \in Event : stamp[e] = i => a.stamp[e] = i
  BY <1>2, <1>4, RowsAre DEF Aggregated
<1>6. i # 0
  BY <1>2, <1>4 DEF LogRows, FightRows
<1>7. CASE q = a
  BY <1>4, <1>5, <1>7
<1>8. ASSUME NEW S \in SUBSET F, q = AssociateFiles(a, F, S)
      PROVE  /\ i \in q.brFight[b] /\ q.fight[i] = fight[i]
             /\ \A e \in Event : stamp[e] = i => q.stamp[e] = i
  <2>1. Associated(a, F, S, q)
    BY <1>2, <1>8, AssociatedFields DEF LogRows
  <2>2. q.fight = a.fight /\ q.brFight = a.brFight
    BY <2>1 DEF Associated
  <2>3. ASSUME NEW e \in Event, stamp[e] = i
        PROVE  q.stamp[e] = i
    <3>1. a.stamp[e] = i
      BY <1>5, <2>3
    <3>2. Owns(a.fight, i, e[2]) /\ ~Beaten(F, e[1])
      BY <1>2, <1>6, <3>1 DEF LogRows, StampsOK
    <3>3. e[1] \notin Lost(F, S)
      BY <1>2, <3>2, LostIs
    <3>4. q.stamp[e] = IF e[1] \in S THEN Owner(a.fight, e[2]) ELSE a.stamp[e]
      BY <2>1, <3>3 DEF Associated
    <3>5. Owner(a.fight, e[2]) = i
      <4>1. FightRows(a.fight)
        BY <1>2 DEF LogRows
      <4>2. Owner(a.fight, e[2]) # 0
        BY <3>2, <4>1, OwnerOwns DEF Owns
      <4>3. Owns(a.fight, Owner(a.fight, e[2]), e[2])
        BY <4>1, <4>2, OwnerOwns
      <4>. QED  BY <3>2, <4>1, <4>3, OneOwner
    <3>. QED  BY <3>1, <3>4, <3>5
  <2>. QED  BY <1>4, <2>2, <2>3
<1>. QED  BY <1>1, <1>7, <1>8

\* A refresh keeps the fights that are still clusters of the report, and what is
\* stamped with them (aggregate_br, then associate_logs_for_br).
THEOREM RefreshesKeepFights == Spec => RefreshKeepsFights
<1>. DEFINE Keeps == \A b \in BR : IngestWrite(b) \/ OverrideSide(b) =>
                       \A i \in brFight[b] : fight[i] \in ClustersOf[linked[b]] =>
                         /\ i \in brFight'[b] /\ fight'[i] = fight[i]
                         /\ \A e \in Event : stamp[e] = i => stamp'[e] = i
<1>1. FightInv => Keeps
  <2>. SUFFICES ASSUME FightInv, NEW b \in BR, IngestWrite(b) \/ OverrideSide(b),
                       NEW i \in brFight[b], fight[i] \in ClustersOf[linked[b]]
                PROVE  /\ i \in brFight'[b] /\ fight'[i] = fight[i]
                       /\ \A e \in Event : stamp[e] = i => stamp'[e] = i
    OBVIOUS
  <2>1. ASSUME NEW prev, NEW a, a \in Aggregate(Rows, b, prev), NEW q, Commit(q),
               \/ q = a
               \/ \E S \in SUBSET file : q = AssociateFiles(a, file, S)
        PROVE  /\ i \in brFight'[b] /\ fight'[i] = fight[i]
               /\ \A e \in Event : stamp[e] = i => stamp'[e] = i
    <3>1. /\ i \in q.brFight[b] /\ q.fight[i] = fight[i]
          /\ \A e \in Event : stamp[e] = i => q.stamp[e] = i
      BY <2>1, RefreshKeeps
    <3>. QED  BY <2>1, <3>1 DEF Commit
  <2>2. CASE IngestWrite(b)
    <3>1. PICK prev, a, q : /\ a \in Aggregate(Rows, b, prev) /\ q = AssociateLogs(a, b)
                            /\ Commit(q)
      BY <2>2 DEF IngestWrite
    <3>2. \E S \in SUBSET file : q = AssociateFiles(a, file, S)
      BY <3>1 DEF AssociateLogs
    <3>. QED  BY <2>1, <3>1, <3>2
  <2>3. CASE OverrideSide(b)
    <3>1. PICK prev, a : a \in Aggregate(Rows, b, prev) /\ Commit(a)
      BY <2>3 DEF OverrideSide
    <3>. QED  BY <2>1, <3>1
  <2>. QED  BY <2>2, <2>3
<1>2. FightInv => [Keeps]_vars
  BY <1>1
<1>. QED  BY <1>2, FightSafety, PTL DEF RefreshKeepsFights

-----------------------------------------------------------------------------
(* What associations arrive at.                                            *)

Fuller(F, g) == \A h \in F : SessionOf[h] = SessionOf[g] => EventsOf[h] \subseteq EventsOf[g]

\* What a fullest file of F has, the unbeaten one of its session has too.
LEMMA UnbeatenIsFullest ==
    ASSUME NEW F \in SUBSET LOG, IsFiniteSet(F), NEW g \in F, Fuller(F, g)
    PROVE  \E f \in F : /\ SessionOf[f] = SessionOf[g] /\ EventsOf[f] = EventsOf[g]
                        /\ ~Beaten(F, f)
<1>1. PICK T : T = {h \in F : SessionOf[h] = SessionOf[g] /\ EventsOf[h] = EventsOf[g]}
  OBVIOUS
<1>2. T # {} /\ T \in SUBSET F /\ T \subseteq Nat /\ IsFiniteSet(T)
  BY <1>1, FightStoreAssumption, FS_Subset
<1>3. PICK f : f \in T /\ \A h \in T : h <= f
  BY <1>2, MaxIsIn
<1>4. ASSUME NEW h \in F, SessionOf[h] = SessionOf[g]
      PROVE  Covers(f, h)
  <2>1. /\ f \in LOG /\ h \in LOG /\ f \in Nat /\ h \in Nat
        /\ Max(EventsOf[f]) \in Nat /\ Cardinality(EventsOf[f]) \in Nat
        /\ Max(EventsOf[h]) \in Nat /\ Cardinality(EventsOf[h]) \in Nat
        /\ IsFiniteSet(EventsOf[f]) /\ IsFiniteSet(EventsOf[h])
        /\ EventsOf[h] # {} /\ EventsOf[h] \subseteq Nat
    BY <1>2, <1>3, LogSpan
  <2>2. EventsOf[h] \in SUBSET EventsOf[f]
    BY <1>1, <1>3, <1>4 DEF Fuller
  <2>3. Max(EventsOf[h]) <= Max(EventsOf[f])
    <3>1. Max(EventsOf[h]) \in EventsOf[h]
      BY <2>1, MaxIsIn
    <3>. QED  BY <2>1, <2>2, <3>1, LogSpan
  <2>4. /\ Cardinality(EventsOf[h]) <= Cardinality(EventsOf[f])
        /\ Cardinality(EventsOf[f]) = Cardinality(EventsOf[h]) => EventsOf[f] = EventsOf[h]
    BY <2>1, <2>2, FS_Subset
  <2>5. EventsOf[f] = EventsOf[h] => h <= f
    BY <1>1, <1>3, <1>4
  <2>. QED  BY <2>1, <2>3, <2>4, <2>5 DEF Covers
<1>5. SessionOf[f] = SessionOf[g] /\ EventsOf[f] = EventsOf[g] /\ f \in F
  BY <1>1, <1>3
<1>6. ~Beaten(F, f)
  BY <1>4, <1>5 DEF Beaten
<1>. QED  BY <1>5, <1>6

\* Once the unbeaten file is associated, what a fullest one holds is stamped
\* where a fight claims it.
LEMMA AssociationCounts ==
    ASSUME NEW r, FightRows(r.fight), NEW F \in SUBSET LOG, NEW S \in SUBSET F,
           NEW q, Associated(r, F, S, q),
           NEW f \in S, ~Beaten(F, f), NEW t \in EventsOf[f],
           NEW i \in DOMAIN r.fight, InWindow(r.fight[i], t)
    PROVE  <<f, t>> \in Event /\ q.stamp[<<f, t>>] # 0
<1>1. <<f, t>> \in Event /\ <<f, t>>[1] = f /\ <<f, t>>[2] = t
  BY EventIs
<1>2. f \notin Lost(F, S)
  BY LostIs
<1>3. q.stamp[<<f, t>>] = Owner(r.fight, t)
  BY <1>1, <1>2 DEF Associated
<1>4. Owner(r.fight, t) # 0
  BY OwnerOwns
<1>. QED  BY <1>1, <1>3, <1>4

LEMMA FullestIs ==
    ASSUME NEW g
    PROVE  g \in Fullest <=> g \in file /\ Fuller(file, g)
BY DEF Fullest, Fuller

LEMMA IngestConvergesStep ==
    ASSUME FightInv, NEW b \in BR, IngestWrite(b), NEW e \in EventsIn(Fullest),
           NEW i \in brFight'[b], InWindow(fight'[i], e[2])
    PROVE  Counted(e)'
<1>1. PICK prev, a : a \in Aggregate(Rows, b, prev) /\ Commit(AssociateLogs(a, b))
  BY DEF IngestWrite
<1>2. PICK F : F = file
  OBVIOUS
<1>3. PICK S, q : /\ S = {f \in F : Overlapping(a.fight, f) \cap a.brFight[b] # {}}
                  /\ q = AssociateFiles(a, F, S)
  OBVIOUS
<1>4. Commit(q)
  BY <1>1, <1>2, <1>3 DEF AssociateLogs
<1>5. F \in SUBSET LOG /\ IsFiniteSet(F) /\ S \in SUBSET F
  BY <1>2, <1>3 DEF FightInv, FightTypeOK
<1>6. LogRows(a, F) /\ \A c \in BR : a.brFight[c] \subseteq DOMAIN a.fight
  BY <1>1, <1>2, AggregatedKeys
<1>7. Associated(a, F, S, q) /\ FightRows(a.fight)
  BY <1>3, <1>5, <1>6, AssociatedFields DEF LogRows
<1>8. fight' = a.fight /\ brFight' = a.brFight /\ stamp' = q.stamp
  BY <1>4, <1>7 DEF Associated, Commit
<1>9. PICK g, t : g = e[1] /\ t = e[2]
  OBVIOUS
<1>10. g \in F /\ Fuller(F, g) /\ g \in LOG /\ t \in EventsOf[g]
  BY <1>2, <1>9, FullestIs, EventIs DEF EventsIn
<1>11. PICK f \in F : SessionOf[f] = SessionOf[g] /\ EventsOf[f] = EventsOf[g] /\ ~Beaten(F, f)
  BY <1>5, <1>10, UnbeatenIsFullest
<1>12. i \in DOMAIN a.fight /\ i \in a.brFight[b] /\ InWindow(a.fight[i], t)
  BY <1>6, <1>8, <1>9
<1>13. i \in Overlapping(a.fight, f)
  <2>1. f \in LOG /\ t \in EventsOf[f]
    BY <1>5, <1>10, <1>11
  <2>2. Max(EventsOf[f]) <= Max(EventsOf[f])
    BY <2>1, LogSpan
  <2>. QED  BY <1>7, <1>12, <2>1, <2>2, HoldersOverlap
<1>14. f \in S
  BY <1>3, <1>12, <1>13
<1>15. <<f, t>> \in Event /\ q.stamp[<<f, t>>] # 0
  <2>1. f \in S /\ ~Beaten(F, f) /\ t \in EventsOf[f] /\ F \in SUBSET LOG /\ S \in SUBSET F
        /\ FightRows(a.fight) /\ Associated(a, F, S, q)
        /\ i \in DOMAIN a.fight /\ InWindow(a.fight[i], t)
    BY <1>5, <1>7, <1>10, <1>11, <1>12, <1>14
  <2>. QED  BY ONLY <2>1, AssociationCounts
<1>. QED  BY <1>8, <1>9, <1>11, <1>15 DEF Counted

\* Whichever of files and kills came first, once an ingest has associated the logs
\* what a fullest file holds in the windows of the report's fights is stamped
\* (associate_logs_for_br: "order-independent").
THEOREM IngestsConverge == Spec => IngestConverges
<1>. DEFINE Converges == \A b \in BR : IngestWrite(b) =>
                           \A e \in EventsIn(Fullest) :
                             (\E i \in brFight'[b] : InWindow(fight'[i], e[2])) => Counted(e)'
<1>1. FightInv => Converges
  BY IngestConvergesStep
<1>2. FightInv => [Converges]_vars
  BY <1>1
<1>. QED  BY <1>2, FightSafety, PTL DEF IngestConverges

\* The steps of a session's files: what is associated of which rows, and that
\* its unbeaten file is among it.
LEMMA SessionStep ==
    ASSUME FightInv, NEW f \in LOG,
           NEW r, FightRows(r.fight), r.fight = fight,
           NEW F, F = file', F \in SUBSET LOG, IsFiniteSet(F), NEW S \in SUBSET F,
           \A h \in F : SessionOf[h] = SessionOf[f] /\ ~Beaten(F, h) => h \in S,
           NEW q, Associated(r, F, S, q), stamp' = q.stamp,
           NEW e \in Event, e[1] \in F, Fuller(F, e[1]), SessionOf[e[1]] = SessionOf[f],
           NEW i \in Fights, InWindow(fight[i], e[2])
    PROVE  Counted(e)'
<1>1. PICK g, t : g = e[1] /\ t = e[2]
  OBVIOUS
<1>2. /\ g \in F /\ Fuller(F, g) /\ t \in EventsOf[g] /\ SessionOf[g] = SessionOf[f]
      /\ i \in DOMAIN r.fight /\ InWindow(r.fight[i], t)
  BY <1>1, EventIs DEF Fights
<1>3. PICK h \in F : SessionOf[h] = SessionOf[g] /\ EventsOf[h] = EventsOf[g] /\ ~Beaten(F, h)
  BY <1>2, UnbeatenIsFullest
<1>4. <<h, t>> \in Event /\ q.stamp[<<h, t>>] # 0
  <2>1. h \in S /\ ~Beaten(F, h) /\ t \in EventsOf[h] /\ F \in SUBSET LOG /\ S \in SUBSET F
        /\ FightRows(r.fight) /\ Associated(r, F, S, q)
        /\ i \in DOMAIN r.fight /\ InWindow(r.fight[i], t)
    BY <1>2, <1>3
  <2>. QED  BY ONLY <2>1, AssociationCounts
<1>5. \E d \in Event : SessionOf[d[1]] = SessionOf[e[1]] /\ d[2] = e[2] /\ stamp'[d] # 0
  BY <1>1, <1>3, <1>4
<1>. QED  BY <1>5 DEF Counted

LEMMA NotSuperseded ==
    ASSUME NEW F \in SUBSET LOG, NEW f \in F, f \notin Superseded(F, f)
    PROVE  \A h \in F : SessionOf[h] = SessionOf[f] /\ ~Beaten(F, h) => h = f
BY SupersededIs, OneUnbeaten

LEMMA UploadConverges ==
    ASSUME FightInv, NEW f \in LOG, UploadLog(f), f \notin Superseded(file', f),
           NEW e \in EventsIn(Fullest'), SessionOf[e[1]] = SessionOf[f],
           NEW i \in Fights, InWindow(fight[i], e[2])
    PROVE  Counted(e)'
<1>1. PICK F, G, r, q : /\ F = file /\ G = F \union {f} /\ r = Rows
                        /\ q = AssociateFiles(r, G, {f})
  OBVIOUS
<1>2. LogRows(r, F) /\ F \in SUBSET LOG /\ IsFiniteSet(F)
  BY <1>1 DEF FightInv, FightTypeOK
<1>3. G = file' /\ Commit(q)
  BY <1>1 DEF UploadLog
<1>4. G \in SUBSET LOG /\ IsFiniteSet(G) /\ {f} \in SUBSET G /\ f \in G
  BY <1>1, <1>2, FS_AddElement
<1>5. Associated(r, G, {f}, q) /\ FightRows(r.fight) /\ r.fight = fight
  BY <1>1, <1>2, <1>4, RowsAre, AssociatedFields DEF LogRows
<1>6. \A h \in G : SessionOf[h] = SessionOf[f] /\ ~Beaten(G, h) => h \in {f}
  BY <1>3, <1>4, NotSuperseded
<1>7. e \in Event /\ e[1] \in G /\ Fuller(G, e[1])
  BY <1>3 DEF EventsIn, Fullest, Fuller
<1>8. stamp' = q.stamp
  BY <1>3 DEF Commit
<1>. QED  BY <1>3, <1>4, <1>5, <1>6, <1>7, <1>8, SessionStep

LEMMA DeleteConverges ==
    ASSUME FightInv, NEW f \in LOG, DeleteLogWrite(f),
           NEW e \in EventsIn(Fullest'), SessionOf[e[1]] = SessionOf[f],
           NEW i \in Fights, InWindow(fight[i], e[2])
    PROVE  Counted(e)'
<1>1. PICK F, G, r, pairs, p, S, q :
        /\ F = file /\ G = F \ {f} /\ r = Rows
        /\ pairs = dropping[f] \X {CharOf[f]}
        /\ p = RebuildBuckets(Emptied(r, {f}), pairs)
        /\ S = {g \in G : SessionOf[g] = SessionOf[f]}
        /\ q = AssociateFiles(p, G, S)
  OBVIOUS
<1>2. LogRows(r, F) /\ F \in SUBSET LOG /\ IsFiniteSet(F) /\ ReadsAreFights
  BY <1>1 DEF FightInv, FightTypeOK
<1>3. G = file' /\ Commit(q) /\ dropping[f] # NotRead
  BY <1>1 DEF DeleteLogWrite
<1>4. G \in SUBSET LOG /\ IsFiniteSet(G) /\ S \in SUBSET G
  BY <1>1, <1>2, FS_RemoveElement
<1>5. \A n, c : <<n, c>> \in pairs => n # 0
  BY <1>1, <1>2, <1>3 DEF ReadsAreFights
<1>6. LogRows(p, G) /\ p.fight = r.fight
  <2>1. f \in LOG /\ F \in SUBSET LOG /\ LogRows(r, F) /\ p = RebuildBuckets(Emptied(r, {f}), pairs)
    BY <1>1, <1>2
  <2>2. LogRows(p, F \ {f}) /\ p.fight = r.fight
    BY ONLY <1>5, <2>1, LogGoneRows
  <2>. QED  BY <1>1, <2>2
<1>7. Associated(p, G, S, q) /\ FightRows(p.fight) /\ p.fight = fight
  BY <1>1, <1>4, <1>6, RowsAre, AssociatedFields DEF LogRows
<1>8. \A h \in G : SessionOf[h] = SessionOf[f] /\ ~Beaten(G, h) => h \in S
  BY <1>1
<1>9. e \in Event /\ e[1] \in G /\ Fuller(G, e[1])
  BY <1>3 DEF EventsIn, Fullest, Fuller
<1>10. stamp' = q.stamp
  BY <1>3 DEF Commit
<1>. QED  BY <1>3, <1>4, <1>7, <1>8, <1>9, <1>10, SessionStep

LEMMA ReparseConverges ==
    ASSUME FightInv, NEW f \in LOG, NEW S \in SUBSET file, f \in S, ReparseWrite(S),
           reparse.files \subseteq file, f \notin Superseded(file, f),
           NEW e \in EventsIn(Fullest'), SessionOf[e[1]] = SessionOf[f],
           NEW i \in Fights, InWindow(fight[i], e[2])
    PROVE  Counted(e)'
<1>. DEFINE Old(g) == IF g = Min(reparse.files) THEN reparse.old ELSE StampedIn(Rows, {g})
<1>1. PICK F, r, u, p, pairs, q :
        /\ F = file /\ r = Rows /\ u = Emptied(r, S)
        /\ p = AssociateFiles(u, F, S)
        /\ pairs = UNION {Old(g) \X {CharOf[g]} : g \in S}
        /\ q = RebuildBuckets(p, pairs)
  OBVIOUS
<1>2. LogRows(r, F) /\ F \in SUBSET LOG /\ IsFiniteSet(F) /\ S \in SUBSET F
  BY <1>1 DEF FightInv, FightTypeOK
<1>3. F = file' /\ Commit(q)
  BY <1>1 DEF ReparseWrite
<1>4. /\ IsRows(u) /\ u.fight = r.fight /\ u.stamp \in [Event -> Nat]
      /\ FightRows(u.fight) /\ u.fight = fight
  <2>1. /\ IsRows(r) /\ r.stamp \in [Event -> Nat] /\ FightRows(r.fight) /\ r.fight = fight
    BY <1>1, <1>2, RowsAre DEF LogRows
  <2>. QED  BY <1>1, <2>1 DEF IsRows, Emptied
<1>5. Associated(u, F, S, p)
  BY <1>1, <1>2, <1>4, AssociatedFields
<1>6. q.stamp = p.stamp
  BY <1>1, <1>5, RebuiltFields DEF Associated
<1>7. \A h \in F : SessionOf[h] = SessionOf[f] /\ ~Beaten(F, h) => h \in S
  BY <1>1, <1>2, NotSuperseded
<1>8. e \in Event /\ e[1] \in F /\ Fuller(F, e[1])
  BY <1>3 DEF EventsIn, Fullest, Fuller
<1>9. stamp' = p.stamp
  BY <1>3, <1>6 DEF Commit
<1>. QED  BY <1>2, <1>3, <1>4, <1>5, <1>7, <1>8, <1>9, SessionStep

\* After the canonical file of a session came or was parsed again, or any of its
\* files went, what a fullest one of those left holds is stamped wherever a fight
\* claims it (upload_logs, delete_gamelog_file, reparse_gamelogs).
THEOREM SessionsConverge == Spec => SessionConverges
<1>. DEFINE Converges ==
       \A f \in LOG :
         \/ UploadLog(f) /\ f \notin Superseded(file', f)
         \/ DeleteLogWrite(f)
         \/ /\ \E S \in SUBSET file : f \in S /\ ReparseWrite(S)
            /\ reparse.files \subseteq file
            /\ f \notin Superseded(file, f)
         => \A e \in EventsIn(Fullest') :
              /\ SessionOf[e[1]] = SessionOf[f]
              /\ \E i \in Fights : InWindow(fight[i], e[2])
              => Counted(e)'
<1>1. FightInv => Converges
  BY UploadConverges, DeleteConverges, ReparseConverges
<1>2. FightInv => [Converges]_vars
  BY <1>1
<1>. QED  BY <1>2, FightSafety, PTL DEF SessionConverges
=============================================================================
