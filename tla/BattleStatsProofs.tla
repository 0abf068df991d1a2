-------------------------- MODULE BattleStatsProofs ------------------------
(***************************************************************************)
(* Proofs about fights, sides and what the readers make of them, for any   *)
(* killmails, times, systems, casts, overrides and edits: the clustering   *)
(* cuts a report into the runs it promises, and every reader counts its    *)
(* kills under the sides in force.                                         *)
(***************************************************************************)
EXTENDS BattleStats, FiniteSetTheorems, FunctionTheorems, WellFoundedInduction, NaturalsInduction, TLAPS

-----------------------------------------------------------------------------
(* Least and greatest.                                                     *)

LEMMA NatLess == OpToRel(<, Nat) = {ss \in Nat \X Nat : ss[1] < ss[2]}
BY DEF OpToRel

\* Every set of naturals that is not empty has a least element.
LEMMA LeastExists ==
    ASSUME NEW S, S \subseteq Nat, S # {}
    PROVE  \E n \in S : \A m \in S : n <= m
<1>. DEFINE Less == {ss \in Nat \X Nat : ss[1] < ss[2]}
<1>1. IsWellFoundedOn(Less, Nat)
  BY NatLessThanWellFounded, NatLess
<1>2. PICK n \in S : \A m \in S : <<m, n>> \notin Less
  <2>. HIDE DEF Less
  <2>. QED  BY <1>1, WFMin
<1>3. ASSUME NEW m \in S
      PROVE  n <= m
  <2>1. m \in Nat /\ n \in Nat
    OBVIOUS
  <2>2. m < n => <<m, n>> \in Less
    BY <2>1
  <2>. QED  BY <1>2, <2>1, <2>2
<1>. QED  BY <1>3

FamilyIn(B, S) == B \in SUBSET (SUBSET S)

\* Among the subsets of a finite set that are bad, one has no other below it.
LEMMA MinimalSubset ==
    ASSUME NEW S, IsFiniteSet(S), NEW Bad, FamilyIn(Bad, S), Bad # {}
    PROVE  \E X \in Bad : \A Y \in Bad : Y \subseteq X => Y = X
<1>. DEFINE R == StrictSubsetOrdering(S)
<1>1. IsWellFoundedOn(R, SUBSET S)
  BY FS_StrictSubsetOrderingWellFounded, FS_FiniteSubsetsOfFinite
<1>2. PICK X \in Bad : \A Y \in Bad : <<Y, X>> \notin R
  <2>. HIDE DEF R
  <2>. QED  BY <1>1, WFMin DEF FamilyIn
<1>3. ASSUME NEW Y \in Bad, Y \subseteq X, Y # X
      PROVE  FALSE
  <2>1. <<Y, X>> \in (SUBSET S) \X (SUBSET S)
    BY DEF FamilyIn
  <2>2. <<Y, X>> \in R
    BY <1>3, <2>1 DEF StrictSubsetOrdering
  <2>. QED  BY <1>2, <2>2
<1>. QED  BY <1>3

LEMMA MinIsIn ==
    ASSUME NEW S, S # {}, S \subseteq Nat
    PROVE  Min(S) \in S /\ Min(S) \in Nat /\ \A e \in S : Min(S) <= e
BY LeastExists DEF Min

LEMMA MaxIsIn ==
    ASSUME NEW S, S # {}, S \subseteq Nat, IsFiniteSet(S)
    PROVE  Max(S) \in S /\ Max(S) \in Nat /\ \A e \in S : e <= Max(S)
<1>. DEFINE Bad == {X \in SUBSET S : X # {} /\ \A m \in X : \E e \in X : ~(e <= m)}
<1>1. Bad = {}
  <2>. SUFFICES ASSUME Bad # {} PROVE FALSE
    OBVIOUS
  <2>1. FamilyIn(Bad, S)
    BY DEF FamilyIn
  <2>2. PICK X \in Bad : \A Y \in Bad : Y \subseteq X => Y = X
    <3>. HIDE DEF Bad
    <3>. QED  BY <2>1, MinimalSubset
  <2>3. PICK x : x \in X
    OBVIOUS
  <2>4. X \ {x} \notin Bad
    <3>. HIDE DEF Bad
    <3>. QED  BY <2>2, <2>3
  <2>5. CASE X \ {x} = {}
    <3>1. \A e \in X : e = x /\ e <= x
      BY <2>3, <2>5
    <3>. QED  BY <2>3, <3>1
  <2>6. CASE X \ {x} # {}
    <3>1. PICK m \in X \ {x} : \A e \in X \ {x} : e <= m
      BY <2>4, <2>6
    <3>2. m \in Nat /\ x \in Nat
      BY <2>3
    <3>3. m <= x => \A e \in X : e <= x
      BY <3>1, <3>2
    <3>4. x <= m => \A e \in X : e <= m
      BY <3>1, <3>2
    <3>. QED  BY <2>3, <3>1, <3>2, <3>3, <3>4
  <2>. QED  BY <2>5, <2>6
<1>2. S \notin Bad
  BY <1>1
<1>3. \E m \in S : \A e \in S : m >= e
  BY <1>2
<1>. QED  BY <1>3 DEF Max

-----------------------------------------------------------------------------
(* The order of the kills.                                                 *)

\* Finitely many kills with their times; any part of them is so too.
Timed(K, t) == K \subseteq Nat /\ IsFiniteSet(K) /\ \A k \in K : t[k] \in Nat

LEMMA TimedSubset ==
    ASSUME NEW K, NEW t, Timed(K, t), NEW P \in SUBSET K
    PROVE  Timed(P, t)
BY FS_Subset DEF Timed

LEMMA TimesFacts ==
    ASSUME NEW K, NEW t, Timed(K, t)
    PROVE  Times(K, t) \subseteq Nat /\ IsFiniteSet(Times(K, t)) /\ (K # {} => Times(K, t) # {})
<1>. DEFINE f == [k \in K |-> t[k]]
<1>1. f \in Surjection(K, Times(K, t))
  BY DEF Surjection, Times
<1>2. IsFiniteSet(Times(K, t))
  BY <1>1, FS_Surjection DEF Timed
<1>. QED  BY <1>2 DEF Timed, Times

\* Before orders the kills strictly and totally, along their times.
LEMMA BeforeIsOrder ==
    ASSUME NEW K, NEW t, Timed(K, t), NEW k \in K, NEW l \in K, NEW m \in K
    PROVE  /\ ~Before(k, k, t)
           /\ ~(Before(k, l, t) /\ Before(l, k, t))
           /\ Before(k, l, t) \/ Before(l, k, t) \/ k = l
           /\ Before(k, l, t) /\ Before(l, m, t) => Before(k, m, t)
           /\ Before(k, l, t) => t[k] <= t[l]
           /\ t[k] < t[l] => Before(k, l, t)
<1>1. k \in Nat /\ l \in Nat /\ m \in Nat /\ t[k] \in Nat /\ t[l] \in Nat /\ t[m] \in Nat
  BY DEF Timed
<1>. QED  BY <1>1 DEF Before

LEMMA EarliestExists ==
    ASSUME NEW K, NEW t, Timed(K, t), K # {}
    PROVE  \E k \in K : \A l \in K : ~Before(l, k, t)
<1>. DEFINE m == Min(Times(K, t))
            E == {k \in K : t[k] = m}
<1>1. m \in Times(K, t) /\ m \in Nat /\ \A e \in Times(K, t) : m <= e
  BY TimesFacts, MinIsIn
<1>. HIDE DEF m
<1>2. E # {} /\ E \subseteq Nat
  BY <1>1 DEF Times, Timed
<1>3. PICK k \in E : \A l \in E : k <= l
  <2>. HIDE DEF E
  <2>. QED  BY <1>2, LeastExists
<1>4. ASSUME NEW l \in K
      PROVE  ~Before(l, k, t)
  <2>1. k \in Nat /\ l \in Nat /\ t[k] = m /\ t[l] \in Nat /\ m <= t[l]
    BY <1>1 DEF Timed, Times
  <2>2. t[l] = m => k <= l
    BY <1>3
  <2>. QED  BY <1>1, <2>1, <2>2 DEF Before
<1>. QED  BY <1>4

LEMMA LatestExists ==
    ASSUME NEW K, NEW t, Timed(K, t), K # {}
    PROVE  \E k \in K : \A l \in K : ~Before(k, l, t)
<1>. DEFINE m == Max(Times(K, t))
            E == {k \in K : t[k] = m}
<1>1. m \in Times(K, t) /\ m \in Nat /\ \A e \in Times(K, t) : e <= m
  BY TimesFacts, MaxIsIn
<1>. HIDE DEF m
<1>2. E # {} /\ E \subseteq Nat /\ IsFiniteSet(E)
  BY <1>1, FS_Subset DEF Times, Timed
<1>. DEFINE k == Max(E)
<1>3. k \in E /\ \A l \in E : l <= k
  <2>. HIDE DEF E
  <2>. QED  BY <1>2, MaxIsIn
<1>. HIDE DEF k
<1>4. ASSUME NEW l \in K
      PROVE  ~Before(k, l, t)
  <2>1. k \in Nat /\ l \in Nat /\ t[k] = m /\ t[l] \in Nat /\ t[l] <= m
    BY <1>1, <1>3 DEF Timed, Times
  <2>2. t[l] = m => l <= k
    BY <1>3
  <2>. QED  BY <1>1, <2>1, <2>2 DEF Before
<1>. QED  BY <1>3, <1>4

-----------------------------------------------------------------------------
(* Runs.                                                                   *)

\* From every kill between k and l it is no further than the window to the next.
Linked(K, k, l, t) ==
    \A m \in {n \in K : (t[n] < t[k]) # (t[n] < t[l])} :
        \E n \in K : t[m] < t[n] /\ t[n] <= t[m] + Window

Opened(K, k, t) == UpTo(Openings(K, t), k, t)

\* Kills with the same openings behind them have no wide gap between them, and
\* only those.
LEMMA LinkedUpwards ==
    ASSUME NEW K, NEW t, Timed(K, t), NEW k \in K, NEW l \in K, ~Before(l, k, t)
    PROVE  Opened(K, k, t) = Opened(K, l, t) <=> Linked(K, k, l, t)
<1>. DEFINE O == Openings(K, t)
<1>1. /\ \A a \in K : t[a] \in Nat /\ ~Before(a, a, t)
      /\ \A a, b \in K : /\ ~(Before(a, b, t) /\ Before(b, a, t))
                         /\ Before(a, b, t) \/ Before(b, a, t) \/ a = b
                         /\ Before(a, b, t) => t[a] <= t[b]
                         /\ t[a] < t[b] => Before(a, b, t)
      /\ \A a, b, c \in K : Before(a, b, t) /\ Before(b, c, t) => Before(a, c, t)
  BY BeforeIsOrder DEF Timed
<1>2. Window \in Nat
  BY ClusteringAssumption
<1>3. O \subseteq K /\ \A p \in K : p \in O <=> \A q \in K : Before(q, p, t) => t[p] - t[q] > Window
  BY DEF Openings
<1>4. t[k] <= t[l]
  BY <1>1
<1>. HIDE DEF O
<1>5. ASSUME UpTo(O, k, t) = UpTo(O, l, t),
             NEW m \in K, (t[m] < t[k]) # (t[m] < t[l])
      PROVE  \E n \in K : t[m] < t[n] /\ t[n] <= t[m] + Window
  <2>1. t[k] <= t[m] /\ t[m] < t[l]
    BY <1>1, <1>4, <1>5
  <2>. DEFINE L == {n \in K : t[m] < t[n]}
  <2>2. L # {} /\ Timed(L, t)
    BY <2>1, TimedSubset
  <2>3. PICK n \in L : \A o \in L : ~Before(o, n, t)
    <3>. HIDE DEF L
    <3>. QED  BY <2>2, EarliestExists
  <2>4. n \in K /\ t[m] < t[n] /\ ~Before(l, n, t)
    BY <2>1, <2>3
  <2>5. Before(k, n, t)
    BY <1>1, <2>1, <2>4
  <2>6. n \notin O
    <3>. SUFFICES ASSUME n \in O PROVE FALSE
      OBVIOUS
    <3>1. n \in UpTo(O, l, t)
      BY <2>4 DEF UpTo
    <3>2. n \notin UpTo(O, k, t)
      BY <2>5 DEF UpTo
    <3>. QED  BY <1>5, <3>1, <3>2
  <2>7. PICK q \in K : Before(q, n, t) /\ ~(t[n] - t[q] > Window)
    BY <1>3, <2>4, <2>6
  <2>8. ~(t[m] < t[q])
    BY <1>1, <2>3, <2>4, <2>7
  <2>9. t[n] <= t[m] + Window
    BY <1>1, <1>2, <2>4, <2>7, <2>8
  <2>. QED  BY <2>4, <2>9
<1>6. ASSUME Linked(K, k, l, t)
      PROVE  UpTo(O, k, t) = UpTo(O, l, t)
  <2>1. \A p \in O : ~Before(k, p, t) => ~Before(l, p, t)
    BY <1>1, <1>3
  <2>2. ASSUME NEW p \in O, Before(k, p, t), ~Before(l, p, t)
        PROVE  FALSE
    <3>. DEFINE L == {n \in K : Before(n, p, t)}
    <3>1. L # {} /\ Timed(L, t)
      BY <2>2, TimedSubset
    <3>2. PICK m \in L : \A n \in L : ~Before(m, n, t)
      <4>. HIDE DEF L
      <4>. QED  BY <3>1, LatestExists
    <3>3. m \in K /\ p \in K /\ t[p] - t[m] > Window /\ t[p] <= t[l]
      BY <1>1, <1>3, <2>2, <3>2
    <3>4. t[k] <= t[m]
      <4>1. ~Before(m, k, t)
        BY <2>2, <3>2
      <4>. QED  BY <1>1, <3>3, <4>1
    <3>5. (t[m] < t[k]) # (t[m] < t[l])
      BY <1>1, <1>2, <3>3, <3>4
    <3>6. PICK n \in K : t[m] < t[n] /\ t[n] <= t[m] + Window
      BY <1>6, <3>3, <3>5 DEF Linked
    <3>7. Before(n, p, t)
      BY <1>1, <1>2, <3>3, <3>6
    <3>8. Before(m, n, t)
      BY <1>1, <3>3, <3>6
    <3>. QED  BY <3>2, <3>7, <3>8
  <2>. QED  BY <2>1, <2>2 DEF UpTo
<1>. QED  BY <1>5, <1>6 DEF Linked, Opened, O

LEMMA RunsAreLinked ==
    ASSUME NEW K, NEW t, Timed(K, t), NEW k \in K, NEW l \in K
    PROVE  Opened(K, k, t) = Opened(K, l, t) <=> Linked(K, k, l, t)
<1>1. CASE ~Before(l, k, t)
  BY <1>1, LinkedUpwards
<1>2. CASE Before(l, k, t)
  <2>1. ~Before(k, l, t)
    BY <1>2, BeforeIsOrder
  <2>2. Opened(K, l, t) = Opened(K, k, t) <=> Linked(K, l, k, t)
    BY <2>1, LinkedUpwards
  <2>3. Linked(K, l, k, t) <=> Linked(K, k, l, t)
    BY DEF Linked
  <2>. QED  BY <2>2, <2>3
<1>. QED  BY <1>1, <1>2

-----------------------------------------------------------------------------
(* Cuts.                                                                   *)

\* A gap reaches to the next kill of the piece.
LEMMA GapFacts ==
    ASSUME NEW P, NEW t, Timed(P, t), NEW k \in P, After(P, k, t) # {}
    PROVE  /\ Gap(P, k, t) \in Nat
           /\ \A l \in After(P, k, t) : Gap(P, k, t) <= t[l] - t[k]
           /\ \E l \in After(P, k, t) : Gap(P, k, t) = t[l] - t[k]
<1>. DEFINE A == After(P, k, t)
            m == Min(Times(A, t))
<1>1. A \subseteq P /\ Timed(A, t) /\ A # {}
  BY TimedSubset DEF After
<1>2. \A l \in A : t[l] \in Nat /\ t[k] \in Nat /\ t[k] <= t[l]
  BY BeforeIsOrder DEF Timed, After
<1>. HIDE DEF A
<1>3. m \in Times(A, t) /\ m \in Nat /\ \A e \in Times(A, t) : m <= e
  BY <1>1, TimesFacts, MinIsIn
<1>4. Gap(P, k, t) = m - t[k]
  BY DEF Gap, A
<1>. HIDE DEF m
<1>5. \A l \in A : m <= t[l]
  BY <1>3 DEF Times
<1>6. PICK l \in A : m = t[l]
  BY <1>3 DEF Times
<1>. QED  BY <1>2, <1>3, <1>4, <1>5, <1>6 DEF A

FromMiddle(P, k, t) ==
    LET i == Cardinality(UpTo(P, k, t)) IN
    IF 2 * i >= Cardinality(P) THEN 2 * i - Cardinality(P) ELSE Cardinality(P) - 2 * i
Inner(P, t) == {k \in P : After(P, k, t) # {}}
BestCut(P, k, t) ==
    \A l \in Inner(P, t) :
       \/ Gap(P, l, t) < Gap(P, k, t)
       \/ /\ Gap(P, l, t) = Gap(P, k, t)
          /\ \/ FromMiddle(P, l, t) > FromMiddle(P, k, t)
             \/ FromMiddle(P, l, t) = FromMiddle(P, k, t) /\ ~Before(k, l, t)

\* The candidates are totally ordered, so that one of them is chosen.
LEMMA SplitKillExists ==
    ASSUME NEW P, NEW t, Timed(P, t), Inner(P, t) # {}
    PROVE  SplitKill(P, t) \in Inner(P, t) /\ BestCut(P, SplitKill(P, t), t)
<1>. DEFINE I == Inner(P, t)
            G == {Gap(P, k, t) : k \in I}
            g == Max(G)
            I1 == {k \in I : Gap(P, k, t) = g}
            M == {FromMiddle(P, k, t) : k \in I1}
            mid == Min(M)
            I2 == {k \in I1 : FromMiddle(P, k, t) = mid}
<1>1. I \subseteq P /\ I # {} /\ IsFiniteSet(I) /\ \A k \in I : Gap(P, k, t) \in Nat
  <2>1. I \subseteq P /\ I # {} /\ \A k \in I : Gap(P, k, t) \in Nat
    BY GapFacts DEF Inner
  <2>2. IsFiniteSet(I)
    BY <2>1, FS_Subset DEF Timed
  <2>. QED  BY <2>1, <2>2
<1>2. G \subseteq Nat /\ G # {} /\ IsFiniteSet(G)
  <2>. DEFINE f == [k \in I |-> Gap(P, k, t)]
  <2>. HIDE DEF I
  <2>1. f \in Surjection(I, G)
    BY DEF Surjection
  <2>2. IsFiniteSet(G)
    BY <1>1, <2>1, FS_Surjection
  <2>. QED  BY <1>1, <2>2
<1>. HIDE DEF I
<1>3. g \in G /\ g \in Nat /\ \A e \in G : e <= g
  <2>. HIDE DEF G
  <2>. QED  BY <1>2, MaxIsIn
<1>. HIDE DEF g
<1>4. I1 # {} /\ I1 \subseteq P /\ \A k \in I : Gap(P, k, t) <= g
  BY <1>1, <1>3
<1>5. \A k \in P : FromMiddle(P, k, t) \in Nat
  <2>. TAKE k \in P
  <2>1. IsFiniteSet(P) /\ UpTo(P, k, t) \in SUBSET P
    BY DEF Timed, UpTo
  <2>2. Cardinality(P) \in Nat /\ Cardinality(UpTo(P, k, t)) \in Nat
    BY <2>1, FS_Subset, FS_CardinalityType
  <2>. QED  BY <2>2 DEF FromMiddle
<1>6. M \subseteq Nat /\ M # {}
  BY <1>4, <1>5
<1>7. mid \in M /\ mid \in Nat /\ \A e \in M : mid <= e
  <2>. HIDE DEF M
  <2>. QED  BY <1>6, MinIsIn
<1>. HIDE DEF mid
<1>8. I2 # {} /\ Timed(I2, t) /\ \A k \in I1 : mid <= FromMiddle(P, k, t)
  <2>1. I2 # {} /\ I2 \in SUBSET P /\ \A k \in I1 : mid <= FromMiddle(P, k, t)
    BY <1>4, <1>7
  <2>. HIDE DEF I2
  <2>2. Timed(I2, t)
    BY <2>1, TimedSubset
  <2>. QED  BY <2>1, <2>2
<1>9. PICK k \in I2 : \A l \in I2 : ~Before(k, l, t)
  <2>. HIDE DEF I2
  <2>. QED  BY <1>8, LatestExists
<1>10. k \in I /\ k \in P /\ Gap(P, k, t) = g /\ FromMiddle(P, k, t) = mid
  BY <1>4, <1>9
<1>11. ASSUME NEW l \in I
       PROVE  \/ Gap(P, l, t) < Gap(P, k, t)
              \/ /\ Gap(P, l, t) = Gap(P, k, t)
                 /\ \/ FromMiddle(P, l, t) > FromMiddle(P, k, t)
                    \/ FromMiddle(P, l, t) = FromMiddle(P, k, t) /\ ~Before(k, l, t)
  <2>1. l \in P /\ Gap(P, l, t) \in Nat /\ Gap(P, l, t) <= g
    BY <1>1, <1>4
  <2>2. CASE Gap(P, l, t) # g
    BY <1>3, <1>10, <2>1, <2>2
  <2>3. CASE Gap(P, l, t) = g
    <3>1. FromMiddle(P, l, t) \in Nat /\ mid <= FromMiddle(P, l, t)
      BY <1>5, <1>8, <2>1, <2>3
    <3>2. FromMiddle(P, l, t) = mid => ~Before(k, l, t)
      BY <1>9, <2>3
    <3>. QED  BY <1>7, <1>10, <2>3, <3>1, <3>2
  <2>. QED  BY <2>2, <2>3
<1>12. BestCut(P, k, t) /\ k \in Inner(P, t)
  BY <1>10, <1>11 DEF BestCut, I
<1>13. SplitKill(P, t) = CHOOSE x \in Inner(P, t) : BestCut(P, x, t)
  BY DEF SplitKill, BestCut, Inner, FromMiddle
<1>. QED  BY <1>12, <1>13

\* A piece that is too long is cut into two, and the kills of one are all before
\* those of the other.
LEMMA CutFacts ==
    ASSUME NEW P, NEW t, Timed(P, t), P # {}, ~Short(P, t)
    PROVE  LET k == SplitKill(P, t)
               A == UpTo(P, k, t)
               B == After(P, k, t)
           IN /\ A \in SUBSET P /\ B \in SUBSET P /\ A # {} /\ B # {}
              /\ A \union B = P /\ A # P /\ B # P
              /\ \A a \in A, b \in B : t[a] < t[b]
<1>. DEFINE k == SplitKill(P, t)
            A == UpTo(P, k, t)
            B == After(P, k, t)
<1>1. /\ \A a \in P : t[a] \in Nat /\ ~Before(a, a, t)
      /\ \A a, b \in P : /\ Before(a, b, t) => t[a] <= t[b]
                         /\ t[a] < t[b] => Before(a, b, t)
                         /\ Before(a, b, t) \/ Before(b, a, t) \/ a = b
  BY BeforeIsOrder DEF Timed
<1>2. Max(Times(P, t)) \in Times(P, t) /\ Min(Times(P, t)) \in Times(P, t)
      /\ Min(Times(P, t)) \in Nat /\ \A e \in Times(P, t) : Min(Times(P, t)) <= e
  BY TimesFacts, MinIsIn, MaxIsIn
<1>3. PICK lo \in P, hi \in P : t[lo] = Min(Times(P, t)) /\ t[hi] = Max(Times(P, t))
  BY <1>2 DEF Times
<1>4. t[lo] < t[hi] /\ \A a \in P : t[lo] <= t[a]
  <2>1. ~(t[hi] - t[lo] <= MaxDuration)
    BY <1>3 DEF Short, Span
  <2>2. \A a \in P : t[lo] <= t[a]
    BY <1>2, <1>3 DEF Times
  <2>. QED  BY <1>1, <2>1, <2>2, ClusteringAssumption
<1>. DEFINE L == {a \in P : t[a] = t[lo]}
<1>5. PICK j \in L : \A a \in L : ~Before(j, a, t)
  <2>1. L # {} /\ L \in SUBSET P
    OBVIOUS
  <2>. HIDE DEF L
  <2>2. Timed(L, t)
    BY <2>1, TimedSubset
  <2>. QED  BY <2>1, <2>2, LatestExists
<1>6. /\ j \in P /\ After(P, j, t) # {}
      /\ \A a \in After(P, j, t) : t[j] < t[a]
  <2>1. j \in P /\ t[j] = t[lo]
    OBVIOUS
  <2>2. hi \in After(P, j, t)
    BY <1>1, <1>4, <2>1 DEF After
  <2>3. \A a \in After(P, j, t) : a \in P /\ a \notin L /\ t[lo] <= t[a]
    BY <1>4, <1>5 DEF After
  <2>. QED  BY <1>1, <2>1, <2>2, <2>3
<1>7. Gap(P, j, t) \in Nat /\ Gap(P, j, t) > 0 /\ j \in Inner(P, t)
  <2>1. PICK a \in After(P, j, t) : Gap(P, j, t) = t[a] - t[j] /\ Gap(P, j, t) \in Nat
    BY <1>6, GapFacts
  <2>2. a \in P
    BY DEF After
  <2>. QED  BY <1>1, <1>6, <2>1, <2>2 DEF Inner
<1>8. k \in P /\ B # {} /\ BestCut(P, k, t)
  BY <1>7, SplitKillExists DEF Inner
<1>. HIDE DEF k
<1>9. Gap(P, k, t) > 0
  <2>1. Gap(P, j, t) < Gap(P, k, t) \/ Gap(P, j, t) = Gap(P, k, t)
    BY <1>7, <1>8 DEF BestCut
  <2>2. Gap(P, k, t) \in Nat
    BY <1>8, GapFacts
  <2>. QED  BY <1>7, <2>1, <2>2
<1>10. ASSUME NEW a \in A, NEW b \in B
       PROVE  t[a] < t[b]
  <2>1. a \in P /\ b \in P /\ ~Before(k, a, t)
    BY DEF UpTo, After
  <2>2. Gap(P, k, t) <= t[b] - t[k] /\ Gap(P, k, t) \in Nat
    BY <1>8, GapFacts
  <2>3. t[a] <= t[k]
    BY <1>1, <1>8, <2>1
  <2>. QED  BY <1>1, <1>8, <1>9, <2>1, <2>2, <2>3
<1>11. k \in A /\ k \notin B
  BY <1>1, <1>8 DEF UpTo, After
<1>12. A \in SUBSET P /\ B \in SUBSET P /\ A \union B = P /\ A \cap B = {}
  BY DEF UpTo, After
<1>13. A # P /\ B # P
  BY <1>8, <1>11, <1>12
<1>. QED  BY <1>8, <1>10, <1>11, <1>12, <1>13 DEF k

-----------------------------------------------------------------------------
(* The recursion of the cuts.                                              *)

Cuts(g, P, t) ==
    IF Short(P, t) THEN {P}
    ELSE g[UpTo(P, SplitKill(P, t), t)] \union g[After(P, SplitKill(P, t), t)]

Splits(g, D, t) == g = [P \in D |-> Cuts(g, P, t)]

\* There is a function that does what the recursion says, found for larger and
\* larger pieces.
LEMMA SplitsExist ==
    ASSUME NEW run, NEW t, Timed(run, t)
    PROVE  \E g : Splits(g, SUBSET run, t)
<1>. DEFINE Small(n) == {P \in SUBSET run : Cardinality(P) <= n}
            Bad == {n \in Nat : ~\E g : Splits(g, Small(n), t)}
<1>1. IsFiniteSet(run) /\ \A P \in SUBSET run : IsFiniteSet(P) /\ Cardinality(P) \in Nat
  <2>1. IsFiniteSet(run)
    BY DEF Timed
  <2>. QED  BY <2>1, FS_Subset, FS_CardinalityType
<1>2. Bad = {}
  <2>. SUFFICES ASSUME Bad # {} PROVE FALSE
    OBVIOUS
  <2>1. PICK n \in Bad : \A m \in Bad : n <= m
    <3>1. Bad \subseteq Nat
      OBVIOUS
    <3>. HIDE DEF Bad
    <3>. QED  BY <3>1, LeastExists
  <2>2. n \in Nat /\ ~\E g : Splits(g, Small(n), t)
    BY <2>1
  <2>3. CASE n = 0
    <3>. DEFINE g == [P \in Small(0) |-> {P}]
    <3>1. \A P \in Small(0) : Cuts(g, P, t) = {P}
      BY <1>1 DEF Cuts, Short
    <3>2. Splits(g, Small(0), t)
      BY <3>1 DEF Splits
    <3>. QED  BY <2>2, <2>3, <3>2
  <2>4. CASE n # 0
    <3>1. n - 1 \in Nat /\ n - 1 \notin Bad
      <4>1. n - 1 \in Nat /\ ~(n <= n - 1)
        BY <2>2, <2>4
      <4>. HIDE DEF Bad
      <4>. QED  BY <2>1, <4>1
    <3>2. PICK g : Splits(g, Small(n - 1), t)
      BY <3>1
    <3>. DEFINE h == [P \in Small(n) |-> Cuts(g, P, t)]
    <3>3. \A P \in Small(n - 1) : P \in Small(n) /\ h[P] = g[P]
      BY <1>1, <2>2, <3>2 DEF Splits
    <3>4. ASSUME NEW P \in Small(n), ~Short(P, t)
          PROVE  UpTo(P, SplitKill(P, t), t) \in Small(n - 1)
                 /\ After(P, SplitKill(P, t), t) \in Small(n - 1)
      <4>1. P \in SUBSET run /\ Cardinality(P) <= n /\ Cardinality(P) \in Nat
        BY <1>1
      <4>2. P # {}
        <5>1. Cardinality({}) = 0
          BY FS_EmptySet
        <5>. QED  BY <3>4, <5>1 DEF Short
      <4>3. Timed(P, t)
        BY <4>1, TimedSubset
      <4>. DEFINE A == UpTo(P, SplitKill(P, t), t)
                  B == After(P, SplitKill(P, t), t)
      <4>4. A \in SUBSET P /\ B \in SUBSET P /\ A # P /\ B # P
        BY <3>4, <4>2, <4>3, CutFacts
      <4>. HIDE DEF A, B
      <4>5. ASSUME NEW Q \in SUBSET P, Q # P
            PROVE  Q \in Small(n - 1)
        <5>1. Cardinality(Q) <= Cardinality(P) /\ Cardinality(P) # Cardinality(Q)
          BY <1>1, <4>1, <4>5, FS_Subset
        <5>2. Q \in SUBSET run /\ Cardinality(Q) \in Nat
          BY <1>1, <4>1
        <5>. QED  BY <2>2, <4>1, <5>1, <5>2
      <4>. QED  BY <4>4, <4>5 DEF A, B
    <3>. HIDE DEF h
    <3>5. \A P \in Small(n) : Cuts(h, P, t) = Cuts(g, P, t)
      BY <3>3, <3>4 DEF Cuts
    <3>6. Splits(h, Small(n), t)
      BY <3>5 DEF Splits, h
    <3>. QED  BY <2>2, <3>6
  <2>. QED  BY <2>3, <2>4
<1>3. \E g : Splits(g, Small(Cardinality(run)), t)
  BY <1>1, <1>2
<1>4. Small(Cardinality(run)) = SUBSET run
  BY <1>1, FS_Subset
<1>. QED  BY <1>3, <1>4

SplitOf(run, t) == CHOOSE g : Splits(g, SUBSET run, t)

\* The recursion of SplitOnMaxDuration unfolds.
LEMMA SplitIsRecursive ==
    ASSUME NEW run, NEW t, Timed(run, t)
    PROVE  /\ SplitOnMaxDuration(run, t) = SplitOf(run, t)[run]
           /\ \A P \in SUBSET run : SplitOf(run, t)[P] = Cuts(SplitOf(run, t), P, t)
<1>1. SplitOnMaxDuration(run, t) = SplitOf(run, t)[run]
  BY DEF SplitOnMaxDuration, SplitOf, Splits, Cuts
<1>2. Splits(SplitOf(run, t), SUBSET run, t)
  BY SplitsExist DEF SplitOf
<1>. QED  BY <1>1, <1>2 DEF Splits

Earlier(C, D, t) == \A c \in C, d \in D : t[c] < t[d]

\* S cuts P into stretches of time, each within the cap, and leaves a short P alone.
Pieces(S, P, t) ==
    /\ UNION S = P /\ {} \notin S
    /\ \A C \in S : Span(C, t) <= MaxDuration
    /\ \A C, D \in S : C # D => Earlier(C, D, t) \/ Earlier(D, C, t)
    /\ Span(P, t) <= MaxDuration => S = {P}

LEMMA ShortIsWithinCap ==
    ASSUME NEW P, NEW t, Timed(P, t), P # {}
    PROVE  Short(P, t) <=> Span(P, t) <= MaxDuration
<1>1. ASSUME Cardinality(P) < 2
      PROVE  Span(P, t) <= MaxDuration
  <2>1. Cardinality(P) = 1
    BY <1>1, FS_EmptySet, FS_CardinalityType DEF Timed
  <2>2. PICK k : P = {k}
    BY <2>1, FS_Singleton DEF Timed
  <2>3. Times(P, t) = {t[k]} /\ t[k] \in Nat
    BY <2>2 DEF Times, Timed
  <2>4. Max(Times(P, t)) = t[k] /\ Min(Times(P, t)) = t[k]
    BY <2>3 DEF Max, Min
  <2>. QED  BY <2>3, <2>4, ClusteringAssumption DEF Span
<1>. QED  BY <1>1 DEF Short

LEMMA PiecesJoin ==
    ASSUME NEW P, NEW t, NEW A, NEW B, NEW S, NEW U,
           A \union B = P, Earlier(A, B, t), Pieces(S, A, t), Pieces(U, B, t),
           ~(Span(P, t) <= MaxDuration)
    PROVE  Pieces(S \union U, P, t)
<1>1. \A C \in S, D \in U : Earlier(C, D, t)
  BY DEF Pieces, Earlier
<1>. QED  BY <1>1 DEF Pieces

\* A run falls into pieces that partition it, within the cap, each a stretch of
\* time of its own; one that fits stays whole.
LEMMA SplitCuts ==
    ASSUME NEW run, NEW t, Timed(run, t), run # {}
    PROVE  Pieces(SplitOnMaxDuration(run, t), run, t)
<1>. DEFINE s == SplitOf(run, t)
            Bad == {P \in SUBSET run : P # {} /\ ~Pieces(s[P], P, t)}
<1>. HIDE DEF s
<1>1. \A P \in SUBSET run : s[P] = Cuts(s, P, t)
  BY SplitIsRecursive DEF s
<1>2. Bad = {}
  <2>. SUFFICES ASSUME Bad # {} PROVE FALSE
    OBVIOUS
  <2>1. PICK P \in Bad : \A Q \in Bad : Q \subseteq P => Q = P
    <3>1. FamilyIn(Bad, run) /\ IsFiniteSet(run)
      BY DEF FamilyIn, Timed
    <3>. HIDE DEF Bad
    <3>. QED  BY <3>1, MinimalSubset
  <2>2. P \in SUBSET run /\ P # {} /\ ~Pieces(s[P], P, t)
    BY <2>1
  <2>3. Timed(P, t)
    BY <2>2, TimedSubset
  <2>4. CASE Short(P, t)
    <3>1. s[P] = {P}
      BY <1>1, <2>2, <2>4 DEF Cuts
    <3>2. Pieces({P}, P, t)
      BY <2>2, <2>3, <2>4, ShortIsWithinCap DEF Pieces
    <3>. QED  BY <2>2, <3>1, <3>2
  <2>5. CASE ~Short(P, t)
    <3>. DEFINE A == UpTo(P, SplitKill(P, t), t)
                B == After(P, SplitKill(P, t), t)
    <3>1. s[P] = s[A] \union s[B]
      BY <1>1, <2>2, <2>5 DEF Cuts
    <3>2. /\ A \in SUBSET P /\ B \in SUBSET P /\ A # {} /\ B # {}
          /\ A \union B = P /\ A # P /\ B # P
          /\ \A a \in A, b \in B : t[a] < t[b]
      BY <2>2, <2>3, <2>5, CutFacts
    <3>. HIDE DEF A, B
    <3>3. A \notin Bad /\ B \notin Bad
      <4>. HIDE DEF Bad
      <4>. QED  BY <2>1, <3>2
    <3>4. Pieces(s[A], A, t) /\ Pieces(s[B], B, t)
      BY <2>2, <3>2, <3>3
    <3>5. ~(Span(P, t) <= MaxDuration)
      BY <2>2, <2>3, <2>5, ShortIsWithinCap
    <3>6. Pieces(s[A] \union s[B], P, t)
      BY <3>2, <3>4, <3>5, PiecesJoin DEF Earlier
    <3>. QED  BY <2>2, <3>1, <3>6
  <2>. QED  BY <2>4, <2>5
<1>3. run \notin Bad /\ run \in SUBSET run
  BY <1>2
<1>. QED  BY <1>3, SplitIsRecursive DEF s

-----------------------------------------------------------------------------
(* The fights of a set of kills.                                           *)

InSystem(K, x, sys) == {k \in K : sys[k] = x}

\* The run of k, said by its links.
RunOf(K, k, t, sys) ==
    {l \in K : sys[l] = sys[k] /\ Linked(InSystem(K, sys[k], sys), k, l, t)}

\* _close_chain finds the runs: kills of one chain are linked, and no others.
LEMMA ChainsAreRuns ==
    ASSUME NEW K, NEW t, NEW sys, Timed(K, t), NEW x
    PROVE  CloseChain(InSystem(K, x, sys), t) = {RunOf(K, k, t, sys) : k \in InSystem(K, x, sys)}
<1>. DEFINE H == InSystem(K, x, sys)
<1>1. H \in SUBSET K
  BY DEF InSystem
<1>2. Timed(H, t)
  BY <1>1, TimedSubset
<1>3. CloseChain(H, t) = {{l \in H : Opened(H, l, t) = Opened(H, k, t)} : k \in H}
  BY DEF CloseChain, Opened
<1>4. ASSUME NEW k \in H
      PROVE  {l \in H : Opened(H, l, t) = Opened(H, k, t)} = RunOf(K, k, t, sys)
  <2>1. sys[k] = x /\ \A l : l \in H <=> l \in K /\ sys[l] = x
    BY DEF InSystem
  <2>. HIDE DEF H
  <2>2. \A l \in H : Opened(H, l, t) = Opened(H, k, t) <=> Linked(H, k, l, t)
    BY <1>2, RunsAreLinked
  <2>3. RunOf(K, k, t, sys) = {l \in H : Linked(H, k, l, t)}
    BY <2>1 DEF RunOf, H
  <2>. QED  BY <2>2, <2>3
<1>5. {{l \in H : Opened(H, l, t) = Opened(H, k, t)} : k \in H} = {RunOf(K, k, t, sys) : k \in H}
  <2>. HIDE DEF H
  <2>. QED  BY <1>4
<1>. QED  BY <1>3, <1>5

\* The classes of the kills of a system partition them.
LEMMA RunsPartition ==
    ASSUME NEW K, NEW t, NEW sys, Timed(K, t), NEW k \in K
    PROVE  /\ k \in RunOf(K, k, t, sys) /\ RunOf(K, k, t, sys) \in SUBSET K
           /\ \A l \in RunOf(K, k, t, sys) : RunOf(K, l, t, sys) = RunOf(K, k, t, sys)
<1>. DEFINE H == InSystem(K, sys[k], sys)
<1>1. H \in SUBSET K /\ \A l : l \in H <=> l \in K /\ sys[l] = sys[k]
  BY DEF InSystem
<1>2. Timed(H, t)
  BY <1>1, TimedSubset
<1>. HIDE DEF H
<1>3. \A j, l \in H : Opened(H, j, t) = Opened(H, l, t) <=> Linked(H, j, l, t)
  BY <1>2, RunsAreLinked
<1>4. ASSUME NEW j \in H
      PROVE  RunOf(K, j, t, sys) = {l \in H : Opened(H, j, t) = Opened(H, l, t)}
  <2>1. InSystem(K, sys[j], sys) = H /\ sys[j] = sys[k]
    BY <1>1 DEF H
  <2>2. RunOf(K, j, t, sys) = {l \in H : Linked(H, j, l, t)}
    BY <1>1, <2>1 DEF RunOf
  <2>. QED  BY <1>3, <2>2
<1>5. k \in H
  BY <1>1
<1>. QED  BY <1>1, <1>4, <1>5

LEMMA FightsFacts ==
    ASSUME NEW K, NEW t, NEW sys, Timed(K, t)
    PROVE  \A C : C \in ClusterKills(K, t, sys) <=>
             \E k \in K : C \in SplitOnMaxDuration(RunOf(K, k, t, sys), t)
<1>. DEFINE F == ClusterKills(K, t, sys)
            of(x) == {RunOf(K, k, t, sys) : k \in InSystem(K, x, sys)}
<1>1. F = UNION {UNION {SplitOnMaxDuration(run, t) : run \in CloseChain(InSystem(K, x, sys), t)} :
                   x \in {sys[k] : k \in K}}
  BY DEF ClusterKills, InSystem
<1>2. \A x : CloseChain(InSystem(K, x, sys), t) = of(x)
  BY ChainsAreRuns
<1>. HIDE DEF F
<1>3. F = UNION {UNION {SplitOnMaxDuration(run, t) : run \in of(x)} : x \in {sys[k] : k \in K}}
  BY <1>1, <1>2
<1>4. \A k \in K : \A x : k \in InSystem(K, x, sys) <=> sys[k] = x
  BY DEF InSystem
<1>5. \A x : InSystem(K, x, sys) \subseteq K
  BY DEF InSystem
<1>. QED  BY <1>3, <1>4, <1>5 DEF F

\* The fights of any kills: each kill is in one, and every run is one fight or,
\* if longer than the cap, the union of some within the cap.
LEMMA FightsPartition ==
    ASSUME NEW K, NEW t, NEW sys, Timed(K, t)
    PROVE  LET F == ClusterKills(K, t, sys) IN
           /\ UNION F = K /\ {} \notin F
           /\ \A C, D \in F : C # D => C \cap D = {}
           /\ \A C \in F : Span(C, t) <= MaxDuration
           /\ \A k \in K : LET R == RunOf(K, k, t, sys) IN
                /\ Span(R, t) <= MaxDuration => R \in F
                /\ UNION {C \in F : C \subseteq R} = R
                /\ \A C, D \in {G \in F : G \subseteq R} :
                     C # D => Earlier(C, D, t) \/ Earlier(D, C, t)
<1>. DEFINE F == ClusterKills(K, t, sys)
            R(k) == RunOf(K, k, t, sys)
            S(k) == SplitOnMaxDuration(R(k), t)
<1>1. \A C : C \in F <=> \E k \in K : C \in S(k)
  BY FightsFacts
<1>2. \A k \in K : k \in R(k) /\ R(k) \in SUBSET K /\ \A l \in R(k) : R(l) = R(k)
  BY RunsPartition
<1>3. \A k \in K : Pieces(S(k), R(k), t)
  <2>. TAKE k \in K
  <2>1. R(k) # {} /\ Timed(R(k), t)
    BY <1>2, TimedSubset
  <2>. HIDE DEF R
  <2>. QED  BY <2>1, SplitCuts
<1>. HIDE DEF F, R, S
<1>4. \A k \in K : /\ UNION S(k) = R(k) /\ {} \notin S(k)
                   /\ \A C \in S(k) : Span(C, t) <= MaxDuration
                   /\ \A C, D \in S(k) : C # D => Earlier(C, D, t) \/ Earlier(D, C, t)
                   /\ Span(R(k), t) <= MaxDuration => S(k) = {R(k)}
  BY <1>3 DEF Pieces
<1>5. \A j, k \in K : j \in R(k) => R(j) = R(k) /\ S(j) = S(k)
  BY <1>2 DEF S
<1>6. \A k \in K : \A C \in F : C \subseteq R(k) => C \in S(k)
  <2>. TAKE k \in K
  <2>. TAKE C \in F
  <2>. HAVE C \subseteq R(k)
  <2>1. PICK j \in K : C \in S(j)
    BY <1>1
  <2>2. PICK c : c \in C
    BY <1>4, <2>1
  <2>3. c \in K /\ c \in R(j) /\ c \in R(k)
    BY <1>2, <1>4, <2>1, <2>2
  <2>. QED  BY <1>5, <2>1, <2>3
<1>7. UNION F = K /\ {} \notin F
  <2>1. \A C \in F : C \in SUBSET K
    BY <1>1, <1>2, <1>4
  <2>2. \A k \in K : \E C \in F : k \in C
    BY <1>1, <1>2, <1>4
  <2>. QED  BY <1>1, <1>4, <2>1, <2>2
<1>8. ASSUME NEW C \in F, NEW D \in F, C # D, NEW c \in C, c \in D
      PROVE  FALSE
  <2>1. PICK j \in K, k \in K : C \in S(j) /\ D \in S(k)
    BY <1>1
  <2>2. c \in R(j) /\ c \in R(k) /\ c \in K
    BY <1>2, <1>4, <1>8, <2>1
  <2>3. D \in S(j)
    BY <1>5, <2>1, <2>2
  <2>4. Earlier(C, D, t) \/ Earlier(D, C, t)
    BY <1>4, <1>8, <2>1, <2>3
  <2>5. t[c] < t[c] /\ t[c] \in Nat
    BY <1>8, <2>2, <2>4 DEF Earlier, Timed
  <2>. QED  BY <2>5
<1>9. \A C \in F : Span(C, t) <= MaxDuration
  BY <1>1, <1>4
<1>10. ASSUME NEW k \in K
       PROVE  /\ Span(R(k), t) <= MaxDuration => R(k) \in F
              /\ UNION {C \in F : C \subseteq R(k)} = R(k)
              /\ \A C, D \in {G \in F : G \subseteq R(k)} :
                   C # D => Earlier(C, D, t) \/ Earlier(D, C, t)
  <2>1. {C \in F : C \subseteq R(k)} = S(k)
    <3>1. \A C \in S(k) : C \in F /\ C \subseteq R(k)
      BY <1>1, <1>4
    <3>. QED  BY <1>6, <3>1
  <2>2. Span(R(k), t) <= MaxDuration => R(k) \in F
    BY <1>1, <1>4
  <2>. QED  BY <1>4, <2>1, <2>2
<1>. QED  BY <1>7, <1>8, <1>9, <1>10 DEF F, R

\* What links two kills still does when another kill is known.
LEMMA LinksGrow ==
    ASSUME NEW K, NEW t, NEW sys, NEW x, Timed(K \union {x}, t), NEW k \in K,
           NEW l \in RunOf(K, k, t, sys)
    PROVE  l \in RunOf(K \union {x}, k, t, sys)
<1>. DEFINE H == InSystem(K, sys[k], sys)
            G == InSystem(K \union {x}, sys[k], sys)
<1>1. /\ H \in SUBSET G /\ k \in H /\ l \in H /\ sys[l] = sys[k] /\ Linked(H, k, l, t)
      /\ \A g \in G : g \in H \/ g = x
  BY DEF InSystem, RunOf
<1>2. Timed(G, t)
  <2>1. G \in SUBSET (K \union {x})
    BY DEF InSystem
  <2>. QED  BY <2>1, TimedSubset
<1>. HIDE DEF G, H
<1>3. \A g \in G : t[g] \in Nat
  BY <1>2 DEF Timed
<1>4. Window \in Nat
  BY ClusteringAssumption
<1>5. ASSUME NEW m \in G, (t[m] < t[k]) # (t[m] < t[l])
      PROVE  \E n \in G : t[m] < t[n] /\ t[n] <= t[m] + Window
  <2>1. CASE m \in H
    BY <1>1, <1>5, <2>1 DEF Linked
  <2>2. CASE m \notin H
    <3>. DEFINE L == {n \in H : t[n] <= t[m]}
    <3>1. L # {}
      BY <1>1, <1>3, <1>5
    <3>2. Timed(L, t)
      <4>1. L \in SUBSET G
        BY <1>1
      <4>. HIDE DEF L
      <4>. QED  BY <1>2, <4>1, TimedSubset
    <3>3. PICK h \in L : \A n \in L : ~Before(h, n, t)
      <4>. HIDE DEF L
      <4>. QED  BY <3>1, <3>2, LatestExists
    <3>4. h \in H /\ h \in G /\ t[h] <= t[m] /\ \A n \in L : t[n] <= t[h]
      <4>1. \A n \in L : n \in G
        BY <1>1
      <4>2. \A n \in L : ~(t[h] < t[n])
        BY <3>3 DEF Before
      <4>. QED  BY <1>1, <1>3, <4>1, <4>2
    <3>5. (t[h] < t[k]) # (t[h] < t[l])
      BY <1>1, <1>3, <1>5, <3>4
    <3>6. PICK n \in H : t[h] < t[n] /\ t[n] <= t[h] + Window
      BY <1>1, <3>4, <3>5 DEF Linked
    <3>7. n \in G /\ n \notin L
      BY <1>1, <1>3, <3>4, <3>6
    <3>8. t[m] < t[n] /\ t[n] <= t[m] + Window
      BY <1>3, <1>4, <3>4, <3>6, <3>7
    <3>. QED  BY <3>7, <3>8
  <2>. QED  BY <2>1, <2>2
<1>6. Linked(G, k, l, t)
  BY <1>5 DEF Linked
<1>. QED  BY <1>1, <1>6 DEF RunOf, G, InSystem

-----------------------------------------------------------------------------
(* Reports that grow.                                                      *)

LEMMA RunsOfAreRuns ==
    ASSUME NEW K
    PROVE  RunsOf(K) = {RunOf(K, k, time, system) : k \in K}
<1>1. ASSUME NEW k \in K, NEW l \in K
      PROVE  SameRun(K, k, l) <=> system[l] = system[k] /\ Linked(InSystem(K, system[k], system), k, l, time)
  BY DEF SameRun, Linked, InSystem
<1>2. \A k \in K : {l \in K : SameRun(K, k, l)} = RunOf(K, k, time, system)
  BY <1>1 DEF RunOf
<1>. QED  BY <1>2 DEF RunsOf

LEMMA EarlierIsBefore ==
    ASSUME NEW C, NEW D, Timed(C, time), Timed(D, time), C # {}, D # {}, Earlier(C, D, time)
    PROVE  Final(C) < First(D)
<1>1. Max(Times(C, time)) \in Times(C, time) /\ Min(Times(D, time)) \in Times(D, time)
  <2>1. /\ Times(C, time) # {} /\ IsFiniteSet(Times(C, time)) /\ Times(C, time) \subseteq Nat
        /\ Times(D, time) # {} /\ IsFiniteSet(Times(D, time)) /\ Times(D, time) \subseteq Nat
    BY TimesFacts
  <2>. QED  BY <2>1, MinIsIn, MaxIsIn
<1>2. PICK c \in C, d \in D : Final(C) = time[c] /\ First(D) = time[d]
  BY <1>1 DEF Final, First, Times
<1>. QED  BY <1>2 DEF Earlier

GrowthInv ==
    /\ Timed(DOMAIN time, time) /\ known \in SUBSET DOMAIN time
    /\ fights = ClusterKills(known, time, system)

\* The definition of the fights without the algorithm.
LEMMA GrowthGivesRuns ==
    ASSUME GrowthInv
    PROVE  FightsAreTheRuns
<1>1. Timed(known, time) /\ fights = ClusterKills(known, time, system)
  BY TimedSubset DEF GrowthInv
<1>2. /\ UNION fights = known /\ {} \notin fights
      /\ \A C, D \in fights : C # D => C \cap D = {}
      /\ \A C \in fights : Span(C, time) <= MaxDuration
      /\ \A k \in known : LET R == RunOf(known, k, time, system) IN
           /\ Span(R, time) <= MaxDuration => R \in fights
           /\ UNION {C \in fights : C \subseteq R} = R
           /\ \A C, D \in {G \in fights : G \subseteq R} :
                C # D => Earlier(C, D, time) \/ Earlier(D, C, time)
  BY <1>1, FightsPartition
<1>3. \A C : Duration(C) = Span(C, time)
  BY DEF Duration, Span, First, Final, Times
<1>4. \A C \in fights : Timed(C, time) /\ C # {}
  BY <1>1, <1>2, TimedSubset
<1>5. \A C, D \in fights : Earlier(C, D, time) => Final(C) < First(D)
  BY <1>4, EarlierIsBefore
<1>6. ASSUME NEW R \in RunsOf(known)
      PROVE  /\ Duration(R) <= MaxDuration => R \in fights
             /\ UNION {C \in fights : C \subseteq R} = R
             /\ \A C, D \in {F \in fights : F \subseteq R} :
                  C # D => Final(C) < First(D) \/ Final(D) < First(C)
  <2>1. PICK k \in known : R = RunOf(known, k, time, system)
    BY RunsOfAreRuns
  <2>. QED  BY <1>2, <1>3, <1>5, <2>1
<1>. QED  BY <1>2, <1>3, <1>6 DEF FightsAreTheRuns

\* Links grow, so that fights that fit only merge.
LEMMA GrowthOnlyMerges ==
    ASSUME GrowthInv, NEW k \in DOMAIN time, Learn(k),
           \A R \in RunsOf(known') : Duration(R) <= MaxDuration
    PROVE  \A C \in fights : \E D \in fights' : C \subseteq D
<1>1. /\ time' = time /\ system' = system /\ known' = known \union {k}
      /\ fights' = ClusterKills(known', time, system)
  BY DEF Learn
<1>2. known' \in SUBSET DOMAIN time /\ Timed(known', time) /\ Timed(known, time)
  <2>1. known' \in SUBSET DOMAIN time /\ known \in SUBSET DOMAIN time
    BY <1>1 DEF GrowthInv
  <2>. QED  BY <2>1, TimedSubset DEF GrowthInv
<1>3. \A j \in known' : Span(RunOf(known', j, time, system), time) <= MaxDuration
  <2>1. \A C : Duration(C) = Span(C, time)
    BY DEF Duration, Span, First, Final, Times
  <2>2. RunsOf(known') = {RunOf(known', j, time, system) : j \in known'}
    BY RunsOfAreRuns
  <2>. QED  BY <2>1, <2>2
<1>4. \A j \in known' : RunOf(known', j, time, system) \in fights'
  BY <1>1, <1>2, <1>3, FightsPartition
<1>5. ASSUME NEW C \in fights
      PROVE  \E j \in known : C \subseteq RunOf(known, j, time, system)
  <2>1. fights = ClusterKills(known, time, system)
    BY DEF GrowthInv
  <2>2. PICK j \in known : C \in SplitOnMaxDuration(RunOf(known, j, time, system), time)
    BY <1>2, <2>1, FightsFacts
  <2>3. RunOf(known, j, time, system) # {} /\ Timed(RunOf(known, j, time, system), time)
    BY <1>2, RunsPartition, TimedSubset
  <2>4. UNION SplitOnMaxDuration(RunOf(known, j, time, system), time) = RunOf(known, j, time, system)
    BY <2>3, SplitCuts DEF Pieces
  <2>. QED  BY <2>2, <2>4
<1>6. \A j \in known : RunOf(known, j, time, system) \subseteq RunOf(known', j, time, system)
  BY <1>1, <1>2, LinksGrow
<1>. QED  BY <1>1, <1>4, <1>5, <1>6

-----------------------------------------------------------------------------
(* Sums.                                                                   *)

\* Sums are natural numbers.
LEMMA UnitsAreFinite ==
    ASSUME NEW S, IsFiniteSet(S), NEW f, \A k \in S : f[k] \in Nat
    PROVE  IsFiniteSet(Units(f, S)) /\ Total(f, S) \in Nat
<1>. DEFINE g == [k \in S |-> {k} \X (1 .. f[k])]
            B == {g[k] : k \in S}
<1>1. g \in Surjection(S, B)
  BY DEF Surjection
<1>2. IsFiniteSet(B)
  <2>. HIDE DEF B, g
  <2>. QED  BY <1>1, FS_Surjection
<1>3. ASSUME NEW k \in S
      PROVE  IsFiniteSet(g[k])
  <2>1. f[k] \in Int /\ 1 \in Int
    OBVIOUS
  <2>2. IsFiniteSet({k}) /\ IsFiniteSet(1 .. f[k])
    BY <2>1, FS_Singleton, FS_Interval
  <2>3. IsFiniteSet({k} \X (1 .. f[k]))
    BY <2>2, FS_Product
  <2>. QED  BY <2>3
<1>4. \A T \in B : IsFiniteSet(T)
  BY <1>3
<1>5. Units(f, S) = UNION B
  BY DEF Units
<1>6. IsFiniteSet(Units(f, S))
  <2>. HIDE DEF B
  <2>. QED  BY <1>2, <1>4, <1>5, FS_UNION
<1>. QED  BY <1>6, FS_CardinalityType DEF Total

LEMMA UnitsArePairs ==
    ASSUME NEW f, NEW S, NEW u
    PROVE  u \in Units(f, S) <=> /\ u = <<u[1], u[2]>> /\ u[1] \in S
                                 /\ u[2] \in 1 .. f[u[1]]
BY DEF Units

LEMMA TotalOfNone ==
    ASSUME NEW f
    PROVE  Total(f, {}) = 0
<1>1. Units(f, {}) = {}
  BY DEF Units
<1>. QED  BY <1>1, FS_EmptySet DEF Total

\* The sum over two sets apart.
LEMMA TotalJoins ==
    ASSUME NEW f, NEW A, NEW B, IsFiniteSet(A), IsFiniteSet(B), A \cap B = {},
           \A k \in A \cup B : f[k] \in Nat
    PROVE  Total(f, A \cup B) = Total(f, A) + Total(f, B)
<1>1. Units(f, A \cup B) = Units(f, A) \cup Units(f, B)
  BY DEF Units
<1>2. Units(f, A) \cap Units(f, B) = {}
  BY UnitsArePairs
<1>3. /\ IsFiniteSet(Units(f, A)) /\ Total(f, A) \in Nat
      /\ IsFiniteSet(Units(f, B)) /\ Total(f, B) \in Nat
  BY UnitsAreFinite
<1>4. Cardinality({}) = 0
  BY FS_EmptySet
<1>. DEFINE X == Units(f, A)
            Y == Units(f, B)
<1>5. IsFiniteSet(X) /\ IsFiniteSet(Y) /\ X \cap Y = {}
  BY <1>2, <1>3
<1>6. Cardinality(X) \in Nat /\ Cardinality(Y) \in Nat
  BY <1>3 DEF Total
<1>7. Cardinality(X \cup Y) = Cardinality(X) + Cardinality(Y)
  <2>. HIDE DEF X, Y
  <2>1. Cardinality(X \cup Y) = Cardinality(X) + Cardinality(Y) - Cardinality(X \cap Y)
    BY <1>5, FS_Union
  <2>2. X \cap Y = {}
    BY <1>5
  <2>3. Cardinality(X \cap Y) = Cardinality({})
    BY <2>2, Zenon
  <2>. QED  BY <1>4, <1>6, <2>1, <2>3
<1>. QED  BY <1>1, <1>7 DEF Total

LEMMA BijectionFacts ==
    ASSUME NEW S, NEW T, NEW h \in Bijection(S, T)
    PROVE  /\ \A i \in S : h[i] \in T
           /\ \A i, j \in S : h[i] = h[j] => i = j
           /\ \A v \in T : \E i \in S : h[i] = v
BY DEF Bijection, Injection, Surjection, IsInjective

\* A sum over disjoint parts is the sum of their sums.
LEMMA TotalOverParts ==
    ASSUME NEW f, NEW F, NEW P, NEW g,
           IsFiniteSet(UNION {P[C] : C \in F}),
           \A C \in F : \A k \in P[C] : f[k] \in Nat,
           \A C, D \in F : C # D => P[C] \cap P[D] = {},
           \A C \in F : g[C] = Total(f, P[C])
    PROVE  Total(g, F) = Total(f, UNION {P[C] : C \in F})
<1>. DEFINE U == UNION {P[C] : C \in F}
            b == [C \in F |-> CHOOSE h : h \in Bijection(1 .. g[C], Units(f, P[C]))]
            H == [u \in Units(g, F) |-> b[u[1]][u[2]]]
<1>1. \A k \in U : f[k] \in Nat
  OBVIOUS
<1>2. \A C \in F : IsFiniteSet(P[C])
  <2>1. \A C \in F : P[C] \in SUBSET U
    OBVIOUS
  <2>. HIDE DEF U
  <2>2. IsFiniteSet(U)
    BY DEF U
  <2>. QED  BY <2>1, <2>2, FS_Subset
<1>3. IsFiniteSet(Units(f, U))
  <2>1. IsFiniteSet(U)
    OBVIOUS
  <2>. HIDE DEF U
  <2>. QED  BY <1>1, <2>1, UnitsAreFinite
<1>4. ASSUME NEW C \in F
      PROVE  b[C] \in Bijection(1 .. g[C], Units(f, P[C]))
  <2>1. IsFiniteSet(Units(f, P[C])) /\ Total(f, P[C]) \in Nat
    BY <1>2, UnitsAreFinite
  <2>2. ExistsBijection(1 .. g[C], Units(f, P[C]))
    BY <2>1, FS_CardinalityType DEF Total
  <2>3. \E h : h \in Bijection(1 .. g[C], Units(f, P[C]))
    BY <2>2 DEF ExistsBijection
  <2>. QED  BY <2>3
<1>. HIDE DEF b
<1>5. ASSUME NEW C \in F
      PROVE  /\ \A i \in 1 .. g[C] : b[C][i] \in Units(f, P[C])
             /\ \A i, j \in 1 .. g[C] : b[C][i] = b[C][j] => i = j
             /\ \A v \in Units(f, P[C]) : \E i \in 1 .. g[C] : b[C][i] = v
  <2>. DEFINE h == b[C]
              S == 1 .. g[C]
              T == Units(f, P[C])
  <2>1. h \in Bijection(S, T)
    BY <1>4
  <2>2. /\ \A i \in S : h[i] \in T
        /\ \A i, j \in S : h[i] = h[j] => i = j
        /\ \A v \in T : \E i \in S : h[i] = v
    <3>. HIDE DEF h, S, T
    <3>. QED  BY <2>1, BijectionFacts
  <2>. QED  BY <2>2
<1>6. \A v : v \in Units(f, U) <=> \E C \in F : v \in Units(f, P[C])
  BY DEF Units
<1>7. \A u \in Units(g, F) : u = <<u[1], u[2]>> /\ u[1] \in F /\ u[2] \in 1 .. g[u[1]]
  BY UnitsArePairs
<1>8. H \in [Units(g, F) -> Units(f, U)]
  <2>. HIDE DEF U
  <2>. QED  BY <1>5, <1>6, <1>7
<1>9. ASSUME NEW u \in Units(g, F), NEW v \in Units(g, F), H[u] = H[v]
      PROVE  u = v
  <2>1. H[u] \in Units(f, P[u[1]]) /\ H[u] \in Units(f, P[v[1]])
    BY <1>5, <1>7, <1>9
  <2>2. H[u][1] \in P[u[1]] /\ H[u][1] \in P[v[1]]
    BY <2>1, UnitsArePairs
  <2>3. u[1] = v[1]
    BY <1>7, <2>2
  <2>. QED  BY <1>5, <1>7, <1>9, <2>3
<1>10. ASSUME NEW v \in Units(f, U)
       PROVE  \E u \in Units(g, F) : H[u] = v
  <2>1. PICK C \in F : v \in Units(f, P[C])
    BY <1>6
  <2>2. PICK i \in 1 .. g[C] : b[C][i] = v
    BY <1>5, <2>1
  <2>3. <<C, i>> \in Units(g, F)
    BY <2>2, UnitsArePairs
  <2>. QED  BY <2>2, <2>3
<1>11. ExistsBijection(Units(g, F), Units(f, U))
  <2>. HIDE DEF H, U
  <2>. QED  BY <1>8, <1>9, <1>10, Fun_IsBij DEF ExistsBijection, Surjection
<1>. QED  BY <1>3, <1>11, Fun_ExistsBijSymmetric, FS_Bijection DEF Total

-----------------------------------------------------------------------------
(* The headline.                                                           *)

\* Every row has one of the three sides.
LEMMA CharacterIsSide ==
    ASSUME NEW ov \in [Edits -> OverrideSide], NEW r, IsRow(r)
    PROVE  Character(ov, r) \in Side
<1>1. \A g \in Edits : ov[g] \in Side \/ ov[g] = NoSide
  BY DEF OverrideSide, Side
<1>2. ClassifyEntity(ov, r) \in Side
  <2>1. \A s \in OverrideSide : s # NoSide => s \in Side
    BY DEF OverrideSide, Side
  <2>2. "friendly" \in Side /\ "unassigned" \in Side
    BY DEF Side
  <2>. DEFINE of(g) == IF g = Nobody THEN NoSide ELSE ov[g]
  <2>3. of(r.alliance) \in OverrideSide /\ of(r.corp) \in OverrideSide
    BY DEF IsRow, OverrideSide
  <2>4. ClassifyEntity(ov, r) =
          IF of(r.alliance) # NoSide THEN of(r.alliance)
          ELSE IF of(r.corp) # NoSide THEN of(r.corp)
          ELSE IF {r.alliance, r.corp} \intersect Blues # {} THEN "friendly" ELSE "unassigned"
    BY DEF ClassifyEntity
  <2>. HIDE DEF of
  <2>. QED  BY <2>1, <2>2, <2>3, <2>4
<1>3. r.char # Nobody => r.char \in Edits
  BY BattleStatsAssumption DEF IsRow
<1>. QED  BY <1>1, <1>2, <1>3 DEF Character

Cast(K) == \A k \in K : IsRow(victim[k]) /\ \A r \in attackers[k] : IsRow(r)

OnIt(ov, k) == \E r \in attackers[k] : Character(ov, r) = "friendly"
OurLosses(ov, K) == {k \in K : Character(ov, victim[k]) = "friendly"}
TheirLosses(ov, K) == {k \in K : Character(ov, victim[k]) # "friendly" /\ OnIt(ov, k)}

\* The headline summed over fights is that of their kills.
LEMMA HeadlineOfKills ==
    ASSUME NEW ov \in [Edits -> OverrideSide], NEW F, NEW K, K \in SUBSET KM, Cast(K),
           UNION F = K, \A C, D \in F : C # D => C \cap D = {}
    PROVE  RecomputeBrOutcome(ov, F) =
             Headline(Total(ValueOf, TheirLosses(ov, K)), Total(ValueOf, OurLosses(ov, K)))
<1>. DEFINE died(C, s) == {k \in C : Character(ov, victim[k]) = s}
            fkm(C) == {k \in C : OnIt(ov, k)}
            losses == [C \in F |-> FightSideLosses(ov, C)]
            kills == [C \in F |-> losses[C]["hostile"].lostToFriendly
                                    + losses[C]["unassigned"].lostToFriendly]
            lost == [C \in F |-> losses[C]["friendly"].lost]
            ours == [C \in F |-> OurLosses(ov, C)]
            theirs == [C \in F |-> TheirLosses(ov, C)]
<1>1. IsFiniteSet(K) /\ \A k \in K : ValueOf[k] \in Nat
  BY FightGrowthAssumption, BattleStatsAssumption, FS_Subset
<1>2. \A k \in K : Character(ov, victim[k]) \in Side
  BY CharacterIsSide DEF Cast
<1>3. ASSUME NEW C \in F
      PROVE  lost[C] = Total(ValueOf, ours[C])
  <2>1. losses[C]["friendly"].lost = Total(ValueOf, died(C, "friendly"))
    BY DEF FightSideLosses, Side
  <2>2. died(C, "friendly") = ours[C]
    BY DEF OurLosses
  <2>. QED  BY <2>1, <2>2
<1>4. ASSUME NEW C \in F
      PROVE  kills[C] = Total(ValueOf, theirs[C])
  <2>. DEFINE A == died(C, "hostile") \intersect fkm(C)
              B == died(C, "unassigned") \intersect fkm(C)
  <2>1. /\ losses[C]["hostile"].lostToFriendly = Total(ValueOf, A)
        /\ losses[C]["unassigned"].lostToFriendly = Total(ValueOf, B)
    BY DEF FightSideLosses, Side, OnIt
  <2>2. A \cup B = theirs[C]
    BY <1>2 DEF TheirLosses, Side
  <2>3. A \in SUBSET K /\ B \in SUBSET K /\ A \cap B = {}
    OBVIOUS
  <2>4. Total(ValueOf, A \cup B) = Total(ValueOf, A) + Total(ValueOf, B)
    <3>. HIDE DEF A, B
    <3>1. IsFiniteSet(A) /\ IsFiniteSet(B) /\ \A k \in A \cup B : ValueOf[k] \in Nat
      BY <1>1, <2>3, FS_Subset
    <3>. QED  BY <2>3, <3>1, TotalJoins
  <2>5. kills[C] = losses[C]["hostile"].lostToFriendly + losses[C]["unassigned"].lostToFriendly
    BY DEF kills
  <2>. HIDE DEF A, B, kills, losses, theirs
  <2>. QED  BY <2>1, <2>2, <2>4, <2>5
<1>5. RecomputeBrOutcome(ov, F) = Headline(Total(kills, F), Total(lost, F))
  BY DEF RecomputeBrOutcome
<1>6. UNION {ours[C] : C \in F} = OurLosses(ov, K)
  BY DEF OurLosses
<1>7. UNION {theirs[C] : C \in F} = TheirLosses(ov, K)
  BY DEF TheirLosses
<1>8. OurLosses(ov, K) \in SUBSET K /\ TheirLosses(ov, K) \in SUBSET K
  BY DEF OurLosses, TheirLosses
<1>9. /\ \A C \in F : ours[C] \subseteq C /\ theirs[C] \subseteq C
      /\ \A C \in F : C \subseteq K
  BY DEF OurLosses, TheirLosses
<1>10. /\ IsFiniteSet(UNION {ours[C] : C \in F})
       /\ IsFiniteSet(UNION {theirs[C] : C \in F})
  BY <1>1, <1>6, <1>7, <1>8, FS_Subset
<1>. HIDE DEF kills, lost, losses, ours, theirs
<1>11. \A C, D \in F : C # D => ours[C] \cap ours[D] = {} /\ theirs[C] \cap theirs[D] = {}
  BY <1>9
<1>12. \A C \in F : \A k \in ours[C] \cup theirs[C] : ValueOf[k] \in Nat
  BY <1>1, <1>9
<1>13. Total(lost, F) = Total(ValueOf, UNION {ours[C] : C \in F})
  BY <1>3, <1>10, <1>11, <1>12, TotalOverParts
<1>14. Total(kills, F) = Total(ValueOf, UNION {theirs[C] : C \in F})
  BY <1>4, <1>10, <1>11, <1>12, TotalOverParts
<1>. QED  BY <1>5, <1>6, <1>7, <1>13, <1>14

-----------------------------------------------------------------------------
(* The invariant.                                                          *)

StatsInv ==
    /\ GrowthInv
    /\ DOMAIN time \subseteq KM /\ Cast(DOMAIN time)
    /\ override \in [Edits -> OverrideSide]
    /\ headline = RecomputeBrOutcome(override, fights)

LEMMA StatsInvInitially == StatsInit => StatsInv
<1>. SUFFICES ASSUME StatsInit PROVE StatsInv
  OBVIOUS
<1>1. known = {} /\ fights = {} /\ headline = Headline(0, 0)
  BY DEF StatsInit, Init
<1>2. /\ DOMAIN time \subseteq KM /\ Cast(DOMAIN time) /\ \A k \in DOMAIN time : time[k] \in Nat
      /\ override \in [Edits -> OverrideSide]
  <2>1. CASE Init /\ victim = NoCast /\ attackers = [k \in KM |-> {}] /\ override = NoOverrides
    <3>1. time \in [KM -> 0 .. Horizon] /\ Horizon \in Nat
      BY <2>1, FightGrowthAssumption DEF Init
    <3>2. DOMAIN time = KM /\ \A k \in KM : time[k] \in Nat
      BY <3>1
    <3>3. Cast(KM)
      BY <2>1 DEF NoCast, Cast, IsRow
    <3>4. override \in [Edits -> OverrideSide]
      BY <2>1 DEF NoOverrides, OverrideSide
    <3>. QED  BY <3>2, <3>3, <3>4
  <2>2. CASE \E sc \in Scenes : /\ time = sc.time /\ system = sc.system
                                /\ victim = sc.victim /\ attackers = sc.attackers
                                /\ override = sc.override
    BY <2>2, BattleStatsAssumption DEF Cast
  <2>. QED  BY <2>1, <2>2 DEF StatsInit
<1>3. Timed(DOMAIN time, time)
  <2>1. DOMAIN time \in SUBSET KM /\ KM \subseteq Nat /\ IsFiniteSet(KM)
    BY <1>2, FightGrowthAssumption
  <2>2. IsFiniteSet(DOMAIN time)
    BY <2>1, FS_Subset
  <2>. QED  BY <1>2, <2>1, <2>2 DEF Timed
<1>4. fights = ClusterKills(known, time, system)
  <2>1. Timed({}, time)
    BY <1>3, TimedSubset
  <2>2. UNION ClusterKills({}, time, system) = {} /\ {} \notin ClusterKills({}, time, system)
    BY <2>1, FightsPartition
  <2>3. ClusterKills({}, time, system) = {}
    BY <2>2
  <2>. QED  BY <1>1, <2>3
<1>5. headline = RecomputeBrOutcome(override, fights)
  BY <1>1, TotalOfNone DEF RecomputeBrOutcome
<1>. QED  BY <1>1, <1>2, <1>3, <1>4, <1>5 DEF StatsInv, GrowthInv

\* Every step recomputes the headline from the overrides and fights it leaves.
LEMMA StatsInvPreserved == StatsInv /\ [StatsNext]_allVars => StatsInv'
<1>. SUFFICES ASSUME StatsInv, [StatsNext]_allVars PROVE StatsInv'
  OBVIOUS
<1>. USE DEF StatsInv
<1>1. ASSUME NEW k \in DOMAIN time, IngestWrite(k)
      PROVE  StatsInv'
  <2>1. /\ time' = time /\ system' = system /\ known' = known \union {k}
        /\ fights' = ClusterKills(known', time, system)
        /\ victim' = victim /\ attackers' = attackers /\ override' = override
        /\ headline' = RecomputeBrOutcome(override', fights')
    BY <1>1 DEF IngestWrite, Learn, Aggregate, castVars
  <2>2. GrowthInv'
    BY <2>1 DEF GrowthInv
  <2>3. Cast(DOMAIN time)'
    BY <2>1 DEF Cast
  <2>4. headline' = RecomputeBrOutcome(override, fights)'
    BY <2>1 DEF RecomputeBrOutcome, FightSideLosses
  <2>. QED  BY <2>1, <2>2, <2>3, <2>4
<1>2. ASSUME NEW x \in DOMAIN override, NEW s \in OverrideSide, SetSide(x, s)
      PROVE  StatsInv'
  <2>1. /\ time' = time /\ system' = system /\ known' = known /\ fights' = fights
        /\ victim' = victim /\ attackers' = attackers
        /\ override' = [override EXCEPT ![x] = s]
        /\ headline' = RecomputeBrOutcome(override', fights')
    BY <1>2 DEF SetSide, Aggregate, castVars, vars
  <2>2. GrowthInv' /\ Cast(DOMAIN time)'
    BY <2>1 DEF GrowthInv, Cast
  <2>3. headline' = RecomputeBrOutcome(override, fights)'
    BY <2>1 DEF RecomputeBrOutcome, FightSideLosses
  <2>. QED  BY <2>1, <2>2, <2>3
<1>3. ASSUME IngestRead \/ UNCHANGED allVars
      PROVE  StatsInv'
  <2>1. UNCHANGED <<time, system, known, fights, victim, attackers, override, headline>>
    BY <1>3 DEF IngestRead, allVars, vars, statVars, castVars, storedVars
  <2>. QED  BY <2>1 DEF GrowthInv, Cast, RecomputeBrOutcome, FightSideLosses
<1>. QED  BY <1>1, <1>2, <1>3 DEF StatsNext

LEMMA StatsInvHolds == StatsSpec => []StatsInv
BY StatsInvInitially, StatsInvPreserved, PTL DEF StatsSpec

-----------------------------------------------------------------------------
(* What it gives.                                                          *)

\* The headline is that of the kills known, since the fights partition them.
LEMMA StatsInvGivesHeadline ==
    ASSUME StatsInv
    PROVE  HeadlineFollowsSides
<1>1. /\ override \in [Edits -> OverrideSide] /\ known \in SUBSET KM /\ Cast(known)
      /\ headline = RecomputeBrOutcome(override, fights)
  BY DEF StatsInv, GrowthInv, Cast
<1>2. UNION fights = known /\ \A C, D \in fights : C # D => C \cap D = {}
  BY GrowthGivesRuns DEF StatsInv, FightsAreTheRuns
<1>3. headline = Headline(Total(ValueOf, TheirLosses(override, known)),
                          Total(ValueOf, OurLosses(override, known)))
  BY <1>1, <1>2, HeadlineOfKills
<1>. DEFINE ours == {k \in known : Character(override, victim[k]) = "friendly"}
            theirs == {k \in known \ ours : \E r \in attackers[k] : Character(override, r) = "friendly"}
<1>4. ours = OurLosses(override, known) /\ theirs = TheirLosses(override, known)
  BY DEF OurLosses, TheirLosses, OnIt
<1>5. headline = Headline(Total(ValueOf, theirs), Total(ValueOf, ours))
  <2>. HIDE DEF ours, theirs
  <2>. QED  BY <1>3, <1>4
<1>. QED  BY <1>5 DEF HeadlineFollowsSides

\* The row that says where a pilot flew is one of the pilot's.
LEMMA RowOfIsTheirs ==
    ASSUME StatsInv, NEW c \in PilotsIn(known), NEW lost, lost = {k \in known : victim[k].char = c}
    PROVE  /\ RowOf(known, c) \in RowsIn(known) /\ RowOf(known, c).char = c
           /\ lost # {} => victim[Min(lost)] \in RowsIn(known) /\ victim[Min(lost)].char = c
<1>. DEFINE flew == {k \in known : \E r \in attackers[k] : r.char = c}
<1>1. lost \subseteq Nat /\ flew \subseteq Nat /\ IsFiniteSet(lost)
  <2>1. Timed(known, time)
    BY TimedSubset DEF StatsInv, GrowthInv
  <2>2. lost \in SUBSET known
    OBVIOUS
  <2>. QED  BY <2>1, <2>2, FS_Subset DEF Timed
<1>2. lost # {} \/ flew # {}
  BY DEF PilotsIn, RowsIn, RowsOf
<1>3. \A k \in known : victim[k] \in RowsIn(known) /\ \A r \in attackers[k] : r \in RowsIn(known)
  BY DEF RowsIn, RowsOf
<1>4. lost # {} => Max(lost) \in lost /\ Min(lost) \in lost
  <2>. HIDE DEF flew
  <2>. QED  BY <1>1, MaxIsIn, MinIsIn
<1>5. flew # {} => Min(flew) \in flew
  <2>. HIDE DEF flew
  <2>. QED  BY <1>1, MinIsIn
<1>6. RowOf(known, c) = IF lost # {} THEN victim[Max(lost)]
                        ELSE CHOOSE r \in attackers[Min(flew)] : r.char = c
  BY DEF RowOf
<1>. QED  BY <1>2, <1>3, <1>4, <1>5, <1>6

\* Of a pilot who flew for one alliance and corporation, every row has one side.
LEMMA OneSideEach ==
    ASSUME StatsInv, Loyal, NEW r \in RowsIn(known), NEW o \in RowsIn(known),
           r.char = o.char, r.char # Nobody
    PROVE  Character(override, r) = Character(override, o)
BY DEF Loyal, Character, ClassifyEntity

\* The readers decide by different rows of a pilot, which all have one side.
LEMMA StatsInvGivesAgreement ==
    ASSUME StatsInv
    PROVE  ReadersAgree
<1>. SUFFICES ASSUME Loyal
              PROVE  /\ \A s \in Side :
                          Composition(override)[s].isk
                            = Total(ValueOf, {k \in known : /\ KillEvents(override)[k] = s
                                                            /\ victim[k].char # Nobody})
                     /\ headline.lost = Total(ValueOf, {k \in known : KillEvents(override)[k] = "friendly"})
                     /\ Composition(override)["friendly"].pilots = FriendlyPilots(override)
                     /\ \A c \in PilotsIn(known) :
                          CharSideMap(override)[c] <=> c \in Composition(override)["friendly"].pilots
  BY DEF ReadersAgree
<1>. DEFINE SideOf(c) == IF override[c] # NoSide THEN override[c]
                         ELSE ClassifyEntity(override, RowOf(known, c))
            on(s) == {c \in PilotsIn(known) : SideOf(c) = s}
<1>1. \A c \in PilotsIn(known) :
        /\ c # Nobody /\ RowOf(known, c) \in RowsIn(known) /\ RowOf(known, c).char = c
        /\ LET lost == {k \in known : victim[k].char = c} IN
           lost # {} => victim[Min(lost)] \in RowsIn(known) /\ victim[Min(lost)].char = c
  BY RowOfIsTheirs DEF PilotsIn
<1>2. \A c \in PilotsIn(known) : SideOf(c) = Character(override, RowOf(known, c))
  BY <1>1 DEF Character
<1>. HIDE DEF SideOf
<1>3. \A c \in PilotsIn(known) : \A r \in RowsIn(known) :
        r.char = c => Character(override, r) = SideOf(c)
  BY <1>1, <1>2, OneSideEach
<1>4. \A k \in known : /\ victim[k] \in RowsIn(known)
                       /\ victim[k].char # Nobody => victim[k].char \in PilotsIn(known)
                       /\ KillEvents(override)[k] = Character(override, victim[k])
  BY DEF RowsIn, RowsOf, PilotsIn, KillEvents
<1>5. \A s \in Side : /\ Composition(override)[s].pilots = on(s)
                      /\ Composition(override)[s].isk = Total(ValueOf, {k \in known : victim[k].char \in on(s)})
  BY DEF Composition, SideOf
<1>6. ASSUME NEW s \in Side
      PROVE  {k \in known : victim[k].char \in on(s)}
               = {k \in known : KillEvents(override)[k] = s /\ victim[k].char # Nobody}
  <2>1. ASSUME NEW k \in known
        PROVE  victim[k].char \in on(s) <=> KillEvents(override)[k] = s /\ victim[k].char # Nobody
    <3>1. CASE victim[k].char \in PilotsIn(known)
      <4>1. KillEvents(override)[k] = SideOf(victim[k].char) /\ victim[k].char # Nobody
        BY <1>1, <1>3, <1>4, <3>1
      <4>. QED  BY <3>1, <4>1
    <3>2. CASE victim[k].char \notin PilotsIn(known)
      BY <1>4, <3>2
    <3>. QED  BY <3>1, <3>2
  <2>. QED  BY <2>1
<1>7. headline.lost = Total(ValueOf, {k \in known : KillEvents(override)[k] = "friendly"})
  <2>. DEFINE ours == {k \in known : Character(override, victim[k]) = "friendly"}
              theirs == {k \in known \ ours : \E r \in attackers[k] : Character(override, r) = "friendly"}
  <2>1. headline = Headline(Total(ValueOf, theirs), Total(ValueOf, ours))
    BY StatsInvGivesHeadline DEF HeadlineFollowsSides
  <2>2. headline.lost = Total(ValueOf, ours)
    <3>. HIDE DEF ours, theirs
    <3>. QED  BY <2>1 DEF Headline
  <2>3. ours = {k \in known : KillEvents(override)[k] = "friendly"}
    BY <1>4
  <2>. QED  BY <2>2, <2>3
<1>8. on("friendly") = FriendlyPilots(override)
  <2>. DEFINE lost(c) == {k \in known : victim[k].char = c}
              Earliest(c) == IF lost(c) # {} THEN victim[Min(lost(c))] ELSE RowOf(known, c)
  <2>1. FriendlyPilots(override) = {c \in PilotsIn(known) : Character(override, Earliest(c)) = "friendly"}
    BY DEF FriendlyPilots
  <2>2. \A c \in PilotsIn(known) : Earliest(c) \in RowsIn(known) /\ Earliest(c).char = c
    BY <1>1
  <2>. HIDE DEF Earliest
  <2>3. \A c \in PilotsIn(known) : Character(override, Earliest(c)) = SideOf(c)
    BY <1>3, <2>2
  <2>. QED  BY <2>1, <2>3
<1>9. \A c \in PilotsIn(known) : CharSideMap(override)[c] <=> c \in on("friendly")
  BY <1>2 DEF CharSideMap
<1>10. "friendly" \in Side
  BY DEF Side
<1>11. \A s \in Side : Composition(override)[s].isk
                         = Total(ValueOf, {k \in known : KillEvents(override)[k] = s /\ victim[k].char # Nobody})
  <2>. TAKE s \in Side
  <2>. HIDE DEF on
  <2>. QED  BY <1>5, <1>6
<1>12. Composition(override)["friendly"].pilots = on("friendly")
  BY <1>5, <1>10
<1>. HIDE DEF on
<1>. QED  BY <1>7, <1>8, <1>9, <1>11, <1>12

-----------------------------------------------------------------------------
(* The theorems.                                                           *)

\* The fights of a report are the runs of its kills, cut down to the cap: after
\* every ingest, each kill is in one fight, and a run that fits stays whole.
THEOREM FightsStayRuns == StatsSpec => []FightsAreTheRuns
<1>1. StatsInv => FightsAreTheRuns
  BY GrowthGivesRuns DEF StatsInv
<1>. QED  BY <1>1, StatsInvHolds, PTL

\* The stored headline counts every kill of the report once, under the overrides
\* in force, however edits and ingests overlapped.
THEOREM HeadlineFollows == StatsSpec => []HeadlineFollowsSides
<1>1. StatsInv => HeadlineFollowsSides
  BY StatsInvGivesHeadline
<1>. QED  BY <1>1, StatsInvHolds, PTL

\* Headline, composition, kill markers, leaders and list row agree on pilots and
\* losses as long as no pilot changes corporation.
THEOREM ReadersStayAgreed == StatsSpec => []ReadersAgree
<1>1. StatsInv => ReadersAgree
  BY StatsInvGivesAgreement
<1>. QED  BY <1>1, StatsInvHolds, PTL

\* Another killmail may merge fights of a report but never splits one, as long as
\* no run is longer than the cap.
THEOREM GrowthMergesFights == StatsSpec => NewKillsOnlyMerge
<1>1. StatsInv /\ [StatsNext]_allVars =>
        [(\A R \in RunsOf(known') : Duration(R) <= MaxDuration)
           => \A C \in fights : \E D \in fights' : C \subseteq D]_vars
  <2>. SUFFICES ASSUME StatsInv, [StatsNext]_allVars, ~ UNCHANGED vars,
                       \A R \in RunsOf(known') : Duration(R) <= MaxDuration
                PROVE  \A C \in fights : \E D \in fights' : C \subseteq D
    OBVIOUS
  <2>1. PICK k \in DOMAIN time : Learn(k)
    BY DEF StatsNext, IngestRead, IngestWrite, SetSide, allVars
  <2>. QED  BY <2>1, GrowthOnlyMerges DEF StatsInv
<1>. QED  BY <1>1, StatsInvHolds, PTL DEF StatsSpec, NewKillsOnlyMerge

\* The side rollups follow the overrides in force after every edit, and after
\* every ingest that no edit overtook.
THEOREM RollupsStayCurrent == StatsSpec => RollupsFollowSides
<1>. DEFINE Due == \/ \E x \in DOMAIN override : override'[x] # override[x]
                   \/ known' # known /\ read = override
            Follows == \A C \in fights' : \A s \in Side :
              LET now == {k \in C : Character(override', victim[k]) = s}
                  flew == {r \in RowsIn(C) : Character(override', r) = s}
              IN /\ rollup'[C][s].isk = Total(ValueOf, now)
                 /\ rollup'[C][s].pilots = {r.char : r \in flew} \ {Nobody}
<1>1. [StatsNext]_allVars => [Due => Follows]_allVars
  <2>. SUFFICES ASSUME StatsNext, Due PROVE Follows
    BY DEF Due, Follows
  <2>1. rollup' = [C \in fights' |-> ClassifiedFightSides(override', C)]
    <3>1. CASE IngestRead
      BY <3>1 DEF IngestRead, vars, storedVars
    <3>2. ASSUME NEW k \in DOMAIN time, IngestWrite(k)
          PROVE  rollup' = [C \in fights' |-> ClassifiedFightSides(override', C)]
      <4>1. override' = override /\ rollup' = [C \in fights' |-> ClassifiedFightSides(read, C)]
        BY <3>2 DEF IngestWrite, Aggregate
      <4>2. read = override
        BY <4>1
      <4>. QED  BY <4>1, <4>2
    <3>3. ASSUME NEW x \in DOMAIN override, NEW s \in OverrideSide, SetSide(x, s)
          PROVE  rollup' = [C \in fights' |-> ClassifiedFightSides(override', C)]
      BY <3>3 DEF SetSide, Aggregate
    <3>. QED  BY <3>1, <3>2, <3>3 DEF StatsNext
  <2>2. ASSUME NEW C \in fights', NEW s \in Side
        PROVE  LET now == {k \in C : Character(override', victim[k]) = s}
                   flew == {r \in RowsIn(C) : Character(override', r) = s}
               IN /\ rollup'[C][s].isk = Total(ValueOf, now)
                  /\ rollup'[C][s].pilots = {r.char : r \in flew} \ {Nobody}
    <3>1. rollup'[C][s] = ClassifiedFightSides(override', C)[s]
      BY <2>1
    <3>2. /\ ClassifiedFightSides(override', C)[s].isk
               = Total(ValueOf, {k \in C : Character(override', victim[k]) = s})
          /\ ClassifiedFightSides(override', C)[s].pilots
               = {r.char : r \in {q \in RowsIn(C) : Character(override', q) = s}} \ {Nobody}
      BY DEF ClassifiedFightSides
    <3>. QED  BY <3>1, <3>2
  <2>. QED  BY <2>2
<1>. QED  BY <1>1, PTL DEF StatsSpec, RollupsFollowSides

\* cluster_kills makes of any killmails what FightStore assumes of ClustersOf: a
\* set of fights, none of them empty, that hold exactly these killmails.
THEOREM ClustersAreAsAssumed ==
    ASSUME NEW t \in [KM -> Nat], NEW sys,
           NEW ClustersOf, ClustersOf = [K \in SUBSET KM |-> ClusterKills(K, t, sys)]
    PROVE  /\ ClustersOf \in [SUBSET KM -> SUBSET ((SUBSET KM) \ {{}})]
           /\ \A K \in SUBSET KM : UNION ClustersOf[K] = K
<1>1. Timed(KM, t)
  BY FightGrowthAssumption DEF Timed
<1>2. ASSUME NEW K \in SUBSET KM
      PROVE  UNION ClusterKills(K, t, sys) = K /\ {} \notin ClusterKills(K, t, sys)
  <2>1. Timed(K, t)
    BY <1>1, TimedSubset
  <2>. QED  BY <2>1, FightsPartition
<1>3. \A K \in SUBSET KM : ClusterKills(K, t, sys) \in SUBSET ((SUBSET KM) \ {{}})
  BY <1>2
<1>. QED  BY <1>2, <1>3
====
