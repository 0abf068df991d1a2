----------------------------- MODULE BattleStats -----------------------------
(***************************************************************************)
(* Who fought on which side, and what each reader makes of it: the stored  *)
(* rollups of the fights (src/app/fights/classified.py, aggregate.py), the *)
(* stored headline (src/app/analytics/sides_config.py) and the views       *)
(* computed on demand (composition.py, fleet.py, timeline_rows.py), while  *)
(* side overrides are edited and the report grows (FightGrowth).           *)
(*                                                                         *)
(* A row is a victim or an attacker of a killmail: a pilot, or Nobody for  *)
(* a structure, the alliance and corporation flown for, and the hull.      *)
(***************************************************************************)
EXTENDS FightGrowth

CONSTANTS
    Pilot,      \* characters
    Nobody,     \* a victim or attacker without a character, or without a group
    Blues,      \* the alliances and corporations of the baseline
    ValueOf,    \* the ISK value of each kill
    Scenes,     \* bound: reports, by the times, systems and rows of their kills
    Edits,      \* the pilots, alliances and corporations of the reports
    MaxEdits    \* bound: how often an override is edited

NoSide == "none"
OverrideSide == {"friendly", "hostile", NoSide}

IsRow(r) ==
    /\ r.char \in Pilot \union {Nobody}
    /\ r.alliance \in Edits \union {Nobody} /\ r.corp \in Edits \union {Nobody}

ASSUME BattleStatsAssumption ==
    /\ Nobody \notin Pilot /\ Pilot \subseteq Edits
    /\ ValueOf \in [KM -> Nat]
    /\ MaxEdits \in Nat
    /\ \A sc \in Scenes :
         /\ DOMAIN sc.time \subseteq KM
         /\ \A k \in DOMAIN sc.time : /\ sc.time[k] \in Nat
                                      /\ IsRow(sc.victim[k])
                                      /\ \A r \in sc.attackers[k] : IsRow(r)
         /\ sc.override \in [Edits -> OverrideSide]

VARIABLES
    victim,     \* of each kill: a row
    attackers,  \* of each kill: a set of rows
    override,   \* BrSideOverride and BrCharSide: the side of a group or pilot
    rollup,     \* FightSide and FightShipCount of each fight
    headline,   \* our_isk_destroyed, our_isk_lost and result of the report
    read,       \* the overrides an ingest holds, or NotRead
    edits
castVars == <<victim, attackers>>
storedVars == <<override, rollup, headline>>
statVars == <<castVars, storedVars, read, edits>>
allVars == <<vars, statVars>>

Side == {"friendly", "hostile", "unassigned"}
NotRead == <<>>

\* The sum of f over S, unit by unit.
Units(f, S) == UNION {{k} \X (1 .. f[k]) : k \in S}
Total(f, S) == Cardinality(Units(f, S))
RowsOf(k) == {victim[k]} \union attackers[k]
RowsIn(K) == UNION {RowsOf(k) : k \in K}
PilotsIn(K) == {r.char : r \in RowsIn(K)} \ {Nobody}

-----------------------------------------------------------------------------
(* Sides.                                                                  *)

\* classify_entity: alliance, corporation, baseline.
ClassifyEntity(ov, r) ==
    LET of(g) == IF g = Nobody THEN NoSide ELSE ov[g] IN
    IF of(r.alliance) # NoSide THEN of(r.alliance)
    ELSE IF of(r.corp) # NoSide THEN of(r.corp)
    ELSE IF {r.alliance, r.corp} \intersect Blues # {} THEN "friendly" ELSE "unassigned"

\* SideResolver.character
Character(ov, r) ==
    IF r.char # Nobody /\ ov[r.char] # NoSide THEN ov[r.char] ELSE ClassifyEntity(ov, r)

-----------------------------------------------------------------------------
(* The stored figures.                                                     *)

\* The attacker rows that add a hull: each pilot's first on its side.
FirstFlown(ov, C, r, k) ==
    r.char = Nobody \/ \A l \in C : \A q \in attackers[l] :
        q.char = r.char /\ Character(ov, q) = Character(ov, r) => k <= l

\* classified_fight_sides: the side rows and hull counts of the fight C.
ClassifiedFightSides(ov, C) ==
    [s \in Side |->
       LET on == {r \in RowsIn(C) : Character(ov, r) = s}
           died == {k \in C : Character(ov, victim[k]) = s}
           flown == {x \in C \X on : x[2] \in attackers[x[1]] /\ FirstFlown(ov, C, x[2], x[1])}
       IN [isk |-> Total(ValueOf, died),
           pilots |-> {r.char : r \in on} \ {Nobody},
           hulls |-> [h \in {r.ship : r \in RowsIn(known')} |->
                        Cardinality({k \in died : victim[k].ship = h})
                          + Cardinality({x \in flown : x[2].ship = h})]]]

\* fight_side_losses: attackers first, to know which kills we were on.
FightSideLosses(ov, C) ==
    LET friendlyOnKm == {k \in C : \E r \in attackers[k] : Character(ov, r) = "friendly"} IN
    [s \in Side |->
       LET died == {k \in C : Character(ov, victim[k]) = s} IN
       [lost |-> Total(ValueOf, died),
        lostToFriendly |-> Total(ValueOf, died \intersect friendlyOnKm)]]

\* classify_br_result, in hundredths.
ClassifyBrResult(destroyed, lost) ==
    LET ours == 100 * destroyed
        all == destroyed + lost
    IN CASE all = 0                                      -> "none"
         [] all > 0 /\ ours >= 52 * all                  -> "win"
         [] all > 0 /\ ours \in 48 * all .. 52 * all - 1 -> "tie"
         [] all > 0 /\ ours < 48 * all                   -> "loss"

Headline(destroyed, lost) ==
    [destroyed |-> destroyed, lost |-> lost, result |-> ClassifyBrResult(destroyed, lost)]

\* recompute_br_outcome: summed over the fights F and their sides.
RecomputeBrOutcome(ov, F) ==
    LET losses == [C \in F |-> FightSideLosses(ov, C)] IN
    Headline(Total([C \in F |-> losses[C]["hostile"].lostToFriendly
                                + losses[C]["unassigned"].lostToFriendly], F),
             Total([C \in F |-> losses[C]["friendly"].lost], F))

\* Mutant: the headline comes from the overrides the rollups came from.
AggregateHeadlineAsRead(ov) ==
    /\ rollup' = [C \in fights' |-> ClassifiedFightSides(ov, C)]
    /\ headline' = RecomputeBrOutcome(ov, fights')

\* aggregate_br: the rollups follow the resolver ov, loaded before the first
\* write; recompute_br_outcome loads the overrides again, under the lock.
Aggregate(ov) ==
    /\ rollup' = [C \in fights' |-> ClassifiedFightSides(ov, C)]
    /\ headline' = RecomputeBrOutcome(override', fights')

-----------------------------------------------------------------------------
(* Views computed from the rows.                                           *)

\* The row of K that says where char c flew: its last loss, else its first kill.
RowOf(K, c) ==
    LET lost == {k \in K : victim[k].char = c}
        flew == {k \in K : \E r \in attackers[k] : r.char = c}
    IN IF lost # {} THEN victim[Max(lost)]
                    ELSE CHOOSE r \in attackers[Min(flew)] : r.char = c

\* Mutant: the override of a pilot is left to the entity.
CompositionByEntity(ov) ==
    LET SideOf(c) == ClassifyEntity(ov, RowOf(known, c)) IN
    [s \in Side |->
       LET on == {c \in PilotsIn(known) : SideOf(c) = s} IN
       [pilots |-> on,
        isk |-> Total(ValueOf, {k \in known : victim[k].char \in on})]]

\* fleet_composition: a pilot's side, with all of the pilot's losses.
Composition(ov) ==
    LET SideOf(c) == IF ov[c] # NoSide THEN ov[c] ELSE ClassifyEntity(ov, RowOf(known, c)) IN
    [s \in Side |->
       LET on == {c \in PilotsIn(known) : SideOf(c) = s} IN
       [pilots |-> on,
        isk |-> Total(ValueOf, {k \in known : victim[k].char \in on})]]

\* build_kill_events: the side of each kill marker.
KillEvents(ov) == [k \in known |-> Character(ov, victim[k])]

\* _build_char_side_map: friendly or not, for the leaders of the timeline.
CharSideMap(ov) ==
    [c \in PilotsIn(known) |-> Character(ov, RowOf(known, c)) = "friendly"]

\* enrich_br_rows: the first row of a pilot counts, losses before kills.
FriendlyPilots(ov) ==
    LET Earliest(c) ==
          LET lost == {k \in known : victim[k].char = c} IN
          IF lost # {} THEN victim[Min(lost)] ELSE RowOf(known, c)
    IN {c \in PilotsIn(known) : Character(ov, Earliest(c)) = "friendly"}

-----------------------------------------------------------------------------
NoOverrides == [x \in Edits |-> NoSide]
NoCast == [k \in KM |-> [char |-> Nobody, alliance |-> Nobody, corp |-> Nobody, ship |-> Nobody]]

\* Any placement of kills without a cast, or one of the scenes.
StatsInit ==
    /\ \/ /\ Init
          /\ victim = NoCast
          /\ attackers = [k \in KM |-> {}]
          /\ override = NoOverrides
          /\ edits = MaxEdits
       \/ /\ \E sc \in Scenes : /\ time = sc.time /\ system = sc.system
                                /\ victim = sc.victim /\ attackers = sc.attackers
                                /\ override = sc.override
          /\ known = {} /\ fights = {}
          /\ edits = 0
    /\ rollup = [C \in {} |-> {}]
    /\ headline = Headline(0, 0)
    /\ read = NotRead

\* The ingest has committed its killmails; aggregate_br loads the resolver
\* without the write lock.
IngestRead ==
    /\ read = NotRead
    /\ read' = override
    /\ UNCHANGED <<vars, castVars, storedVars, edits>>

\* The rest of aggregate_br, with the killmail this ingest added.
IngestWrite(k) ==
    /\ read # NotRead
    /\ Learn(k)
    /\ read' = NotRead
    /\ UNCHANGED <<castVars, override, edits>>
    /\ Aggregate(read)

\* Mutant: the sides are aggregated before the override is written.
SetSideAggregateFirst(x, s) ==
    /\ edits < MaxEdits /\ s # override[x]
    /\ edits' = edits + 1
    /\ UNCHANGED <<vars, castVars, read>>
    /\ override' = [override EXCEPT ![x] = s]
    /\ Aggregate(override)

\* set_side or set_participant_side: the override comes first, and with it the
\* write lock, so that nothing comes between its readings.
SetSide(x, s) ==
    /\ edits < MaxEdits /\ s # override[x]
    /\ edits' = edits + 1
    /\ UNCHANGED <<vars, castVars, read>>
    /\ override' = [override EXCEPT ![x] = s]
    /\ Aggregate(override')

StatsNext ==
    \/ IngestRead
    \/ \E k \in DOMAIN time : IngestWrite(k)
    \/ \E x \in DOMAIN override, s \in OverrideSide : SetSide(x, s)

StatsSpec == StatsInit /\ [][StatsNext]_allVars

-----------------------------------------------------------------------------
\* "What WE killed. A third party dying to someone else in the same system is
\* not our kill" (recompute_br_outcome): the headline counts every kill of the
\* report once, under the overrides in force, however the edits and the ingests
\* overlapped.
HeadlineFollowsSides ==
    LET friendly(r) == Character(override, r) = "friendly"
        ours == {k \in known : friendly(victim[k])}
        theirs == {k \in known \ ours : \E r \in attackers[k] : friendly(r)}
    IN headline = Headline(Total(ValueOf, theirs), Total(ValueOf, ours))

\* Every pilot flew for one alliance and corporation.
Loyal ==
    \A r, o \in RowsIn(known) : r.char = o.char =>
        r.alliance = o.alliance /\ r.corp = o.corp

\* "So they cannot disagree" (SideResolver): as long as no pilot changes
\* corporation, the headline, the composition, the kill markers, the leaders
\* and the list row agree on the pilots and the losses of every side; what the
\* composition leaves out is what nobody flew.
ReadersAgree ==
    Loyal =>
      LET comp == Composition(override)
          marks == KillEvents(override)
      IN /\ \A s \in Side :
              comp[s].isk = Total(ValueOf, {k \in known : marks[k] = s /\ victim[k].char # Nobody})
         /\ headline.lost = Total(ValueOf, {k \in known : marks[k] = "friendly"})
         /\ comp["friendly"].pilots = FriendlyPilots(override)
         /\ \A c \in PilotsIn(known) :
              CharSideMap(override)[c] <=> c \in comp["friendly"].pilots

\* "Side rollups follow this BR's side classification, including FC/HC
\* overrides" (aggregate_br): they do after every edit, and after every ingest
\* that no edit overtook between its reading and its writing.
RollupsFollowSides ==
    [][(\E x \in DOMAIN override : override'[x] # override[x])
         \/ (known' # known /\ read = override)
         => \A C \in fights' : \A s \in Side :
              LET now == {k \in C : Character(override', victim[k]) = s}
                  flew == {r \in RowsIn(C) : Character(override', r) = s}
              IN /\ rollup'[C][s].isk = Total(ValueOf, now)
                 /\ rollup'[C][s].pilots = {r.char : r \in flew} \ {Nobody}]_allVars

-----------------------------------------------------------------------------
(* What the repository says and the code does not do.                      *)

\* "Every loss counts; a surviving attacker's hull counts once per pilot"
\* (SideStats.ship_counts): as long as no pilot changes corporation, a fight has
\* no more hulls of a kind than were lost in it and were flown by pilots who
\* did not lose one afterwards.
HullsCountOnce ==
    Loyal => \A C \in DOMAIN rollup : \A h \in DOMAIN rollup[C]["friendly"].hulls :
        LET lost == {k \in C : victim[k].ship = h}
            flown == {x \in C \X RowsIn(C) : x[2] \in attackers[x[1]] /\ x[2].ship = h}
            survived == {x \in flown : \A l \in lost : l > x[1] => victim[l].char # x[2].char}
        IN Total([s \in Side |-> rollup[C][s].hulls[h]], Side)
             <= Cardinality(lost) + Cardinality({x[2].char : x \in survived})
=============================================================================
