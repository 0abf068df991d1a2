--------------------------- MODULE MCBattleStats ----------------------------
(***************************************************************************)
(* BattleStats on all placements of four kills, and on casts of two: a     *)
(* pilot who may change corporation, another one, a structure.             *)
(***************************************************************************)
EXTENDS BattleStats, TLC

CONSTANTS pilotA, pilotB, us, them, usCorp, corp, hull

Row(c, a) == [char |-> c, alliance |-> a, ship |-> hull,
              corp |-> IF a = us THEN usCorp ELSE corp]

\* At most one row of each pilot.
Flying(C) ==
    {{Row(c, f[c]) : c \in {d \in C : f[d] # hull}} :
       f \in [C -> {us, them, hull}]}

\* Nobody is on a killmail twice.
Apart(sc) == \A k \in {1, 2} : \A r \in sc.attackers[k] : r.char # sc.victim[k].char

MCScenes ==
    {sc \in
       {[time |-> t, system |-> [k \in {1, 2} |-> 0],
         victim |-> (1 :> v1) @@ (2 :> v2), attackers |-> (1 :> a1) @@ (2 :> a2),
         override |-> o] :
          t \in {(1 :> 0) @@ (2 :> 1), (1 :> 0) @@ (2 :> 9)},
          v1 \in {Row(pilotA, us), Row(pilotA, them), Row(Nobody, us)},
          v2 \in {Row(pilotA, us), Row(pilotA, Nobody), Row(pilotB, them)},
          a1 \in Flying({pilotB}), a2 \in Flying({pilotA, pilotB}),
          o \in {NoOverrides, [NoOverrides EXCEPT ![them] = "friendly"]}} : Apart(sc)}

MCValueOf == [k \in KM |-> 12 + k]
=============================================================================
