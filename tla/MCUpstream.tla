----------------------------- MODULE MCUpstream -----------------------------
(***************************************************************************)
(* Upstream on a window of two hours with a killmail in each, and one past *)
(* its end: a pilot on both, a group, a system and an id without a name.   *)
(***************************************************************************)
EXTENDS Upstream

CONSTANTS pilot, group, system, nobody

MCHourOf == [k \in Killmail |-> IF k = 0 THEN 0 ELSE 1]
MCEntOf == [k \in Killmail |-> IF k = 0 THEN {pilot, group, system} ELSE {pilot, nobody}]
=============================================================================
