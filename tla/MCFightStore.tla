---------------------------- MODULE MCFightStore ----------------------------
(***************************************************************************)
(* FightStore on three kills of one system that make two fights, or one    *)
(* when the kill between them is known, and on up to two log files:        *)
(* uploads of the same growing client log.                                 *)
(* The fights are those of Clustering, with a cap they never reach.        *)
(***************************************************************************)
EXTENDS FightStore, TLC

CONSTANTS b1, b2, k1, k2, k3, ChainWindow

MCTimeOf == [k \in KM |-> CASE k = k1 -> 10 [] k = k2 -> 13 [] OTHER -> 16]

C == INSTANCE Clustering WITH Window <- ChainWindow, MaxDuration <- 100

MCClustersOf ==
    [K \in SUBSET KM |-> C!ClusterKills(K, MCTimeOf, [k \in KM |-> "system"])]

MCEventsOf == [f \in LOG |-> IF f = 1 THEN {9, 12} ELSE {9, 12, 14}]
MCCharOf == [f \in LOG |-> "pilot"]
MCSessionOf == [f \in LOG |-> <<MCCharOf[f], 1>>]

Reports == Permutations(BR)
=============================================================================
