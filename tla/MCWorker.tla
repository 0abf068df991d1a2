------------------------------ MODULE MCWorker ------------------------------
(***************************************************************************)
(* A worker with three reports and three versions in the mould of the      *)
(* repository's: the first adds columns to two tables, the second adds one *)
(* to a table made before the one that is probed and changes data, the     *)
(* third adds one to the one that is probed.                               *)
(***************************************************************************)
EXTENDS Worker, TLC

CONSTANTS alliance, battleReport, killmail, damage, thread, expected, ticker

MCCreation == <<alliance, battleReport, killmail>>
MCTableOf == (damage :> killmail) @@ (thread :> battleReport)
               @@ (ticker :> alliance) @@ (expected :> battleReport)
MCVersionOf == (damage :> 1) @@ (thread :> 1) @@ (ticker :> 2) @@ (expected :> 3)
=============================================================================
