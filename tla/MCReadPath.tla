----------------------------- MODULE MCReadPath -----------------------------
(***************************************************************************)
(* ReadPath with two requests, on the composition and the pilot timeline   *)
(* of one report, and room for one of the two.                             *)
(***************************************************************************)
EXTENDS ReadPath, TLC

CONSTANTS r1, r2, composition, pilots, battle

MCAsks == {(r1 :> {composition, pilots}) @@ (r2 :> {"sides"}),
           (r1 :> {composition}) @@ (r2 :> {composition, "sides"})}
=============================================================================
