----------------------------- MODULE MCAarPanel -----------------------------
(***************************************************************************)
(* AarPanel on one or two reports, a member and an FC, and two requests at *)
(* a time.                                                                 *)
(***************************************************************************)
EXTENDS AarPanel, TLC

CONSTANTS member, fc

Renamings == Permutations(REQ) \union Permutations(BR)
=============================================================================
