-------------------------- MODULE MCIngestPipeline --------------------------
(***************************************************************************)
(* IngestPipeline on two reports that share a scheduler: one link and one  *)
(* window source whose killmails overlap.                                  *)
(***************************************************************************)
EXTENDS IngestPipeline, TLC

CONSTANTS b1, b2, link, window, k1, k2

MCRefsOf == (link :> {k1}) @@ (window :> {k1, k2})
=============================================================================
