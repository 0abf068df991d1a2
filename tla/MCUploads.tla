----------------------------- MODULE MCUploads ------------------------------
(***************************************************************************)
(* UploadStore on two reports, one gamelog and two broadcast logs, one of  *)
(* them an extension of the other, that cross midnight (a day has eight    *)
(* units); the first parser drops a line that the second keeps.            *)
(***************************************************************************)
EXTENDS UploadStore

CONSTANTS short, long

MCLinesOf ==
    [p \in {1, 2} |->
       [c \in BLOG |-> (IF c = short THEN <<9>> ELSE <<10, 9>>)
                         \o (IF p = 1 THEN <<6>> ELSE <<7, 6>>)]]
MCBattleAt == [b \in BR |-> 8]
MCFightSets ==
    {{}, {[id |-> 1, start |-> 6, end |-> 9]}}

Renamings == Permutations(REQ) \union Permutations(BR)
=============================================================================
