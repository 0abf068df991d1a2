----------------------------- MODULE MCLogViews ------------------------------
(***************************************************************************)
(* LogViews with three pilots and five logs: one pilot's growing session   *)
(* and a later one, and one log of each of the others, over two fights.    *)
(***************************************************************************)
EXTENDS LogViews, TLC

CONSTANTS logi, tackler, watcher

MCPilot == {logi, tackler, watcher}
MCLog == {"early", "whole", "later", "ofTackler", "ofWatcher"}
MCOwner == [l \in MCLog |-> CASE l = "ofTackler" -> tackler
                              [] l = "ofWatcher" -> watcher
                              [] OTHER -> logi]
MCSession == [l \in MCLog |-> IF l = "early" THEN "whole" ELSE l]
MCSpan == [l \in MCLog |-> CASE l = "early" -> <<0, 6>>
                             [] l = "whole" -> <<0, 20>>
                             [] l = "later" -> <<30, 50>>
                             [] OTHER -> <<0, 50>>]
MCWindow == <<<<0, 10>>, <<8, 52>>>>

Act(by, to, effect, at) == [by |-> by, to |-> to, effect |-> effect, at |-> at]

Even == [p \in MCPilot |-> 0]
Ahead(c) == [p \in MCPilot |-> IF p = c THEN 2 ELSE 0]

MCHistories ==
    [assists : {S \in SUBSET {Act(logi, tackler, "rep_armor", 4), Act(logi, watcher, "rep_shield", 12),
                              Act(logi, tackler, "cap_transfer", 40), Act(tackler, logi, "rep_armor", 4)} :
                  Cardinality(S) \in 1 .. 2},
     tackles : {{}}, skew : {Ahead(logi)}, terse : {{}, {tackler}}]
    \union
    [assists : {{}},
     tackles : {{Act(tackler, watcher, "scram", 3), Act(tackler, watcher, "scram", 11)},
                {Act(tackler, watcher, "scram", 3), Act(watcher, logi, "scram", 40)},
                {Act(tackler, watcher, "scram", 3), Act(tackler, watcher, "scram", 9)},
                {Act(tackler, watcher, "scram", 9)}},
     skew : {Even, Ahead(logi), Ahead(tackler)}, terse : {{}}]
    \union
    [assists : {{}}, tackles : {{Act(tackler, watcher, "scram", 3)}},
     skew : {Even}, terse : {{tackler}}]
=============================================================================
