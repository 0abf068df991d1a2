CONSTANTS
  short = short
  long = long
  BR = {b1, b2}
  GLOG = {g1}
  BLOG = {short, long}
  LinesOf <- MCLinesOf
  Day = 8
  BattleAt <- MCBattleAt
  FightSets <- MCFightSets
  Pad = 1
  REQ = {r1, r2}
  MaxFiles = 2
SPECIFICATION Spec
SYMMETRY Renamings
INVARIANTS
  RowsKeepTheirFiles
  
  DatesAreTrue
