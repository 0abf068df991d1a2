CONSTANTS
  KM = {1, 2, 3, 4}
  Horizon = 10
  Systems = {0, 1}
  Window = 4
  MaxDuration = 5
  pilotA = pilotA
  pilotB = pilotB
  us = us
  them = them
  usCorp = usCorp
  corp = corp
  hull = hull
  Pilot = {pilotA, pilotB}
  Nobody = Nobody
  Blues = {us}
  ValueOf <- MCValueOf
  Scenes <- MCScenes
  Edits = {us, them, usCorp, corp, pilotA, pilotB}
  MaxEdits = 1
SPECIFICATION StatsSpec
INVARIANTS
  FightsAreTheRuns
  HeadlineFollowsSides
  ReadersAgree
PROPERTIES
  NewKillsOnlyMerge
  RollupsFollowSides
CHECK_DEADLOCK FALSE
