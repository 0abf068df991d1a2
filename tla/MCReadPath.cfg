CONSTANTS
  r1 = r1
  r2 = r2
  composition = composition
  pilots = pilots
  battle = battle
  Reader = {r1, r2}
  Key = {composition, pilots}
  Capacity = 1
  MaxCommits = 1
  Battle = battle
  Composition = {composition}
  Asks <- MCAsks
SPECIFICATION ReadSpec
INVARIANTS
  FreshEntriesSeeBumps
  AnswersSeeBumps
PROPERTIES
  OnlyOverlapsTurnStale
  RequestsGetThrough
  AnswersCatchUp
