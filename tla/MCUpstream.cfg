CONSTANTS
  pilot = pilot
  group = group
  system = system
  nobody = nobody
  Killmail = {0, 1, 2}
  HourOf <- MCHourOf
  InWindow = {0, 1}
  LastHour = 1
  MaxHours = 1
  Priced = {1}
  ENT = {pilot, group, system, nobody}
  Nameless = {nobody}
  Placed = {system}
  Groups = {group}
  EntOf <- MCEntOf
  Batch = 3
  Attempts = 2
  MaxConcurrency = 2
  MaxFaults = 3
  MaxDeaths = 1
SPECIFICATION FairRefresh
INVARIANTS
  BlipsLeaveNoHole
PROPERTIES
  EverythingArrives
