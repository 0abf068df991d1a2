CONSTANTS
  l1 = l1
  l2 = l2
  LOG = {l1, l2}
  Keep = 1
  MaxRuns = 3
  MaxFaults = 3
SYMMETRY Logs
SPECIFICATION Spec
INVARIANTS
  
  BackupsCarryTheirLogs
PROPERTIES
  RestoreIsTheLastBackup
CHECK_DEADLOCK FALSE
