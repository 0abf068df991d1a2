CONSTANTS
  b1 = b1
  b2 = b2
  BR = {b1, b2}
  k1 = 1
  k2 = 2
  k3 = 3
  KM = {1, 2}
  TimeOf <- MCTimeOf
  ChainWindow = 3
  ClustersOf <- MCClustersOf
  LOG = {1}
  EventsOf <- MCEventsOf
  CharOf <- MCCharOf
  SessionOf <- MCSessionOf
  Pad = 2
SPECIFICATION Spec
INVARIANTS
  ForeignKeysHold
  NoTwinFights
PROPERTIES
  RefreshKeepsFights
SYMMETRY Reports
