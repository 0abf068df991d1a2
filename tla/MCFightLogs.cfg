CONSTANTS
  b1 = b1
  b2 = b2
  BR = {b1}
  k1 = 1
  k2 = 2
  k3 = 3
  KM = {1, 2, 3}
  TimeOf <- MCTimeOf
  ChainWindow = 3
  ClustersOf <- MCClustersOf
  LOG = {1, 2}
  EventsOf <- MCEventsOf
  CharOf <- MCCharOf
  SessionOf <- MCSessionOf
  Pad = 2
SPECIFICATION Spec
INVARIANTS
  StampsNameTheOwner
  StoredEventsCountOnce
PROPERTIES
  IngestConverges
  SessionConverges
