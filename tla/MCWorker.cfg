CONSTANTS
  BR = {b1, b2, b3}
  NoBr = NoBr
  alliance = alliance
  battleReport = battleReport
  killmail = killmail
  damage = damage
  thread = thread
  expected = expected
  ticker = ticker
  Latest = 3
  Creation <- MCCreation
  Probe = battleReport
  COLUMN = {damage, thread, expected, ticker}
  TableOf <- MCTableOf
  VersionOf <- MCVersionOf
  DataVersions = {2}
  MaxStops = 3
  MaxRollbacks = 1
SPECIFICATION WorkerSpec
INVARIANTS
  IngestsMeetTheirSchema
  SnapshotsCanBeRestored
PROPERTIES
  ImplementsQueue
  EveryScheduleServed
  DataMigratesOnce
  WorkerReturns
