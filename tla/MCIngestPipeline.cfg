CONSTANTS
  b1 = b1
  b2 = b2
  BR = {b1}
  NoBr = NoBr
  link = link
  window = window
  SRC = {link, window}
  Links = {link}
  NoUrl = NoUrl
  k1 = k1
  k2 = k2
  KM = {k1, k2}
  RefsOf <- MCRefsOf
  MaxEdits = 3
  MaxCrashes = 1
SPECIFICATION FairPipeline
INVARIANTS
  UnfinishedIsOwned
  
  DeletedLeavesNothing
  AddedSourceIsTried
PROPERTIES
  EveryReportSettles
CHECK_DEADLOCK FALSE
