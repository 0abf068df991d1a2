CONSTANTS
  member = member
  fc = fc
  BR = {b1, b2}
  USER = {member, fc}
  Elevated = {fc}
  REQ = {r1, r2}
  MaxRows = 4
SPECIFICATION Spec
SYMMETRY Renamings
INVARIANTS
  PanelsShowTheirOwn
  
CHECK_DEADLOCK FALSE
