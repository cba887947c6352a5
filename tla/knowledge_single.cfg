SPECIFICATION Spec
CONSTANTS
  p1 = p1
  k1 = k1
  k2 = k2
  Process = {p1}
  Checkpointer = {p1}
  Knowledge = {k1, k2}
  Initial = {"discovered", "quarantined"}
  Absent = Absent
  MaxEvents = 3
  MaxCrashes = 1
SYMMETRY Interchangeable
CHECK_DEADLOCK FALSE
INVARIANTS
  AloneSound
PROPERTIES
  OneHistory
