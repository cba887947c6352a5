SPECIFICATION Spec
CONSTANTS
  p1 = p1
  p2 = p2
  k1 = k1
  Process = {p1, p2}
  Checkpointer = {p1}
  Knowledge = {k1}
  Initial = {"discovered"}
  Absent = Absent
  MaxEvents = 3
  MaxCrashes = 0
SYMMETRY Interchangeable
CHECK_DEADLOCK FALSE
INVARIANTS
  CheckpointTrue
