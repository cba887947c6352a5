SPECIFICATION DirectSpec
CONSTANTS
  p1 = p1
  p2 = p2
  k1 = k1
  Process = {p1, p2}
  Checkpointer = {}
  Knowledge = {k1}
  Initial = {"discovered"}
  Absent = Absent
  MaxEvents = 2
  MaxCrashes = 2
SYMMETRY Interchangeable
CHECK_DEADLOCK FALSE
INVARIANTS
  NoGaps
  ViewWasTrue
PROPERTIES
  ViewNeverBack
