SPECIFICATION Spec
CONSTANTS
  k1 = k1
  Key = {k1}
  Kind = {"good", "bad", "odd"}
  SlowWriter = FALSE
  MaxBatch = 2
  MaxWrites = 3
  MaxStarts = 2
  MaxStops = 1
CHECK_DEADLOCK FALSE
INVARIANTS
  WriterSound
PROPERTIES
  RowsNeverGoBack
  WaitersAnswered
