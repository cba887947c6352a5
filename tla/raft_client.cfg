SPECIFICATION ClientSpec
CONSTANTS
  n1 = n1
  n2 = n2
  v1 = v1
  v2 = v2
  Node = {n1, n2}
  Value = {v1, v2}
  Poison = {v2}
  Nil = Nil
  MaxTerm = 3
  MaxLogLen = 2
  MaxMessages = 12
SYMMETRY NodeSymmetry
CHECK_DEADLOCK FALSE
INVARIANTS
  CommittedSafe
  PromisesTrue
PROPERTY OneLog
