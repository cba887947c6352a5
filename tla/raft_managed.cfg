SPECIFICATION ClusterSpec
CONSTANTS
  n1 = n1
  n2 = n2
  v1 = v1
  Node = {n1, n2}
  Value = {v1}
  Poison = {}
  Nil = Nil
  MaxTerm = 2
  MaxLogLen = 2
  MaxMessages = 7
  MaxCalls = 3
SYMMETRY NodeSymmetry
CHECK_DEADLOCK FALSE
INVARIANTS
  ActiveRolesTimed
PROPERTIES
  OnlyRestartForgets
