SPECIFICATION Spec
CONSTANTS
  n1 = n1
  n2 = n2
  n3 = n3
  v1 = v1
  Node = {n1, n2, n3}
  Value = {v1}
  Poison = {}
  Nil = Nil
  MaxTerm = 2
  MaxLogLen = 1
  MaxMessages = 15
SYMMETRY NodeSymmetry
CHECK_DEADLOCK FALSE
INVARIANT
  CommittedByQuorum
