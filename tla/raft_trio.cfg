SPECIFICATION Spec
CONSTANTS
  n1 = n1
  n2 = n2
  n3 = n3
  v1 = v1
  v2 = v2
  Node = {n1, n2, n3}
  Value = {v1, v2}
  Poison = {}
  Nil = Nil
  MaxTerm = 2
  MaxLogLen = 2
  MaxMessages = 15
SYMMETRY NodeValueSymmetry
CHECK_DEADLOCK FALSE
INVARIANTS
  ElectionSafety
  OneVotePerTerm
  LogMatching
  TimersArmed
PROPERTIES
  TermsAndVotesStable
