SPECIFICATION Spec
CONSTANTS
  s1 = s1
  w1 = w1
  s2 = s2
  a = a
  b = b
  Session = {s1, s2}
  Worker = {w1}
  MaxTurns = 3
  Output = {a, b}
  Unsafe = {b}
  HardCap <- Caps
  Estimate = 150
  MaxReplaced = 1
CHECK_DEADLOCK FALSE
INVARIANTS
  LedgerVerifies
  TokensAccounted
  TurnsBacked
PROPERTIES
  TurnsEnd
