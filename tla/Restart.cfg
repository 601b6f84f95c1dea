SPECIFICATION RestartFairSpec
CONSTANTS
  Conns = {c1, c2}
  Calls = {r1, r2}
  Operations = {op1}
  NoOp = NoOp
PROPERTIES RestartHappens Replacement
CHECK_DEADLOCK FALSE
