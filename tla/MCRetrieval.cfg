CONSTANTS
  Nodes = {1,2,3}
  Links = {{1,2},{2,3}}
  Holders = {}
  Requesters = {3}
  MaxSelects = 2
  MaxRounds = 2
  MaxRefused = 1
SPECIFICATION Spec
INVARIANT NoRequestLoop
CHECK_DEADLOCK FALSE
