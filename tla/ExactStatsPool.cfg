CONSTANTS
  a = a c = c r1 = r1 r2 = r2 p1 = p1 f1 = f1
  Runs = {r1}
  Procs = {p1}
  Conns = {a, c}
  LastTable = 1
  Files = {f1}
  FileOf <- MCFileOf
  Requests <- TwoConnections
  MaxCrashes = 1
SPECIFICATION FairSpec
INVARIANTS GatheredLineIsTrue
PROPERTIES StartedRunEnds
CHECK_DEADLOCK FALSE
