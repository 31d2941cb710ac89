CONSTANTS
  a = a c = c r1 = r1 r2 = r2 p1 = p1 f1 = f1
  Runs = {r1, r2}
  Procs = {p1}
  Conns = {a}
  LastTable = 2
  Files = {f1}
  FileOf <- MCFileOf
  Requests <- Successive
  MaxCrashes = 1
SPECIFICATION Spec
SYMMETRY Symmetry
INVARIANTS ResumeNeverRepeats
PROPERTIES CompletedRunAccounts
CHECK_DEADLOCK FALSE
