CONSTANTS
  c1 = c1 c2 = c2 s1 = s1 s2 = s2 x = x y = y target = target None = None
  Calls = {c1, c2}
  Schemas = {s1, s2}
  Sources = {x, y}
  Target = target
  Stamps = {1, 2}
SPECIFICATION Spec
SYMMETRY Symmetry
INVARIANTS ImportsOwnDump MixedOnlyByOverlap ImportedHidesNothing
PROPERTIES ImportsIntoFreshSchemas ImplementsPromise
CHECK_DEADLOCK FALSE
