CONSTANTS
  c1 = c1
  c2 = c2
  Calls <- MCCalls
  LinkKinds <- LinkTools
  ViewKinds <- ViewTools
  MaxFaults = 1
SPECIFICATION Spec
SYMMETRY MCSymmetry
CHECK_DEADLOCK FALSE
INVARIANTS LinkHasItsAccount LeftoversOnlyByFailureOrOverlap
PROPERTIES LinkSurvives FailedCreateLeavesNoAccount PasswordMovesEverywhere ProbeTellsTheTruth ObjectsCompleteOrLinkDown
