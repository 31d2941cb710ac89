CONSTANTS
  hu = hu ph = ph x1 = x1 x2 = x2 r1 = r1 p1 = p1 p2 = p2 c1 = c1 c2 = c2 c3 = c3
  Sites = {hu, ph}
  Hungary = hu
  PH = ph
  Serials = {x1}
  Rfs = {}
  NoRf = NoRf
  Pcbs = {p1, p2}
  MaxDate = 2
  Cutoff = 0
  KeyBatch = 1
  MaxTests = 3
  Listings = {TRUE}
  Calls = {c1, c2}
  Kinds = {"force"}
  MaxOpen = 2
  NoRow = NoRow
SPECIFICATION Spec
SYMMETRY Symmetry
INVARIANTS NoLostKey KeyTwiceOnlyByFailureOrOverlap
PROPERTIES SoloRefreshNeverOlder
CHECK_DEADLOCK FALSE
