CONSTANTS
  hu = hu ph = ph x1 = x1 x2 = x2 r1 = r1 p1 = p1 p2 = p2 c1 = c1 c2 = c2 c3 = c3
  Sites = {hu, ph}
  Hungary = hu
  PH = ph
  Serials = {x1, x2}
  Rfs = {r1}
  NoRf = NoRf
  Pcbs = {}
  MaxDate = 2
  Cutoff = 1
  KeyBatch = 1
  MaxTests = 2
  Listings = {TRUE, FALSE}
  Calls = {c1, c2}
  Kinds = {"force", "ph", "rf", "rest"}
  MaxOpen = 2
  NoRow = NoRow
SPECIFICATION Spec
SYMMETRY Symmetry
INVARIANTS TypeOK NoLostUnit SerialTwiceOnlyByOverlap EndedCallLogsItsRows
INVARIANTS LoggedIsNotBacklog
CHECK_DEADLOCK FALSE
