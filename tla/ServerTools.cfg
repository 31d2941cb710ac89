CONSTANTS
  c1 = c1
  c2 = c2
  Calls <- MCCalls
  MaxFaults = 1
  Groups <- GroupNames
  CacheSize = 2
  MaxValue = 6
  InstanceKinds <- InstanceTools
  PgaGibs <- MCPgaGibs
  BlocksPerGib = 524288
  Gibs <- MCGibs
  Orders <- MCOrders
  Capacity = 2
  Detail = 2
  RefreshCases <- MCRefreshCases
  Nodes <- MCNodes
  Bookmarks <- MCBookmarks
  DataFiles = {"system", "users"}
  MaxTime = 5
  MaxRestarts = 1
SPECIFICATION Spec
SYMMETRY MCSymmetry
CHECK_DEADLOCK FALSE
INVARIANTS SequenceValuesOnce LimitCoversTarget SyncedStays OkMeansClean DeliveredIsWhole PasswordsReadable VersionsKept WindowHoldsSnapshot
PROPERTIES  AnsweredIsDone
