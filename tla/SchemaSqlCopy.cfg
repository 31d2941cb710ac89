CONSTANTS
  c1 = c1 c2 = c2 c3 = c3 t1 = t1 t2 = t2 view = view fk = fk trigger = trigger grant = grant
  schema = schema connect = connect resource = resource
  Calls = {c1, c2}
  Schema = schema
  Roles = {connect}
  Tables = {t1}
  Code = {view}
  Refs = {fk}
  ParentOf <- Parent
  Triggers = {trigger}
  Grants = {grant}
  MaxRows = 2
SPECIFICATION Spec
SYMMETRY Symmetry
INVARIANTS FreshCopyIsWhole RowTwiceOnlyByOverlap
PROPERTIES ImplementsPromise
CHECK_DEADLOCK FALSE
