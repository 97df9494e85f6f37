\* A feature stored whose photos are not linked.
CONSTANTS
  a1 = a1
  a2 = a2
  p1 = p1
  p2 = p2
  NoAtt = NoAtt
  Atts = {a1}
  Flows = {p1}
  Kinds = {"capture"}
  MaxAttempts = 1
  MaxPhotos = 1
  MaxCalls = 1
  MaxCrashes = 0
SPECIFICATION Spec
INVARIANT SyncedIsLinked
CHECK_DEADLOCK FALSE
