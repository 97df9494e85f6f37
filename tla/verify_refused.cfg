\* A recovery pass whose verify request is refused.
CONSTANTS
  c1 = c1
  c2 = c2
  p1 = p1
  p2 = p2
  Cids = {c1}
  RefRows = {}
  Flows = {p1}
  PushChunk = 2
  VerifyChunk = 2
  MaxPush = 1
  MaxStrikes = 2
  MaxVersion = 1
  MaxCrashes = 1
  MaxRequests = 1
  NoRow = NoRow
SPECIFICATION Spec
PROPERTY VerifyFailureKeepsRows
CHECK_DEADLOCK FALSE
