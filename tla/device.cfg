\* Two flows over one capture: concurrent runs and recoveries, one crash; or
\* two downloads of the packs of a project with one layer.
CONSTANTS
  Directions = {"upload", "download"}
  c1 = c1
  c2 = c2
  p1 = p1
  p2 = p2
  d1 = d1
  d2 = d2
  Cids = {c1}
  RefRows = {}
  Flows = {p1, p2}
  PushChunk = 2
  VerifyChunk = 2
  MaxPush = 2
  MaxStrikes = 2
  MaxVersion = 2
  MaxCrashes = 1
  MaxRequests = 2
  NoRow = NoRow
  Layers = {"l1"}
  Downloads = {d1, d2}
  Targets = {}
  Revised = {"core", "l1"}
  MaxContent = 2
SPECIFICATION DeviceSpec
SYMMETRY Symmetry
INVARIANT CapturesDelivered
INVARIANT DraftsStayLocal
PROPERTY DraftsUntouched
 
INVARIANT SkippedIsCurrent
CHECK_DEADLOCK FALSE
