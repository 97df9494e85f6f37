\* A capture and a reference edit, fair flows and a user who keeps trying; one crash.
CONSTANTS
  c1 = c1
  c2 = c2
  p1 = p1
  p2 = p2
  Cids = {c1, c2}
  RefRows = {c2}
  Flows = {p1}
  PushChunk = 2
  VerifyChunk = 2
  MaxPush = 2
  MaxStrikes = 1
  MaxVersion = 1
  MaxCrashes = 1
  MaxRequests = 1
  NoRow = NoRow
SPECIFICATION PersistentSpec
INVARIANT TypeOK
PROPERTY ImplementsDelivery
INVARIANT SyncedOnServer
PROPERTY FlowsEnd
PROPERTY EveryRowSettles
CHECK_DEADLOCK FALSE
