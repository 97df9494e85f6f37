\* One photo whose confirmation is lost.
CONSTANTS
  a1 = a1
  a2 = a2
  p1 = p1
  p2 = p2
  NoAtt = NoAtt
  Atts = {a1}
  Flows = {p1}
  Kinds = {"capture"}
  MaxAttempts = 2
  MaxPhotos = 1
  MaxCalls = 1
  MaxCrashes = 0
SPECIFICATION PersistentSpec
PROPERTY EveryPhotoConfirmed
CHECK_DEADLOCK FALSE
