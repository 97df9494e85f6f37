\* A feature with two photos, fair runs one at a time, one crash.
CONSTANTS
  a1 = a1
  a2 = a2
  p1 = p1
  p2 = p2
  NoAtt = NoAtt
  Atts = {a1, a2}
  Flows = {p1}
  Kinds = {"capture", "reference"}
  MaxAttempts = 2
  MaxPhotos = 1
  MaxCalls = 1
  MaxCrashes = 1
SPECIFICATION FairSpec
INVARIANT TypeOK
INVARIANT PhotosFirst
PROPERTY RunsEnd
 
CHECK_DEADLOCK FALSE
