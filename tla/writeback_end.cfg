\* A job and a single-feature write-back of the same feature, an edit of the source, two errors, one crash.
CONSTANTS
  j1 = j1
  j2 = j2
  d1 = d1
  NoJob = NoJob
  NoFeature = NoFeature
  Features = {1}
  Inserts = {}
  PoolJobs = {j1}
  DirectJobs = {d1}
  BatchSize = 1
  QueueSize = 1
  MaxSourceEdits = 1
  MaxErrors = 2
  MaxCrashes = 1
SPECIFICATION FairSpec
INVARIANT TypeOK
PROPERTY JobsEnd
CHECK_DEADLOCK FALSE
