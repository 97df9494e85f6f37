\* The pages whose work has to end, on small instances.
CONSTANTS
  Routes = {"reconcile", "conflicts", "import", "features", "bundle"}
  Sources = {"s1", "s2"}
  NoSource = "no source"
  Keys = {"backup"}
  Endings = {"partial", "failed"}
  MaxOpens = 2
  MaxJobs = 1
  Conflicts = {1, 2}
  NoConflict = 0
  Fields = {"f1"}
  Changes = {"updated", "deleted"}
  MaxForeign = 1
  Credentials = {"home"}
  Blank = "blank"
  Home = "home"
  Tables = {"t1"}
  MaxOut = 1
  NumFeatures = 3
  Edited = {1, 2}
  PageSize = 2
  Matching = {1}
  MaxVersion = 1
  MaxRowWrites = 1
  Dialogs = {"d1"}
  MaxContent = 2
  MaxBuilds = 2
SPECIFICATION Spec
INVARIANT TypeOK
INVARIANT JobIsOfTheSource
INVARIANT SubmittedIsConfigured
 
 
PROPERTY RunsAreTold
 
 
CHECK_DEADLOCK FALSE
