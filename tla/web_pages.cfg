\* The other pages of the web applications on small instances.
CONSTANTS
  Routes = {"sources", "style", "form", "session", "geo", "select", "pages", "search", "basemap", "tools", "accounts", "rights", "history", "layer export", "bundle export", "print"}
  Connections = {"k1"}
  Unlinked = "unlinked"
  MaxSources = 1
  Operators = {"gte"}
  Cuts = {2}
  Colors = {1, 2}
  MaxRules = 2
  MaxEdits = 2
  MaxSaves = 1
  MaxId = 1
  CounterGap = 0
  MaxCounter = 2
  MaxFields = 2
  MaxVersions = 2
  MaxOut = 1
  Texts = {"typed"}
  Tabs = {"tab1", "tab2"}
  MaxGrants = 2
  Calls = {"c1", "c2"}
  MaxIssued = 3
  Features = {"line", "area"}
  Shapes = {"lasso"}
  Nobody = "nobody"
  Traceable = {"line"}
  Polygons = {"area"}
  Assessed = {"line"}
  Photographed = {"line"}
  NumPhotos = 2
  Ids = {1, 2, 3}
  Values = {1, 2}
  PageLimit = 2
  SearchLayers = {1, 2}
  Queries = {"q1", "q2"}
  Basemaps = {"topo", "satellite"}
  Layers = {"poles"}
  Subjects = {"nothing", "shape", "buffer"}
  MaxWaits = 1
  Corners = 3
  Accounts = {"me", "other"}
  Me = "me"
  Roles = {"superuser", "viewer"}
  AuditLimit = 1
  MaxToggles = 2
  MaxRuns = 2
  MaxRightsChanges = 1
SPECIFICATION Spec
INVARIANT TypeOK
INVARIANT ImportedIsListed
 
 
 
INVARIANT NoSecondExchange
INVARIANT TraceIsOfSelection
INVARIANT PagesInOrder
INVARIANT ResultsAreOfQuery
INVARIANT SwapLosesNothing
INVARIANT ListsAreCurrent
INVARIANT ProgressIsOfRun
PROPERTY CallsEnd
PROPERTY OneTaker
CHECK_DEADLOCK FALSE
