\* The pages of the dashboard, one component at a time.
SPECIFICATION DashboardSpec
CONSTANTS
  \* A list of two pages that grows to three.
  Limit = 2
  StartRows = 4
  MaxRows = 5
  MaxShifts = 2
  MaxFetches = 2
  \* A form that is opened twice, edited twice and overlaps with two changes.
  Perm = {x, y}
  MaxOthers = 2
  MaxEdits = 2
  MaxOpens = 2
  MaxGets = 1
  \* Three acts of the user and others, a request that fails.
  MaxActs = 3
  MaxLost = 1
  \* Two submissions, two administrators, two pages, one thing that goes wrong.
  MaxFeedback = 2
  Admin = {a1, a2}
  Reader = a1
  ListSize = 1
  MaxPages = 2
  MaxSubmits = 1
  MaxTroubles = 1
INVARIANTS
  WalkMissesNothing
  NobodyIsStranded
  OwnChangeShown
  FeedbackReachesAdmins
  MarkedIsShownRead
  PendingIsOwed
PROPERTIES
  SavesChangeTicksOnly
  
CHECK_DEADLOCK FALSE
