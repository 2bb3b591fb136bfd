\* The limiter and the cached permissions, one at a time.
\* Two changes of roles, with the custom role there at first or not.
SPECIFICATION GatesSpec
CONSTANTS
  \* Two mutations at once, with one request that reads and caches.
  u1 = u1
  u2 = u2
  p1 = p1
  system = system
  custom = custom
  User = {y1, y2}
  Permission = {p1}
  Role = {system, custom}
  SystemRole = {system}
  ProtectedRole = {}
  Defaults <- OneDefault
  RoleAtStart <- AllSystem
  Reader = {q1}
  Admin = {x1, x2}
  MaxChanges = 2
  Operations = {"assign", "override", "replace", "reset", "rename", "create", "delete"}
  Crashes = TRUE
  NoUser = NoUser
  NoRole = NoRole
  NoEntry = NoEntry
  \* Two servers, two requests, and windows that end in between.
  Server = {y1, y2}
  Request = {x1, x2}
  MaxRequests = 3
  MaxUpdates = 1
  WindowSeconds = {1, 2}
  TicksPerSecond = 3
  Limits = {1}
  CacheTtl = 1
  Start = 41
  End = 44
  Faults = TRUE
SYMMETRY Actors
INVARIANTS
  StaleIsOwedOrLate
  PassedWithinLimit
  RetryAfterSuffices
  OwnUpdateSticks
PROPERTY AssignmentsNeverStrip
CHECK_DEADLOCK FALSE
