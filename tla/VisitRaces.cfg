\* Visits, flushes and reports, one component at a time.
SPECIFICATION AnalyticsSpec
CONSTANTS
  \* Two visits, two cookies, one user, two flushes and a call that fails.
  Visit = {v1, v2}
  Visitor = {c1, c2}
  SignedIn = {u1}
  Processing = {k1, k2}
  Flusher = {f1, f2}
  BatchSize = 2
  MaxFailures = 1
  NoOne = NoOne
  \* Two days of two ticks, two cookies, a user and a bot.
  Cookie = {d1, d2}
  Bots = {d2}
  Account = {w1}
  TicksPerDay = 2
  Days = 2
  IdleTimeout = 1
  Retention = 2
  RangeDays = 2
  MaxVisits = 3
  MaxRequeued = 1
  Nobody = Nobody
SYMMETRY Alike
INVARIANTS
  TwiceOnlyIfRevived
  NothingVanishes
  OneIdentityPerUser
  SessionsRunForward
  ReportsAgree
CHECK_DEADLOCK FALSE
