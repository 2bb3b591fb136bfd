\* What must happen eventually, one component at a time.
SPECIFICATION EventuallySpec
CONSTANTS
  \* A worker whose batch has room for every mailbox.
  m1 = m1
  m2 = m2
  d1 = d1
  Mailbox = {m1, m2}
  Domain = {d1}
  DomainOf <- SameDomain
  MaxUid = 1
  Request = {q1}
  Run = {w1}
  Batch = 2
  Filing = {}
  Faults = {}
  NoMailbox = NoMailbox
  \* Deliveries of an event overlap, with failing handlers, lost updates and processes.
  Event = {e1}
  Delivery = {r1, r2, r3}
  MaxDeliveries = 4
  MaxFailures = 2
  NoEvent = NoEvent
  \* Two tabs, a user who signs up and an administrator, a request that fails.
  Person = {p1, p2}
  Staff = {p2}
  Member = {p2}
  Tab = {t1, t2}
  Typed = {"/", "/login", "/onboarding", "/emails/$emailId", "/admin", "/accept-invitation"}
  HasOwner = TRUE
  MaxLinks = 2
  MaxMoves = 2
  MaxOutages = 1
  Nobody = Nobody
INVARIANT HeaderIsOwn
PROPERTIES
  MailArrives
  EventLogKept
  FailedIsRetried
  NavigationEnds
CHECK_DEADLOCK FALSE
