\* One user: two sends and a domain handler race; no faults but failing calls.
SPECIFICATION MailSpec
CONSTANTS
  u1 = u1
  u2 = u2
  n1 = n1
  d1 = d1
  d2 = d2
  k1 = k1
  i1 = i1
  User = {u1}
  Name = {n1}
  DomainId = {d1}
  OwnerOf <- OneOwner
  NameOf <- OneName
  Request = {r1}
  Purpose = {"mx"}
  EngineConfigured = FALSE
  NoDomain = NoDomain
  ApiKey = {k1}
  KeyOwner <- OneKey
  Inbound = {i1}
  InboundDomain <- OneInbound
  Send = {s1, s2}
  EmailId = {e1, e2}
  SendLimit = 1
  Faults = {}
  NoKey = NoKey
  NoInbound = NoInbound
  NoEmail = NoEmail
SYMMETRY Twins
INVARIANTS
  MailOnlyFromPublishedNames
  WindowLimit
PROPERTIES
  ClosingTakesHold
  OutboxKept
CHECK_DEADLOCK FALSE
