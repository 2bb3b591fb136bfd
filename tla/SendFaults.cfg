\* Two users who registered one name, one with a key; crashes, lost SMTP answers
\* and failing updates; no replies.
SPECIFICATION MailSpec
CONSTANTS
  u1 = u1
  u2 = u2
  n1 = n1
  d1 = d1
  d2 = d2
  k1 = k1
  i1 = i1
  User = {u1, u2}
  Name = {n1}
  DomainId = {d1, d2}
  OwnerOf <- TwoOwners
  NameOf <- SharedName
  Request = {r1}
  Purpose = {"mx"}
  EngineConfigured = FALSE
  NoDomain = NoDomain
  ApiKey = {k1}
  KeyOwner <- OneKey
  Inbound = {}
  InboundDomain <- NoInboundMail
  Send = {s1}
  EmailId = {e1}
  SendLimit = 1
  Faults = {"database", "smtpAnswer", "crash"}
  NoKey = NoKey
  NoInbound = NoInbound
  NoEmail = NoEmail
INVARIANTS
  SenderOwnsDomain
PROPERTY OutboxKept
CHECK_DEADLOCK FALSE
