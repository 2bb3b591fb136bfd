\* Two handlers racing on one user's domain, recreated once, engine configured.
SPECIFICATION DomainSpec
CONSTANTS
  u1 = u1
  u2 = u2
  n1 = n1
  d1 = d1
  d2 = d2
  r1 = r1
  r2 = r2
  User = {u1, u2}
  Name = {n1}
  DomainId = {d1, d2}
  OwnerOf <- OneOwner
  NameOf <- SameName
  Request = {r1, r2}
  Purpose = {"mx", "spf"}
  EngineConfigured = TRUE
  NoDomain = NoDomain
SYMMETRY Handlers
INVARIANTS
  GateConsistent
  SendingNeedsPublishedDns
  RecordsTruthful
  EngineTruth
PROPERTY DeletedStaysDeleted
\* Every id may have been used up and deleted: then nothing is left to do.
CHECK_DEADLOCK FALSE
