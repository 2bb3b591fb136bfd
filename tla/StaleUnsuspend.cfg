\* The status unsuspendDomain has read is stale when it is written.
SPECIFICATION DomainSpec
CONSTANTS
  u1 = u1
  u2 = u2
  n1 = n1
  d1 = d1
  d2 = d2
  r1 = r1
  r2 = r2
  User = {u1}
  Name = {n1}
  DomainId = {d1}
  OwnerOf <- SingleOwner
  NameOf <- SingleName
  Request = {r1, r2}
  Purpose = {"mx", "spf"}
  EngineConfigured = TRUE
  NoDomain = NoDomain
INVARIANT SendingMatchesVerification
CHECK_DEADLOCK FALSE
