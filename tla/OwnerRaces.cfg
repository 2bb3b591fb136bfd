\* Two handlers at a time, of every kind, from an empty database.
SPECIFICATION FairSpec
CONSTANTS
  User = {u1, u2}
  Email = {e1, e2}
  Invitation = {i1}
  Task = {t1, t2}
  MaxTasks = 5
  Kinds = {"setup", "signup", "script", "update", "disable", "enable", "invite", "accept"}
  NoUser = NoUser
  NoEmail = NoEmail
  NoInvitation = NoInvitation
INVARIANTS
  InvitationGrantsOnce
PROPERTIES
  OwnersFallToOvertakenOnly
  AcceptedGetsRole
CHECK_DEADLOCK FALSE
