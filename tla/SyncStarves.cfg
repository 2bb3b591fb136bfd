\* A worker with more mailboxes than its batch has room for.
SPECIFICATION SyncFairSpec
CONSTANTS
  m1 = m1
  m2 = m2
  d1 = d1
  Mailbox = {m1, m2}
  Domain = {d1}
  DomainOf <- SameDomain
  MaxUid = 1
  Request = {q1}
  Run = {w1}
  Batch = 1
  Filing = {}
  Faults = {}
  NoMailbox = NoMailbox
PROPERTY NewMailboxGetsSynced
CHECK_DEADLOCK FALSE
