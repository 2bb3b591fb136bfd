\* A request and two worker runs on one mailbox, with crashes, failing calls and expunged mail.
SPECIFICATION SyncSpec
CONSTANTS
  m1 = m1
  m2 = m2
  d1 = d1
  Mailbox = {m1}
  Domain = {d1}
  DomainOf <- SingleDomain
  MaxUid = 2
  Request = {q1}
  Run = {w1, w2}
  Batch = 1
  Filing = {"read"}
  Faults = {"imap", "database", "crash", "expunge"}
  NoMailbox = NoMailbox
SYMMETRY Runs
INVARIANTS
  NothingBehindCursor
PROPERTIES
  ArchiveKept
  DisabledStaysQuiet
CHECK_DEADLOCK FALSE
