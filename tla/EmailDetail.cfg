\* The address of an email is opened or followed from the list.
SPECIFICATION WebSpec
CONSTANTS
  Person = {p1, p2}
  Staff = {p2}
  Member = {p2}
  Tab = {t1}
  Typed = {"/", "/login", "/emails/$emailId"}
  HasOwner = TRUE
  MaxLinks = 2
  MaxMoves = 3
  MaxOutages = 0
  Nobody = Nobody
INVARIANT EmailDetailIsShown
CHECK_DEADLOCK FALSE
