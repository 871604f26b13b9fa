SPECIFICATION FairSpec
CONSTANTS
  m1 = m1
  m2 = m2
  k1 = k1
  t1 = t1
  t2 = t2
  Inbound = {m1, m2}
  Printable = {m1}
  Ticket = {k1}
  Thread = {t1, t2}
  MaxStacks = 2
  MaxAsks = 2
  MaxEvents = 1
CHECK_DEADLOCK FALSE
INVARIANTS
  StripsAccounted
  PrintsItselfOnce
PROPERTIES
  DueIsTried
