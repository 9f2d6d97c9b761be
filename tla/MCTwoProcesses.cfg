SPECIFICATION Spec
CONSTANTS
  p1 = p1
  p2 = p2
  t1 = t1
  t2 = t2
  Process = {p1, p2}
  Thread = {t1, t2}
  None = None
  MaxRequests = 4
INVARIANT
  AckIsDurable
CHECK_DEADLOCK FALSE
