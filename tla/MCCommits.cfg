SPECIFICATION MCSpec
CONSTANTS
  o1 = o1
  o2 = o2
  a1 = a1
  a2 = a2
  a3 = a3
  Opener = {o1, o2}
  Attachment = {a1, a2, a3}
  Stored = {a1}
  MaxCrashes = 2
  p1 = p1
  p2 = p2
  t1 = t1
  t2 = t2
  Process = {p1, p2}
  Thread = {t1, t2}
  None = None
  MaxRequests = 4
INVARIANTS
  MigrateTypeOK
  BytesReachable
  BackupRollsBack
  OpenIsMigrated
  DurableWithinProcess
  IdsMintedOnce
PROPERTIES
  NeverDestroyed
  OpenEnds
  RequestsEnd
CHECK_DEADLOCK FALSE
