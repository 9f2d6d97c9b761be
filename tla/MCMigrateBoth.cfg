SPECIFICATION MigrateSpec
CONSTANTS
  o1 = o1
  o2 = o2
  a1 = a1
  a2 = a2
  a3 = a3
  Opener = {o1, o2}
  Attachment = {a1, a2, a3}
  Stored = {a1}
  MaxCrashes = 2
INVARIANT
  BothOpen
CHECK_DEADLOCK FALSE
