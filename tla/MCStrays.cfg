SPECIFICATION Spec
CONSTANTS
  ada = ada
  grok = grok
  fixed = fixed
  k1 = k1
  k2 = k2
  t1 = t1
  t2 = t2
  Key = {k1, k2}
  Actor = {ada, grok}
  NoOne = NoOne
  Text = {t1, t2}
  Status <- MCStatus
  Category <- MCCategory
  InitialStatus = 1
  Shadowed = {}
  Resolution = {fixed}
  NoResolution = NoResolution
  DefaultResolution = fixed
  InitialScreens <- MCScreens
  Reader = {ada}
  MaxClock = 4
SYMMETRY KeysAndTexts
INVARIANT
  NoIssueAtDeleted
