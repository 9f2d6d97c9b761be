SPECIFICATION MCSpec
CONSTANTS
  p1 = p1
  p2 = p2
  f1 = f1
  f2 = f2
  c1 = c1
  c2 = c2
  Process = {p1, p2}
  Fixture <- MCFixture
  ClientKey = {c1, c2}
  Kind <- MCKind
  MaxCrashes = 2
  ada = ada
  grok = grok
  fixed = fixed
  k1 = k1
  k2 = k2
  t1 = t1
  t2 = t2
  Key = {k1, k2}
  Actor = {ada, grok}
  NoOne = NoOne
  Text = {t1, t2}
  Status <- MCStatus
  Category <- MCCategory
  InitialStatus = 1
  Shadowed = {1}
  Resolution = {fixed}
  NoResolution = NoResolution
  DefaultResolution = fixed
  InitialScreens <- MCScreens
  Reader = {ada}
  MaxClock = 4
SYMMETRY AllAlike
INVARIANTS
  StartupTypeOK
  OpenIsWhole
  AckedSurvives
  MintedIdsFree
  TypeOK
  ChangelogReplays
  ResolvedIffDone
  ClaimExclusive
  NoDanglingStatus
PROPERTIES
  CatalogStays
  WritesMoveUpdated
  ListedIdLands
