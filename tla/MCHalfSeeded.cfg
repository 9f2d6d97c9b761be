SPECIFICATION StartupSpec
CONSTANTS
  p1 = p1
  p2 = p2
  f1 = f1
  f2 = f2
  c1 = c1
  c2 = c2
  Process = {p1, p2}
  Fixture <- MCFixture
  ClientKey = {c1, c2}
  Kind <- MCKind
  MaxCrashes = 2
SYMMETRY Alike
INVARIANT
  ServedIsWhole
