SPECIFICATION MCSpec
CONSTANTS
  KeyOf <- MCKeyOf
  Type = {"epic", "story", "sub"}
  Level <- MCLevel
  Standard = "story"
  LinkType = {"1"}
  Global = {"", "g"}
  Url = {"", "u"}
  Label = {"", "l"}
  DevState <- MCDevState
  Client = {"c"}
  MaxWrites = 6
  Issues = 2
  SprintId = {1, 2}
  none = none
  NoRef = none
  KeyLists <- MCKeyLists
  Databases <- MCDatabases
  MaxClock = 4
  PageId <- MCPageId
  Fixture <- MCFixture
  Space = {"S"}
  Editor = {"e1", "e2"}
  Form <- MCForm
  MaxEdits = 2
  MaxSends = 2
  Upload = {u1, u2}
  Process = {p1, p2}
  Content = {"aa1", "aa2", "big"}
  Bucket <- MCBucket
  TooLarge = {"big"}
  StatusById <- MCStatusById
  NewStatus = {"1", "10000"}
  Initial = "10000"
  Authored <- MCAuthored
  MaxSteps = 3
INVARIANT
  RowHasFile
CHECK_DEADLOCK FALSE
