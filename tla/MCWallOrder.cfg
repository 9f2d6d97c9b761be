SPECIFICATION MCSpec
CONSTANTS
  walker = walker
  writer = writer
  Client = {walker, writer}
  Kind = {"search", "write"}
  FaultList <- MCFaultList
  RingMax = 2
  MaxAdmin = 1
  Digits = 2
  Radix = 2
  TimeText <- MCTimeText
  UserName <- MCUserName
  Key <- MCKey
  Rank <- MCRank
  FieldText <- MCFieldText
  Row <- MCRow
  Label = {"x"}
  ParseJQL <- Parse
  Satisfies <- MCSatisfies
  Text <- MCText
  PageSize = {1, 3}
  Dialect = {"cloud", "dc"}
  MaxWrites = 2
INVARIANT
  NewestFirst
CHECK_DEADLOCK FALSE
