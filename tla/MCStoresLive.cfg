SPECIFICATION MCSpec
CONSTANTS
  c1 = c1
  c2 = c2
  c3 = c3
  p1 = p1
  p2 = p2
  Client = {c1, c2, c3}
  Process = {p1, p2}
  ProcOf <- MCProcOf
  ID = {id1, id2}
  KeyType = {"pass", "age"}
  Prompts <- MCPrompts
  MaxSaves = 2
  MaxCalls = 3
  Absent = Absent
  Torn = Torn
  NoID = NoID
  Faults = {"crash"}
  Caller = {k1, k2}
  Key = {key1}
  Meta = {m1, m2}
  MaxItems = 2
  MaxKeySaves = 3
  MaxKeyCalls = 3
  MaxRetries = 1
  KeyKinds = {"save"}
  KeyFaults = {"relock"}
  NoItem = NoItem
  NoKey = NoKey
  NoMeta = NoMeta
CHECK_DEADLOCK FALSE
INVARIANT ReadsMissNothing
PROPERTIES OperationsReturn KeychainReturns
