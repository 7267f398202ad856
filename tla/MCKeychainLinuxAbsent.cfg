SPECIFICATION Spec
CONSTANTS
  Client = {c1, c2}
  ID = {id1}
  Meta = {m1, m2}
  MaxItems = 2
  MaxSaves = 4
  MaxCalls = 4
  MaxRetries = 1
  Kinds = {"save"}
  Faults = {}
  NoItem = NoItem
  NoID = NoID
  NoMeta = NoMeta
CHECK_DEADLOCK FALSE
SYMMETRY Symmetry
PROPERTY NeverAbsent
