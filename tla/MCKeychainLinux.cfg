SPECIFICATION Spec
CONSTANTS
  Client = {c1, c2}
  ID = {id1}
  Meta = {m1, m2}
  MaxItems = 2
  MaxSaves = 3
  MaxCalls = 4
  MaxRetries = 2
  Kinds = {"save", "delete", "get", "filter", "metadata"}
  Faults = {"relock", "dismiss", "dbus"}
  NoItem = NoItem
  NoID = NoID
  NoMeta = NoMeta
CHECK_DEADLOCK FALSE
SYMMETRY Symmetry
INVARIANTS TypeOK RelocksAbsorbed SaveLeavesOne GetFindsIt
PROPERTY SaveNeverAbsent
