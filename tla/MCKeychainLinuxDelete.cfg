SPECIFICATION Spec
CONSTANTS
  Client = {c1, c2}
  ID = {id1}
  Meta = {m1, m2}
  MaxItems = 2
  MaxSaves = 3
  MaxCalls = 4
  MaxRetries = 1
  Kinds = {"save", "delete"}
  Faults = {}
  NoItem = NoItem
  NoID = NoID
  NoMeta = NoMeta
CHECK_DEADLOCK FALSE
SYMMETRY Symmetry
INVARIANT DeleteRemoves
