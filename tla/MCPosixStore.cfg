SPECIFICATION Spec
CONSTANTS
  c1 = c1
  c2 = c2
  c3 = c3
  p1 = p1
  p2 = p2
  Client = {c1, c2, c3}
  Process = {p1, p2}
  ProcOf <- MCProcOf
  ID = {id1, id2}
  KeyType = {"pass", "age"}
  Prompts <- MCPrompts
  MaxSaves = 2
  MaxCalls = 3
  Absent = Absent
  Torn = Torn
  NoID = NoID
  Faults = {"crash", "io", "key"}
CHECK_DEADLOCK FALSE
SYMMETRY Symmetry
INVARIANTS TypeOK NoMixedVersions NoLockLeaks
PROPERTY ImplementsSecretStore
