SPECIFICATION MCSpec
CONSTANTS
  Client = {c1, c2}
  ID = {id1, id2}
  MaxBlob = 2
  Lengths = {2, 5}
  MaxSaves = 3
  MaxCalls = 4
  Absent = Absent
  Unknown = Unknown
  NoID = NoID
  NoClient = NoClient
  Process = {"p1"}
  ProcOf <- OneProcess
  Faults = {"fail"}
  Name = {"", "a", "b"}
  Account = {"i"}
  Alien = "x y"
  MaxBindingCalls = 3
  NoStore = NoStore
  BindingFaults = {"convert"}
  MaxRetries = 2
  MaxRelocks = 2
  ServiceFaults = {"fail", "lost"}
  Actor = {a1, a2}
  Reserved = {"docker/secrets-engine/s"}
  Value = {v1}
  MaxPassCalls = 3
  Zero = Zero
CHECK_DEADLOCK FALSE
SYMMETRY Symmetry
INVARIANTS NativeTypeOK WindowsKeepsSecrets DarwinUpsertsHold
INVARIANTS RefsBalanced ServiceIsHonest PassKeepsSecrets
PROPERTIES StoresIsolated
