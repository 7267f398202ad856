SPECIFICATION MCSpec
CONSTANTS
  Literal = {"a", "b"}
  Other = {"c"}
  MaxParts = 3
  MaxPath = 4
  Base = {"service:group", "service:name", "id", "a"}
  Value = {v1, v2}
  MaxX = 2
  MaxKeys = 3
  Internal = Internal
  Module = {"plugin", "plugins/pass", "runtime"}
  PathOrder <- MCPathOrder
  PathPrefix <- MCPathPrefix
  Edge <- MCEdge
  Levels = {"minor"}
  MaxRuns = 2
  MaxMerges = 1
  NoModule = NoModule
  NoVersion = NoVersion
  Failing = TRUE
  Primes = {23}
  Generator = 2
  Radix = 4
  BlockSize = 2
  MaxPlain = 3
  Call = {c1}
  URL <- MCURL
  Secret = {s1}
  Plugin = {p1, p2}
  MaxChanges = 2
  Procs = {"GetSecrets", "CheckAccess", "GetVersion", "ListPlugins", "EnablePlugin", "DisablePlugin"}
  Faults = {"list", "get", "conn", "module"}
  Absent = Absent
CHECK_DEADLOCK FALSE
INVARIANTS PatternsMeanWords PartsTypeOK MetadataRoundTrip ReleasesAreSound
INVARIANTS SessionRoundTrip ResolvedAsAsked AccessFailsClosed
