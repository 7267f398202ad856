SPECIFICATION Spec
CONSTANTS
  Proc = {p1, p2}
  Inode = {i1, i2}
  NoInode = NoInode
  StaleThreshold = 3
  HeartbeatInterval = 1
  Modes = {"ex", "sh"}
  Faults = {"crash", "starve", "truncate", "io"}
SYMMETRY Symmetry
INVARIANTS TypeOK NothingLeaks HeartbeatHasOpenFile
PROPERTY NoGhostLock
