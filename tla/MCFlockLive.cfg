SPECIFICATION FairSpec
CONSTANTS
  Proc = {p1, p2}
  Inode = {i1, i2}
  NoInode = NoInode
  StaleThreshold = 3
  HeartbeatInterval = 1
  Modes = {"ex"}
  Faults = {"crash"}
PROPERTIES LockProgress NoLiveHolderCondemned
