CONSTANTS
  YAF_IBLOCKS = 2
  CELLS = 2
  MaxOps = 3
  Absent = Absent
  NotUptodate = NotUptodate
  Env = {"seek", "extend", "full", "nospace", "short", "eio"}
SPECIFICATION FairSpec
CHECK_DEADLOCK FALSE
INVARIANTS
  TypeOK
  BlocksMatchSize
  DirtyIsMapped
  InodeSaved
PROPERTIES
  BytesSpec
  ReachesDisk
