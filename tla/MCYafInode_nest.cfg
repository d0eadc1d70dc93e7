CONSTANTS
  a = a
  Names = {a}
  NR_INODES = 4
  INODE_BITS = 5
  DATA_BITS = 4
  DEV_DBLOCKS = 4
  DENTRYS_PER_BLOCK = 1
  YAF_IBLOCKS = 2
  U32 <- MCU32
  Env = {"file", "dir", "writeback", "umount"}
SPECIFICATION Spec
INVARIANTS
  NlinkCounts
  DcacheAgrees
  NoLeak
  FreedLeaves
PROPERTY TreeSpec
