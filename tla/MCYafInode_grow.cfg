CONSTANTS
  a = a
  b = b
  Names = {a, b}
  NR_INODES = 4
  INODE_BITS = 5
  DATA_BITS = 7
  DEV_DBLOCKS = 7
  DENTRYS_PER_BLOCK = 2
  YAF_IBLOCKS = 3
  U32 <- MCU32
  Env = {"file"}
SPECIFICATION Spec
INVARIANTS
  BlocksExclusive
  NoLeak
  NoPanic
  DcacheAgrees
PROPERTY TreeSpec
