CONSTANTS
  a = a
  b = b
  Names = {a, b}
  NR_INODES = 3
  INODE_BITS = 4
  DATA_BITS = 4
  DEV_DBLOCKS = 4
  DENTRYS_PER_BLOCK = 1
  YAF_IBLOCKS = 2
  U32 <- MCU32
  Env = {"file", "dir", "writeback", "pressure", "umount"}
SPECIFICATION Spec
CHECK_DEADLOCK FALSE
PROPERTY TreeSpec
