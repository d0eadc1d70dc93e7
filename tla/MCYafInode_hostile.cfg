CONSTANTS
  a = a
  Names = {a}
  NR_INODES = 3
  INODE_BITS = 3
  DATA_BITS = 2
  DEV_DBLOCKS = 1
  DENTRYS_PER_BLOCK = 1
  YAF_IBLOCKS = 1
  U32 = 6
  Env = {"file", "writeback", "pressure", "open", "truncate", "writefail", "umount", "eio", "eio_iget", "eio_dbmap"}
SPECIFICATION Spec
CHECK_DEADLOCK FALSE
INVARIANTS
  TypeOK
  CleanMatchesDisk
