CONSTANTS
  INODES_PER_BLOCK = 4
  BLOCK_BITS = 8
  U32 = 64
  Sizes = {3, 4, 9, 20, 70}
  MkfsEnv = {"eio", "kill"}
  Inodes = {1, 2}
  Env = {"eio", "nomem", "dentry", "inode"}
SPECIFICATION FairSpec
CHECK_DEADLOCK FALSE
INVARIANTS
  TypeOK
  SaidIsFormatted
  MountBalanced
  CacheOutlives
  OnlyErrorsLeak
PROPERTIES
  FormattedMounts
  CallsReturn
