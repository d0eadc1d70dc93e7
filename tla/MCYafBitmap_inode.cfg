CONSTANTS
  t1 = t1
  t2 = t2
  Thread = {t1, t2}
  NR_BLOCKS = 2
  BITS_PER_BLOCK = 4
  U32 <- MCU32
  Preset <- InodePreset
  RESERVED <- ReservedIno
  EIO_RET = 0
  ReleaseFirst = FALSE
  Env = {"eio", "reclaim"}
  MaxOwn = 2
SPECIFICATION FairSpec
CHECK_DEADLOCK FALSE
INVARIANTS
  TypeOK
  Exclusive
  OwnedIsMarked
  NoDoubleFree
  CleanIsOnDisk
PROPERTIES
  PoolSpec
  GetReturns
