CONSTANTS
  a = a
  b = b
  c = c
  Names = {a, b, c}
  NoName = NoName
  NameLen <- MCNameLen
  Rooms = {1, 4}
  DENTRYS_PER_BLOCK = 2
  MAX_DENTRYS = 4
  Env = {"create", "delete", "eio", "signal"}
SPECIFICATION FairSpec
INVARIANTS
  TypeOK
  NoneMissed
  NoneTwice
PROPERTIES
  NoGhost
  ReadEnds
