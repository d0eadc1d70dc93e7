CONSTANTS
  a = a
  b = b
  c = c
  Names = {a, b, c}
  NoName = NoName
  NameLen <- MCNameLen
  Rooms = {6}
  DENTRYS_PER_BLOCK = 2
  MAX_DENTRYS = 4
  Env = {"create"}
SPECIFICATION Spec
INVARIANT EachOnce
