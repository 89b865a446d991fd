SPECIFICATION MemorySpec
CONSTANTS
  PAGE = 2
  GRAN = 4
  Top = 40
  STACK_TOP = 36
  STACK_SZ = 4
  Hosts = {"windows", "posix"}
  Occupied = {5}
  Images <- MCImages
  Sizes = {1, 2, 3, 6}
  MaxGrants = 4
  NONE = NONE
INVARIANTS MemorySound MapsApart
CHECK_DEADLOCK FALSE
