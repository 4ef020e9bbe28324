SPECIFICATION FairSpec
CONSTANTS
  Coroutines = {1, 2, 3, 4}
  Nobody = 0
  Casts <- Few
PROPERTIES
  WaitersServed
CHECK_DEADLOCK FALSE
