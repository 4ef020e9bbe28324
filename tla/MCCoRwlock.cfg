SPECIFICATION FairSpec
CONSTANTS
  Coroutines = {1, 2, 3, 4}
  Nobody = 0
  Casts <- All
INVARIANTS
  WriterAlone
PROPERTIES
  ServedUnlessDowngraded
CHECK_DEADLOCK FALSE
