SPECIFICATION FairSpec
CONSTANTS
  reader1 = reader1
  reader2 = reader2
  caller1 = caller1
  caller2 = caller2
  Readers = {reader1, reader2}
  Updaters = {c}
  CallThread = c
  Callers = {caller1, caller2}
  Locked = {caller2}
  NoThread = NoThread
  Dummy = Dummy
  NULL = NULL
  LongBytes = 8
  UIntRange = 64
  MaxDepth = 2
  MaxVersion = 3
  Tries = 1
  RCU_CALL_MIN_SIZE = 2
  Casts <- MCCasts
INVARIANTS
  NoUseAfterFree
  NoAbort
  AfterGrace
PROPERTIES
  CallbacksRun
CHECK_DEADLOCK FALSE
