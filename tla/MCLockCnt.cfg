SPECIFICATION FairSpec
CONSTANTS
  first = first
  second = second
  third = third
  Threads <- MCThreads
  NoThread = NoThread
  Calls <- MCCalls
INVARIANTS
  NoVisitWhileFreed
  SleepersKnown
PROPERTIES
  IsLockedCounter
  CallsReturn
CHECK_DEADLOCK FALSE
