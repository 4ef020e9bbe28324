SPECIFICATION FairSpec
CONSTANTS
  a = a
  b = b
  Main = Main
  CPUs <- Pair
  Workloads <- MCWorkloads
INVARIANTS
  SafeWorkAlone
  StackItemAlive
  RunnerKnowsOfWork
PROPERTIES
  SyncReturns
  PauseCompletes
