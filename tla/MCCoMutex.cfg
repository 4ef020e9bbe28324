SPECIFICATION FairSpec
CONSTANTS
  Coroutines = {a, b, c}
  Nobody = Nobody
  SpinMax = 2
  Wrap = 3
INVARIANTS
  MutualExclusion
  PopFinds
PROPERTIES
  IsFifoLock
  LockReturns
