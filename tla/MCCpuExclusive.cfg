SPECIFICATION ExclFairSpec
CONSTANTS
  CPUs = {a, b, c}
INVARIANTS
  Exclusion
  SleepHasReason
PROPERTIES
  SectionBegins
