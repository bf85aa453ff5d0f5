SPECIFICATION ClockSpec
CONSTANTS
  MsPerSec = 4
  NsPerMs = 3
  UIntRange = 32
  Timeout = 6
  MaxTime = 130
  Steps <- MCSteps
INVARIANTS
  OverdueIsExact
PROPERTIES
  AgeNeverGoesBack
