SPECIFICATION FairStartupSpec
CONSTANTS
  Instances <- MCInstances
  None = None
  Watchdog <- MCWatchdog
  Faults <- Fault
INVARIANTS
  DeviceHeld
  ServingIsReachable
PROPERTIES
  RunningNotDisrupted
  ArmedWhenReady
  StartSucceeds
