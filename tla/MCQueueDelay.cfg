SPECIFICATION QueueSpec
CONSTANTS
  MaxClients = 1
  Names <- OneNames
  Procs <- MCProcs
  Root <- MCRoot
  TimeoutMin = 1
  TimeoutMax = 7
  UIntRange = 8
  Requests <- Pings
  Configs <- MCConfigs
  Announcements <- Announced
  Urandom = TRUE
  AgeCap = 25
  wd_timeout_s = 6
  reboot_timeout_s = 7
  WatchdogEnabled = FALSE
  MaxStall = 1
  BacklogMax = 2
  Faults <- SomeFaults
  MaxIDs = 0
INVARIANTS
  ServedInTime
  PunctualNotMissed
