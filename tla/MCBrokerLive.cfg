SPECIFICATION FairBrokerSpec
CONSTANTS
  MaxClients = 2
  Names <- TwoNames
  Procs <- MCProcs
  Root <- MCRoot
  TimeoutMin = 1
  TimeoutMax = 1
  UIntRange = 8
  Requests <- TwoRequests
  Configs <- MCConfigs
  Announcements <- TwoAnnouncements
  Urandom = TRUE
  AgeCap = 13
  wd_timeout_s = 4
  reboot_timeout_s = 3
  WatchdogEnabled = TRUE
  MaxStall = 0
  BacklogMax = 1
  Faults <- Fault
  MaxIDs = 2
INVARIANTS
  DetectionBound
  ResetBound
PROPERTIES
  MissIsNoticed
  ResetFollows
  SignalEnds
  RebootFollows
