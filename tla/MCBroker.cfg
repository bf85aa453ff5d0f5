SPECIFICATION BrokerSpec
CONSTANTS
  MaxClients = 1
  Names <- OneNames
  Procs <- MCProcs
  Root <- MCRoot
  TimeoutMin = 1
  TimeoutMax = 3
  UIntRange = 8
  Requests <- OneRequests
  Configs <- MCConfigs
  Announcements <- OneAnnouncements
  Urandom = TRUE
  AgeCap = 21
  wd_timeout_s = 6
  reboot_timeout_s = 7
  WatchdogEnabled = TRUE
  MaxStall = 1
  BacklogMax = 2
  Faults <- Fault
  MaxIDs = 1
INVARIANTS
  BrokerTypeOK
  DetectionBound
  NoSpuriousReset
  ResetBound
  RebootStaysArmed
PROPERTIES
  FedOnlyIfHealthy
  BrokerImplementsSupervisor
