SPECIFICATION BrokerSpec
CONSTANTS
  MaxClients = 1
  Names <- OneNames
  Procs <- MCProcs
  Root <- MCRoot
  TimeoutMin = 1
  TimeoutMax = 1
  UIntRange = 8
  Requests <- OneRequests
  Configs <- MCConfigs
  Announcements <- OneAnnouncements
  Urandom = TRUE
  AgeCap = 13
  wd_timeout_s = 4
  reboot_timeout_s = 5
  WatchdogEnabled = TRUE
  MaxStall = 0
  BacklogMax = 1
  Faults = {}
  MaxIDs = 1
INVARIANTS
  MissKeepsArmed
