SPECIFICATION CtrlSpec
CONSTANTS
  MaxClients = 2
  Names <- MCNames
  Procs <- MCProcs
  Root <- MCRoot
  TimeoutMin = 1
  TimeoutMax = 1
  UIntRange = 4
  Requests = {}
  Configs <- MCConfigs
  Announcements <- MCAnnouncements
  Urandom = TRUE
  AgeCap = 2
  Peers <- MCProcs
  Users <- MCUsers
  Ctrls <- MCRoot
  QueueMax = 2
  Versions <- OneVersion
  MaxRestarts = 1
  MaxIDs = 2
  Calls <- MCCalls
  Commands <- MCCommands
INVARIANTS
  UnregisterReportTrue
  RebootReportTrue
PROPERTIES
  RemovedAsAsked
