SPECIFICATION LibSpec
CONSTANTS
  MaxClients = 2
  Names <- MCNames
  Procs <- MCProcs
  Root <- MCNoRoot
  TimeoutMin = 1
  TimeoutMax = 1
  UIntRange = 4
  Requests = {}
  Configs <- MCConfigs
  Announcements <- NoAnnouncements
  Urandom = TRUE
  AgeCap = 2
  Peers <- OneUser
  Users <- OneUser
  QueueMax = 2
  Versions <- OneVersion
  MaxRestarts = 0
  MaxIDs = 1
  Calls <- GoodCall
INVARIANTS
  FailureMeansUnwatched
