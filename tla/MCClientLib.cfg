SPECIFICATION FairLibSpec
CONSTANTS
  MaxClients = 2
  Names <- MCNames
  Procs <- MCProcs
  Root <- MCNoRoot
  TimeoutMin = 1
  TimeoutMax = 1
  UIntRange = 4
  Requests = {}
  Configs <- MCConfigs
  Announcements <- MCAnnouncements
  Urandom = TRUE
  AgeCap = 2
  Peers <- OneUser
  Users <- OneUser
  QueueMax = 3
  Versions <- MCVersions
  MaxRestarts = 1
  MaxIDs = 3
  Calls <- MCCalls
INVARIANTS
  LibTypeOK
  SuccessMeansWatched
  SuccessMeansGone
PROPERTIES
  EveryCallReturns
