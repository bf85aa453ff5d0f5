SPECIFICATION MCSpec
CONSTANTS
  MaxClients = 2
  Names <- MCNames
  Procs <- MCProcs
  Root <- MCRoot
  TimeoutMin = 1
  TimeoutMax = 1
  UIntRange = 4
  Requests <- MCRequests
  Configs <- MCConfigs
  Announcements <- MCAnnouncements
  Urandom = TRUE
  MaxIDs = 3
  AgeCap = 2
INVARIANTS
  TableTypeOK
  LiveIDsDistinct
  UniqueNamesHold
PROPERTIES
  StrictRosterKept
  LiveSlotsKeepIdentity
  PidCheckHolds
