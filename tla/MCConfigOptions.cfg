SPECIFICATION ConfigSpec
CONSTANTS
  MaxClients = 2
  Names <- MCNames
  Procs <- NoProcs
  Root <- NoProcs
  TimeoutMin = 5000
  TimeoutMax = 300000
  UIntRange = 1000000
  Requests = {}
  Configs = {}
  Announcements = {}
  Urandom = TRUE
  AgeCap = 300001
  Pieces <- DocumentedPieces
  WithEquals <- MCWithEquals
  MaxPieces = 2
INVARIANTS
  DocumentedIsAccepted
