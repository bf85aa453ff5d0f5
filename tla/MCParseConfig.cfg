SPECIFICATION ConfigSpec
CONSTANTS
  MaxClients = 3
  Names <- MCNames
  Procs <- NoProcs
  Root <- NoProcs
  TimeoutMin = 5000
  TimeoutMax = 300000
  UIntRange = 1000000
  Requests = {}
  Configs = {}
  Announcements = {}
  Urandom = TRUE
  AgeCap = 300001
  Pieces <- AllPieces
  WithEquals <- MCWithEquals
  MaxPieces = 5
INVARIANTS
  ParserAgrees
  AcceptedIsInitial
