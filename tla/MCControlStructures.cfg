SPECIFICATION Spec
CONSTANTS
  opcode = opcode
  flag = flag
  None = None
  Point <- MCPoint
  Selector <- MCSelector
  Read <- MCRead
  Width <- MCWidth
  OneHotMin = 3
  TournamentMin = 2
  MaxSelBits = 6
  Guards <- MCGuards
  Labels <- MCLabels
  NonConsts <- MCNonConsts
  Switched <- MCSwitched
  RegionModes <- MCRegionModes
  MaxArms = 3
  MaxAssigns = 2
  MaxFrames = 2
  MaxMade = 6
  MaxDepth = 3
PROPERTIES
  RunsTheProgram
  FirstMatchOnly
CHECK_DEADLOCK FALSE
