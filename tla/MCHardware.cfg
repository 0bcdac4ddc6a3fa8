SPECIFICATION HardwareSpec
CONSTANTS
  Depth = 4
  AddrW = 2
  Item <- MCItem
  NoItem = 0
  MT = 2
  NT = 2
  KT = 2
  Tile <- MCTile
  HostAddr <- MCHost
  Topologies <- MCTopologies
  RandomWidth = 4
  FreeOrder = 7
  Shapes <- MCShapes
  Circuits <- MCCircuits
  Cores <- MCCores
  Reductions <- MCReductions
  FloatUnits <- MCFloatUnits
  Machines <- MCMachines
  ExhaustiveBudget = 20
  TopK = 4
  SwapIters = 2
  SwapRestarts = 2
  Rejected = 1000
INVARIANTS
  BehaviourKept
  SharesExactlyEquivalent
  CheapestCommitted
  NetworkAdds
  DepthMinimal
  ResultExact
  EncodedExact
  CoreExact
  ReductionsAgree
  FloatExact
  PointersAgree
  ProductRight
  OnSchedule
PROPERTIES
  ImplementsQueue
  Terminates
CHECK_DEADLOCK FALSE
