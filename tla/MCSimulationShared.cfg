SPECIFICATION SimulationSpec
CONSTANTS
  Ports = 2
  Depth = 1
  AddrW = 1
  Chunk = {"lo", "hi"}
  Val = {0, 1}
  Zero = 0
  X = X
  Inited = FALSE
  Armed = TRUE
  Width = 1
  Given <- MCGiven
  InitQ = 1
  Logic <- MCLogic
  Out <- MCOut
  Unset = Unset
  Programs <- MCSharedSum
  Settings <- MCSettings
  Stimuli <- MCStimuli
  p1 = p1
  p2 = p2
  s1 = s1
  s2 = s2
  good = good
  bad = bad
  None = None
  Proc <- MCProc
  Source <- MCSource
  SourceOf <- SharedSource
  Hash <- MCHash
  Correct <- MCCorrect
  MaxCalls = 1
  MaxCrashes = 1
  Undefined = Undefined
  ReadSignal = {"q", "y"}
  WatchedSignal = {"rst", "y"}
  Designs <- MCDesigns
  Valuations <- MCValuations
  MaxPasses = 8
  BalanceMin = 4
  OptionSets <- MCOptionSets
  MaxEmissions = 2
INVARIANT
  ReplacementKeepsValues
CHECK_DEADLOCK FALSE
