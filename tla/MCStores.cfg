SPECIFICATION StoresSpec
CONSTANTS
  Admin = {a1, a2}
  Inserter = {i1}
  Trace = {t1, t2}
  NoTrace = NoTrace
  Sequential = FALSE
  InTurns = TRUE
  MaxBegun = 2
  p1 = p1
  p2 = p2
  n1 = n1
  n2 = n2
  n3 = n3
  k1 = k1
  k2 = k2
  Nil = Nil
  Registrar <- MCProc
  Name <- MCName
  Key <- MCKey
  Jobs <- Consistent
  Serial = FALSE
  MaxRegistrations = 2
  Worker = {1, 2}
  Function = {f1, f2}
  Controls <- MCControls
  Cleaner = {1}
  NoResult = NoResult
  MaxRuns = 2
  Object = {e1, e2}
  NoWire = 0
  MaxDepth = 2
  MaxWires = 3
  MaxCalls2 = 3
  Proc <- MCProc
  Source <- MCSource
  SourceOf <- MCSourceOf
  Hash <- MCHash
  Correct <- MCCorrect
  None = None
  MaxCalls = 2
  MaxCrashes = 1
INVARIANTS
  OneTrace
  FrozenHasArtifacts
  BindingComplete
  NoLostBinding
  AnswersRight
  CacheNeverFails
  WireOfItsExpression
  CaptureFindsAll
  AdmittedComplete
  NeverRaises
PROPERTIES
  FreezeIsFinal
  ImplementsLibrary
CHECK_DEADLOCK FALSE
