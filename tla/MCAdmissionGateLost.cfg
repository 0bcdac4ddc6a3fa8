SPECIFICATION Spec
CONSTANTS
  p1 = p1
  p2 = p2
  s1 = s1
  s2 = s2
  good = good
  bad = bad
  None = None
  Proc <- MCProc
  Source <- MCSource
  SourceOf <- SharedSource
  Hash <- MCHash
  Correct <- MCCorrect
  MaxCalls = 1
  MaxCrashes = 0
INVARIANTS
  AdmittedComplete
