SPECIFICATION OracleSpec
CONSTANTS
  Admin = {a1, a2}
  Inserter = {i1}
  Trace = {t1, t2}
  NoTrace = NoTrace
  Sequential = FALSE
  InTurns = FALSE
  MaxBegun = 1
PROPERTIES
  FreezeIsFinal
CHECK_DEADLOCK FALSE
