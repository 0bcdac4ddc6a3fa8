SPECIFICATION MemSpec
CONSTANTS
  Ports = 1
  Depth = 1
  AddrW = 1
  Chunk = {"word"}
  Val = {0, 1}
  Zero = 0
  X = X
  Inited = TRUE
  Armed = FALSE
INVARIANT
  ResetKeepsOutput
