SPECIFICATION FsmSpec
CONSTANTS
  Machines <- MCEncoded
  ExhaustiveBudget = 20
  TopK = 4
  SwapIters = 2
  SwapRestarts = 2
  Rejected = 1000
INVARIANT FlagKept
CHECK_DEADLOCK FALSE
