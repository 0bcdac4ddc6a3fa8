SPECIFICATION FsmSpec
CONSTANTS
  Machines <- MCDelayed
  ExhaustiveBudget = 20
  TopK = 4
  SwapIters = 2
  SwapRestarts = 2
  Rejected = 1000
INVARIANT BehaviourKept
CHECK_DEADLOCK FALSE
