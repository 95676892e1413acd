CONSTANTS
  MaxRequests = 3
  Client = {k1}
  Calls <- MCCalls
  Successes = {201}
  Errors <- MCErrors
  Max <- MCMax
  MaxWindows = 2
  MaxSignals = 0
SPECIFICATION Spec
INVARIANT AttemptsCapped
CHECK_DEADLOCK FALSE
