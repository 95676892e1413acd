CONSTANTS
  MaxRequests = 3
  Client = {k1, k2}
  Calls <- MCCalls
  Successes = {201}
  Errors <- MCErrors
  Max <- MCMax
  MaxWindows = 2
  MaxSignals = 2
SPECIFICATION Spec
INVARIANTS IInv CapsHold CleanExit
PROPERTIES RefusedOnlyWhenFull StopsAfterSignal
CHECK_DEADLOCK FALSE
