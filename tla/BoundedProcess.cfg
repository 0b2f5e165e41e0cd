SPECIFICATION FairSpec
CONSTANTS
  leader = leader a = a b = b
  Leader = leader Children = {a, b} MaxOutput = 2 Capacity = 2 NoCode = NoCode
INVARIANTS TypeOK SignalsOwnGroup CommandStopped
PROPERTIES ImplementsNativeCommand CallReturns
CHECK_DEADLOCK FALSE
