SPECIFICATION FairSpec

CONSTANTS
  Observers = {o1, o2, o3}
  MaxMessages = 3

INVARIANTS
  Gapless
  Pruned
  OnlyLateCalls

PROPERTIES
  IsBroadcast
  NextReturns
