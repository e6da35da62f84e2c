SPECIFICATION FairSpec

CONSTANTS
  Peers = {p1, p2}
  MaxTime = 5
  NoPeer = NoPeer

INVARIANTS
  TimesIncrease
  DataKept

PROPERTIES
  IsBroadcast
  EncodeAdvances
  EncodeReturns
