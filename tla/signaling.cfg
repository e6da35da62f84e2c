SPECIFICATION FairSpec

CONSTANTS
  Peers = {p1, p2}
  Sessions = {s1, s2}
  NoPeer = NoPeer
  NoSession = NoSession

INVARIANTS
  OneResponse
  DeletedIsFinal
  IteratorKept
  WaitingHasPeer

PROPERTIES
  PeersKeepLifecycle
  PostSettles
