SPECIFICATION Spec

CONSTANTS
  Peers = {p1}
  Sessions = {s1, s2}
  NoPeer = NoPeer
  NoSession = NoSession

INVARIANT
  OnlyResources
