SPECIFICATION Spec

CONSTANTS
  c1 = c1
  c2 = c2
  Candidates <- TwoCandidates
  NoDesc = NoDesc
  has_candidates_in_sdp_ = TRUE
  MaxRestarts = 1

SYMMETRY Symmetry

INVARIANTS
  NoNullConnection
  ClosedIsFinal
  NoUseAfterDestroy
  OrderlyTeardown
  NoCandidateLost
  SingleAnswer
  NoCircularWait

PROPERTIES
  WindsDown
