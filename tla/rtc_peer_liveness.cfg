SPECIFICATION FairSpec

CONSTANTS
  c1 = c1
  c2 = c2
  Candidates <- OneCandidate
  NoDesc = NoDesc
  has_candidates_in_sdp_ = TRUE
  MaxRestarts = 1

PROPERTIES
  TerminateCompletes
  NoForgottenPeer
  TimeoutCloses
  Answered
  KeepsLifecycle
