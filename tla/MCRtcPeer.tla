----------------------------- MODULE MCRtcPeer -----------------------------
(* Instances of RtcPeer for TLC. *)
EXTENDS RtcPeer, TLC

CONSTANTS c1, c2

OneCandidate == {c1}
TwoCandidates == {c1, c2}

\* Candidates are only compared for equality.
Symmetry == Permutations(TwoCandidates)
=============================================================================
