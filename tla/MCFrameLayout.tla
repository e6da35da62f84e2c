---------------------------- MODULE MCFrameLayout ----------------------------
(* An instance of FrameLayout for TLC. *)
EXTENDS FrameLayout

\* A frame that was cut short, a whole one, and one with a block too many.
CutWholeLonger == {-1, 0, 64}
=============================================================================
