---------------------------- MODULE MCFrameBuffer ----------------------------
(* Symmetry of threads and objects, for checking FrameBuffer with TLC.      *)
EXTENDS FrameBuffer, TLC

Symmetry ==
  Permutations(Thread) \cup Permutations(GL2) \cup Permutations(Ctx \ GL2)
    \cup Permutations(Win) \cup Permutations(Empty) \cup Permutations(Large)
    \cup Permutations(Buf \ (Empty \cup Large))
=============================================================================
