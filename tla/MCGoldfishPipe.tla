--------------------------- MODULE MCGoldfishPipe ----------------------------
(* Model values and symmetry for checking GoldfishPipe with TLC.            *)
EXTENDS GoldfishPipe, TLC

ThreadSymmetry == Permutations(Thread)
ChanSymmetry == Permutations(Chan)
=============================================================================
