--------------------------- MODULE MCSystemHelper ---------------------------
\* Two case processes are enough for one to be abandoned while the next runs; they are
\* interchangeable.
EXTENDS SystemHelper, TLC
CONSTANTS case1, case2
McProcs == {case1, case2}
Symmetry == Permutations(McProcs)
=============================================================================
