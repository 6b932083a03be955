--------------------------- MODULE MCFinalHoldout ---------------------------
EXTENDS FinalHoldout, TLC

Symmetry == Permutations(Procs) \cup Permutations(Versions) \cup Permutations(Cells)
=============================================================================
