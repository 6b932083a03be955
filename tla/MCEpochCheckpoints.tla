------------------------- MODULE MCEpochCheckpoints -------------------------
(* Small instances of EpochCheckpoints.                                    *)
EXTENDS EpochCheckpoints, TLC

MCLosses == 1 .. 2
Symmetry == Permutations(Runners)

=============================================================================
