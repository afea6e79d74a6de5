--------------------------- MODULE MCCoordinator ---------------------------
\* Small instances of the Coordinator for TLC.
EXTENDS Coordinator, TLC

\* Handles are only compared and stored: any permutation of them is a symmetry.
JobSymmetry == Permutations(Jobs)

=============================================================================
