--------------------------- MODULE MCSuspendHelper ---------------------------
\* SuspendHelper with the helper of the monitor and one of an operator.
EXTENDS SuspendHelper, TLC

CONSTANTS monitor, operator

\* The two helpers run the same program.
Symmetry == Permutations(Helpers)
=============================================================================
