---------------------------- MODULE MCBlockFront ----------------------------
EXTENDS BlockFront, TLC

\* Callers are alike.
Symmetry == Permutations(Callers)
=============================================================================
