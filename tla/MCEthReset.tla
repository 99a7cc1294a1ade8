----------------------------- MODULE MCEthReset -----------------------------
EXTENDS EthReset, TLC

\* Chips are alike; devices are not, as some are behind a mux.
Symmetry == Permutations(Chips)

=============================================================================
