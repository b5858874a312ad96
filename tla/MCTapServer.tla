----------------------------- MODULE MCTapServer -----------------------------
EXTENDS TapServerRelay, TLC
Symmetry == Permutations(Conns)
=============================================================================
