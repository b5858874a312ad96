---------------------------- MODULE MCWinTapDriver ----------------------------
EXTENDS WinTapDriver, TLC

Symmetry == Permutations(Packets) \cup Permutations(Irps) \cup Permutations(Handles)
=============================================================================
