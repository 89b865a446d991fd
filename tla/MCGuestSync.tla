---------------------------- MODULE MCGuestSync ----------------------------
EXTENDS GuestSync, TLC

Symmetry == Permutations(Threads) \cup Permutations(Hosts)
=============================================================================
