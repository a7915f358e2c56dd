----------------------------- MODULE MCEventLog -----------------------------
EXTENDS Board, TLC
Symmetric == Permutations(Calls) \cup Permutations(Addresses)
============================================================================
