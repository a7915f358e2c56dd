---------------------------- MODULE MCPublishing ----------------------------
EXTENDS Publishing, TLC
Symmetric == Permutations(Ips)
=============================================================================
