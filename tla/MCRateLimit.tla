----------------------------- MODULE MCRateLimit -----------------------------
EXTENDS RateLimit, TLC
Symmetric == Permutations(WireCalls) \cup Permutations(ManualCalls)
=============================================================================
