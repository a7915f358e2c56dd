---------------------------- MODULE MCDeviceAuth ----------------------------
EXTENDS DeviceAuth, TLC
Symmetric == Permutations(Calls) \cup Permutations(Rotations)
=============================================================================
