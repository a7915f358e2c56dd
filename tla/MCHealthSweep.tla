---------------------------- MODULE MCHealthSweep ----------------------------
EXTENDS HealthSweep
=============================================================================
