SPECIFICATION Spec
CONSTANTS
  WireCalls = {w1, w2}
  ManualCalls = {m1, m2}
  MaxLimit = 2
  Window = 2
  Retention = 2
  MaxClock = 4
SYMMETRY Symmetric
INVARIANTS TypeOK OverrunBounded
CHECK_DEADLOCK FALSE
