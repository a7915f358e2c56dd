SPECIFICATION Spec
CONSTANTS
  Families = {v4, v6}
  Ips = {a, b}
  NULL = NULL
  WireCalls = {w1}
  ManualCalls = {}
  Scheduled = {s}
  Forced = {}
  Adopters = {}
  Hazards = {"lag", "delete", "resolver"}
SYMMETRY Symmetric
INVARIANTS DivergenceIsReal
