SPECIFICATION Spec
CONSTANTS
  Families = {v4}
  Ips = {a, b}
  NULL = NULL
  WireCalls = {w1, w2}
  ManualCalls = {}
  Scheduled = {s}
  Forced = {t}
  Adopters = {}
  Hazards = {"overlap", "resolver"}
SYMMETRY Symmetric
INVARIANTS RowTracksZone
