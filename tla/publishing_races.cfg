SPECIFICATION Spec
CONSTANTS
  Families = {v4}
  Ips = {a, b}
  NULL = NULL
  WireCalls = {w1}
  ManualCalls = {}
  Scheduled = {s}
  Forced = {}
  Adopters = {x}
  Hazards = {"lag", "foreign", "delete", "commit", "provider", "resolver", "overlap"}
SYMMETRY Symmetric
INVARIANTS TypeOK LastIpWasCarried
