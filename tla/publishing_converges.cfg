SPECIFICATION FairSpec
CONSTANTS
  Families = {v4}
  Ips = {a, b}
  NULL = NULL
  WireCalls = {w1}
  ManualCalls = {}
  Scheduled = {s}
  Forced = {}
  Adopters = {}
  Hazards = {"lag", "foreign", "commit", "provider", "overlap"}
PROPERTIES Convergence
