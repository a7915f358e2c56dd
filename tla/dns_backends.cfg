SPECIFICATION FairSpec
CONSTANTS
  N = 2
  Kind <- Served
  Delegated = {2}
  Families = {"A"}
  Ips = {a, b}
  NULL = NULL
  Faults = {"provider", "resolver", "credentials"}
PROPERTIES EveryBackendCatchesUp
