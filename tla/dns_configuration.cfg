SPECIFICATION Spec
CONSTANTS
  N = 2
  Kind <- Apis
  Delegated = {2}
  Families = {"A", "AAAA"}
  Ips = {a}
  NULL = NULL
  Faults = {"provider", "discovery", "page", "resolver", "foreign", "bindings", "zone"}
INVARIANTS TypeOK DeleteIsComplete
PROPERTIES WordNamesTheFirstFailure RecordedIsHeld NochgIsFinal
