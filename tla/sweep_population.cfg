SPECIFICATION FairSpec
CONSTANTS
  Hostnames = {a, b}
  Mine = {a}
  BatchSize = 1
  Scheduled = {s}
  Forced = {t, u}
INVARIANT TypeOK
PROPERTIES SummaryReconciles DebouncedUnlessTogether NobodyStarves
