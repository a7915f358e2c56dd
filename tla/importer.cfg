SPECIFICATION Spec
CONSTANTS
  Runs = {r1, r2}
  Sources <- Both
  Normal <- Spelling
  Service <- Registry
  NULL = NULL
  Extra = extra
  MaxEdits = 1
  MaxTaken = 1
SYMMETRY Symmetric
INVARIANTS TypeOK AlarmHasACause
PROPERTIES NeverMerges MovesAtOnce
CHECK_DEADLOCK FALSE
