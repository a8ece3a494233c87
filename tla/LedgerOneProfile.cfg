\* One profile, two sessions, resets and prunes, no checkpoint inside a copy.
CONSTANTS
  Profiles = {root}
  Keys = {k1, k2}
  MaxSpend = 2
  AllowResets = TRUE
  CheckpointDuringCopy = FALSE
SPECIFICATION Spec
INVARIANTS NeverOverRecords NothingMarkedIsLost
PROPERTY LedgerOnlyGrows
