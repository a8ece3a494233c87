\* One profile, one session, Hermes may checkpoint between the two file copies.
CONSTANTS
  Profiles = {root}
  Keys = {k1}
  MaxSpend = 2
  AllowResets = FALSE
  CheckpointDuringCopy = TRUE
SPECIFICATION Spec
INVARIANT NeverOverRecords
