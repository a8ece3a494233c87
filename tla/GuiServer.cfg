\* Two profiles with one session each, and two crashes: one may cut the rebuild
\* off and one the start that repairs it.
CONSTANTS
  Profiles = {default, work}
  Default = default
  Keys = {k1}
  NoTx = NoTx
  MaxMark = 2
  MaxCrashes = 2
SPECIFICATION ServerSpec
INVARIANTS UpMeansFinalSchema NeverOverRecords
PROPERTIES MarksAreKept ComesUp SpendIsRecorded
