\* Result grid: one capture with one edit, three overlapping requests.
\* Cost page: two ranges, two bots, three loads, overlapping and answered in any order.
\* External costs: one window, two rows, valid and invalid entries.
CONSTANTS
  None = None
  Hits = {i1}
  MaxToken = 3
  MaxVersion = 1
  Ranges = {r7, r30}
  Bots = {b1, b2}
  All = All
  MaxLoads = 3
  Windows = {w1}
  Currencies = {"USD"}
  Amounts = {2}
  Mistakes = TRUE
  Rates = {2}
  MaxId = 2
  MaxRows = 2
  MaxAmount = 2
SPECIFICATION Spec
INVARIANTS
  SpinnerIsHonest ResultsFollowTheUser
  PanelsFollowLatestLoad ReportMatchesName SessionIsOfItsBot
PROPERTIES LatestWins BatchIsWhole
\* The user may stop at any time, and does so when a bound is reached.
CHECK_DEADLOCK FALSE
