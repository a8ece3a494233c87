\* Panels: two bots with two sessions and two models or platforms each, three
\* usage rows in all; lists cut at one session and at two tools of three.
\* Header tiles: two bots, and one change between any two reads of the request.
\* Chart: two bots, three calls, windows of one and two days, two and a half days.
CONSTANTS
  None = None
  All = All
  Bots = {b1, b2}
  Sessions = {s1, s2}
  Models = {m1, m2}
  Platforms = {p1}
  Limit = 1
  MaxCalls = 1
  MaxMessages = 5
  MaxRows = 3
  Prompts = {q1, q2}
  Tools = {t1, t2, t3}
  Lengths = {1, 4}
  ListLength = 2
  MaxEvents = 4
  Profiles = {1, 2}
  MaxChanges = 1
  MaxSpent = 3
  MaxTime = 5
SPECIFICATION Spec
SYMMETRY Symmetry
INVARIANTS
  AllIsThePool TopSessionsAreTheTop
  PanelsAreThePool
  TotalIsFleetWide UnmarkedIsWhole ComparisonIsOfTheMonth
  ChartIsTheSpend
\* A request ends, and the calls, rows and the clock are bounded.
CHECK_DEADLOCK FALSE
