\* Two bots of which one, the other or both have calls without a price; the other
\* parts are held to next to nothing.
CONSTANTS
  None = None
  All = All
  Bots = {b1}
  Sessions = {s1}
  Models = {m1}
  Platforms = {p1}
  Limit = 1
  MaxCalls = 1
  MaxMessages = 1
  MaxRows = 1
  Prompts = {q1}
  Tools = {t1}
  Lengths = {1}
  ListLength = 1
  MaxEvents = 1
  Profiles = {1, 2}
  MaxChanges = 1
  MaxSpent = 1
  MaxTime = 1
SPECIFICATION Spec
INVARIANTS UnmarkedIsWholeForEveryBot
CHECK_DEADLOCK FALSE
