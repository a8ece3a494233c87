\* Two ranges, two bots, three loads that may overlap.
CONSTANTS
  Ranges = {r7, r30}
  Bots = {b1, b2}
  All = All
  MaxLoads = 3
  None = None
SPECIFICATION Spec
INVARIANTS PanelsFollowSelection
