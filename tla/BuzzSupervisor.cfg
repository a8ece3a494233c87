\* Two names, two supervisors, four pids, one fault of any kind.
CONSTANTS
  Names = {n1, n2}
  Pids = {p1, p2, p3, p4}
  Supervisors = {s1, s2}
  None = None
  MaxLines = 1
  MaxFaults = 1
  PromptExec = TRUE
SPECIFICATION FairSpec
INVARIANTS OneSweep PidFileFindsAgent
PROPERTIES AgentsComeBack
