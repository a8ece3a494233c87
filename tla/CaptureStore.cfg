\* Two concurrent savers, three ids, one or two fingerprints.
CONSTANTS
  Callers = {w1, w2}
  Ids = {i1, i2, i3}
  Fingerprints = {f1}
  Summaries = {s1, s2}
  MetaKeys = {m}
  NoCall = NoCall
SPECIFICATION FairSpec
INVARIANTS UniqueFingerprint EmbeddingIsCurrent
PROPERTIES SaveReturns ImplementsCaptureSet
