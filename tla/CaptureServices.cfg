\* Access: three ids against a cap of two; codes that outlive one tick, not two.
\* Answers: two captures with up to two of two words in either case.
\* Links: two pages, three parameters of which one tracks, at most two in a link.
\* Graph: three captures of which two are listed, one keyword, two loads, one change of the store.
\* Deletions: two captures, two delete requests, one other MCP client.
CONSTANTS
  None = None
  ClientIds = {i1, i2, i3}
  Codes = {c1, c2}
  Verifiers = {v1, v2}
  Uris = {claude, other}
  AllowedUris = {claude}
  MaxClients = 2
  TTL = 1
  MaxTime = 2
  Ranks = {1, 2}
  Sources = {web, note}
  Words = {1, 2}
  MaxLen = 2
  MaxKeywords = 3
  EfSearch = 1
  Pages = {a, b}
  Params = {1, 2, 3}
  Tracking = {3}
  MaxParams = 2
  Listed = {n1, n2, n3}
  Keywords = {1}
  MaxListed = 2
  MinCaptures = 2
  MaxAutoK = 2
  KChoices = {1}
  MaxLoads = 2
  MaxChanges = 1
  Callers = {hermes}
  Ids = {u1, u2}
  Fingerprints = {f1, f2}
  Summaries = {s1}
  MetaKeys = {}
  NoCall = NoCall
  Requests = {r1, r2}
SPECIFICATION ServicesSpec
INVARIANTS
  CodesAreSingleUse GrantsAreBound
  NeverUnderReturns ListsAreExact
  FingerprintIsTheLink
  GraphAddsUp
  NoSilentDeletion OrphanNeedsFailure DeletedOnce
\* The loads and changes of the graph are bounded.
CHECK_DEADLOCK FALSE
