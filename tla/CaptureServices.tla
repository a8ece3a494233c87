---------------------------- MODULE CaptureServices ----------------------------
(***************************************************************************)
(* What the two servers do for captures besides storing them, in one run   *)
(* of TLC: openbrain-mcp's access shim, its answers and its fingerprints;  *)
(* openbrain-gui's deletions and its keyword graph, which is made of two   *)
(* such answers.  The five share no state; each is driven through its own  *)
(* inputs while the others stand still.                                    *)
(***************************************************************************)
EXTENDS Naturals, FiniteSets, OAuthState, CaptureAudit

CONSTANTS
  Ranks, Sources, Words, MaxLen, MaxKeywords, EfSearch,  \* answers
  Pages, Params, Tracking, MaxParams,                    \* links
  Listed, Keywords, MaxListed,                           \* keyword graph
  MinCaptures, MaxAutoK, KChoices, MaxLoads, MaxChanges

VARIABLES
  part,                                                       \* what is looked at
  rows,                                                       \* of CaptureQuery
  first, link,                                                \* of ContentFingerprint
  store, changes, clusterK, load, loads, data, active, error  \* of KeywordGraph

access == <<clients, codes, now, issued, granted, last>>
links  == <<first, link>>
graph  == <<store, changes, clusterK, load, loads, data, active, error>>
audit  == <<captures, open, result, seen, stage, target, deleteLog, wire, deleted>>

Access == INSTANCE OAuthShim
Query  == INSTANCE CaptureQuery WITH captures <- rows, Ids <- Ranks
Link   == INSTANCE ContentFingerprint
Graph  == INSTANCE KeywordGraph WITH Ids <- Listed

ASSUME AccessAssumptions == Access!AllowedAssumption /\ Access!NumbersAssumption
ASSUME QueryAssumptions == Query!NumbersAssumption
ASSUME LinkAssumptions == Link!ParamsAssumption
ASSUME GraphAssumptions ==
  Graph!IdsAssumption /\ Graph!KeywordsAssumption /\ Graph!ClustersAssumption

\* Each part is driven from all its first states, with one of the others'.
ServicesInit ==
  /\ part \in {"access", "query", "fingerprint", "graph", "audit"}
  /\ Access!Init /\ Query!Init /\ Link!Init /\ Graph!Init /\ Init
  /\ part # "fingerprint" => first = CHOOSE u \in Link!Link : u.https /\ ~u.www
  /\ part # "graph" => store = <<>>

ServicesNext ==
  \/ part = "access" /\ Access!Next /\ UNCHANGED <<part, rows, links, graph, audit>>
  \/ part = "query" /\ Query!Next /\ UNCHANGED <<part, access, links, graph, audit>>
  \/ part = "fingerprint" /\ Link!Next /\ UNCHANGED <<part, access, rows, graph, audit>>
  \/ part = "graph" /\ Graph!Next /\ UNCHANGED <<part, access, rows, links, audit>>
  \/ part = "audit" /\ Next /\ UNCHANGED <<part, access, rows, links, graph>>

ServicesSpec ==
  ServicesInit /\ [][ServicesNext]_<<part, access, rows, links, graph, audit>>

-----------------------------------------------------------------------------
\* Of the access shim, CodesAreSingleUse and GrantsAreBound, and of the
\* deletions, NoSilentDeletion, OrphanNeedsFailure and DeletedOnce, are the
\* properties of OAuthState and CaptureAudit themselves.

\* A search never misses a match for want of rows.
NeverUnderReturns == part = "query" => Query!NeverUnderReturns

\* A list is exactly what was asked for.
ListsAreExact == part = "query" => Query!ListsAreExact

\* One fingerprint means one content; respelling a link keeps its fingerprint,
\* as long as no slash ends the path before a query.
FingerprintIsTheLink == part = "fingerprint" => Link!FingerprintIsTheLink

\* The keyword graph adds up although captures change between the two calls.
GraphAddsUp == part = "graph" => Graph!GraphAddsUp

=============================================================================
