---------------------------- MODULE KeywordGraph ----------------------------
(***************************************************************************)
(* The keyword graph of openbrain-gui: KeywordGraph.jsx loads /api/graph,  *)
(* whose handler calls two tools of openbrain-mcp one after the other,     *)
(* list_recent and cluster_captures, and joins their answers               *)
(* (graph.build_keyword_graph).  Captures come and go between the calls,   *)
(* and the page may start a load before the last one is answered.          *)
(*                                                                         *)
(* Which captures KMeans puts together is left open: any assignment to k   *)
(* clusters.  Summaries and the "central" mark are not modelled.           *)
(***************************************************************************)
EXTENDS Integers, FiniteSets, FiniteSetsExt

CONSTANTS
  Ids,          \* capture ids
  Keywords,     \* numbers, in alphabetical order
  MaxListed,    \* GRAPH_MAX_CAPTURES
  MinCaptures,  \* _MIN_CAPTURES_TO_CLUSTER (4 in the code)
  MaxAutoK,     \* _MAX_AUTO_K
  KChoices,      \* the numbers in the "Clusters" box
  None,         \* "Auto", nothing
  MaxLoads,     \* bound: loads of the page
  MaxChanges    \* bound: captures saved, edited or deleted meanwhile

IdsAssumption == IsFiniteSet(Ids)
KeywordsAssumption == Keywords \subseteq Nat
ClustersAssumption ==
  MaxListed \in Nat /\ MinCaptures \in Nat /\ MaxAutoK \in Nat /\ KChoices \subseteq Nat \ {0}

VARIABLES
  store,     \* the captures of openbrain-mcp: id -> its set of keywords
  changes,   \* bound: changes of the store so far
  clusterK,  \* the number of clusters the user chose
  load,      \* load[i]: the i-th load of the page and its handler
  loads,     \* loads started so far
  data,      \* the answer on display
  active,    \* the clusters whose keywords are visible
  error      \* is the error banner shown?

page == <<clusterK, data, active, error>>
vars == <<store, changes, clusterK, load, loads, data, active, error>>

-----------------------------------------------------------------------------
(* build_keyword_graph(captures, clusters): `captures` maps ids to         *)
(* keywords, `clusters` maps cluster ids to their members.                 *)

\* keyword_cluster_counts[kw][c]: members of c that were also listed
Tally(captures, clusters, kw) ==
  [c \in DOMAIN clusters |->
     Cardinality({i \in clusters[c] \cap DOMAIN captures : kw \in captures[i]})]

\* Highest count wins; ties broken by the lowest cluster_id.
Dominant(n) ==
  CHOOSE c \in DOMAIN n :
    \A d \in DOMAIN n : n[c] > n[d] \/ (n[c] = n[d] /\ c <= d)

\* mutated form: every listed capture counts, clustered or not
AllListed(captures, clusters, kw) == {i \in DOMAIN captures : kw \in captures[i]}

\* the captures behind a keyword: listed and clustered
Behind(captures, clusters, kw) ==
  {i \in DOMAIN captures :
     kw \in captures[i] /\ \E c \in DOMAIN clusters : i \in clusters[c]}

\* Highest count wins; ties broken alphabetically; "cluster <id>" if none.
Label(captures, clusters, c) ==
  LET n(kw) == Tally(captures, clusters, kw)[c]
      used  == {kw \in Keywords : n(kw) > 0}
  IN  IF used = {} THEN None
      ELSE CHOOSE kw \in used :
             \A w \in used : n(kw) > n(w) \/ (n(kw) = n(w) /\ kw <= w)

Graph(captures, clusters) ==
  LET Used == {kw \in Keywords : Behind(captures, clusters, kw) # {}}
      Node(kw) == [count    |-> MapThenSumSet(
                                   LAMBDA c : Tally(captures, clusters, kw)[c],
                                   DOMAIN clusters),
                   cluster  |-> Dominant(Tally(captures, clusters, kw)),
                   captures |-> Behind(captures, clusters, kw)]
  IN  [keywords |-> [kw \in Used |-> Node(kw)],
       clusters |-> [c \in DOMAIN clusters |->
                       [label    |-> Label(captures, clusters, c),
                        captures |-> clusters[c]]]]

-----------------------------------------------------------------------------
(* The answers of GET /graph.                                              *)

NoGraph  == [keywords |-> <<>>, clusters |-> <<>>]
Result(kind, k, count, graph) ==
  [kind |-> kind, k |-> k, count |-> count, graph |-> graph]
Nothing  == Result("none", None, 0, NoGraph)
Failed   == Result("error", None, 0, NoGraph)
NoLoad   == [at |-> "none", k |-> None, captures |-> <<>>, result |-> Nothing]

Stores == UNION {[s -> SUBSET Keywords] : s \in SUBSET Ids}

Init ==
  /\ store \in Stores
  /\ changes = 0
  /\ clusterK = None
  /\ load  = [i \in 1 .. MaxLoads |->
                IF i = 1 THEN [NoLoad EXCEPT !.at = "list"] ELSE NoLoad]
  /\ loads = 1
  /\ data = Nothing
  /\ active = {}
  /\ error = FALSE

Answer(i, result) ==
  load' = [load EXCEPT ![i].at = "answer", ![i].result = result]

\* What list_recent may return: all captures, or the cap's number of them.
Recent ==
  {[id \in ids |-> store[id]] :
     ids \in kSubset(Min({MaxListed, Cardinality(DOMAIN store)}), DOMAIN store)}

\* list_recent; then `k > len(captures)` is a 400
ListRecent(i) ==
  /\ load[i].at = "list"
  /\ \E captures \in Recent :
       IF load[i].k # None /\ load[i].k > Cardinality(DOMAIN captures)
       THEN Answer(i, Failed)
       ELSE load' = [load EXCEPT ![i].at = "cluster", ![i].captures = captures]
  /\ UNCHANGED <<store, changes, loads, page>>

TooFew(k) ==
  \/ Cardinality(DOMAIN store) < MinCaptures
  \/ k # None /\ k > Cardinality(DOMAIN store)

\* the values _auto_select_k may return, or the value that was asked for
ClusterCounts(k) ==
  IF k # None THEN {k}
  ELSE {2} \cup {n \in 2 .. MaxAutoK : n < Cardinality(DOMAIN store)}

\* cluster_captures, and the end of the handler
Cluster(i) ==
  /\ load[i].at = "cluster"
  /\ IF TooFew(load[i].k)
     THEN Answer(i, Result("few", load[i].k,
                           Cardinality(DOMAIN load[i].captures), NoGraph))
     ELSE \E k \in ClusterCounts(load[i].k) :
          \E label \in [DOMAIN store -> 0 .. k - 1] :
            LET clusters == [c \in 0 .. k - 1 |->
                               {id \in DOMAIN store : label[id] = c}]
            IN  Answer(i, Result("graph", load[i].k, 0,
                                 Graph(load[i].captures, clusters)))
  /\ UNCHANGED <<store, changes, loads, page>>

\* openbrain-mcp cannot be reached, or answers nonsense: a 502
McpFails(i) ==
  /\ load[i].at \in {"list", "cluster"}
  /\ Answer(i, Failed)
  /\ UNCHANGED <<store, changes, loads, page>>

\* Another client saves, edits or deletes a capture.
Change(id) ==
  /\ changes < MaxChanges
  /\ changes' = changes + 1
  /\ \/ \E kws \in SUBSET Keywords :
          store' = [j \in DOMAIN store \cup {id} |-> IF j = id THEN kws ELSE store[j]]
     \/ store' = [j \in DOMAIN store \ {id} |-> store[j]]
  /\ UNCHANGED <<load, loads, page>>

-----------------------------------------------------------------------------
(* The page.                                                               *)

Load(k) ==
  /\ loads < MaxLoads
  /\ loads' = loads + 1
  /\ load'  = [load EXCEPT ![loads + 1] = [NoLoad EXCEPT !.at = "list", !.k = k]]
  /\ error' = FALSE

Refresh ==
  /\ Load(clusterK)
  /\ UNCHANGED <<store, changes, clusterK, data, active>>

Choose(k) ==
  /\ k # clusterK
  /\ clusterK' = k
  /\ Load(k)
  /\ UNCHANGED <<store, changes, data, active>>

\* every cluster of a new graph is visible
Visible(result) == DOMAIN result.graph.clusters

\* .then(...) and .catch(...)
Answered(i) ==
  /\ load[i].at = "answer"
  /\ load' = [load EXCEPT ![i] = [NoLoad EXCEPT !.at = "done"]]
  /\ IF load[i].result = Failed
     THEN error' = TRUE /\ UNCHANGED <<data, active>>
     ELSE /\ data'   = load[i].result
          /\ active' = Visible(load[i].result)
          /\ UNCHANGED error
  /\ UNCHANGED <<store, changes, clusterK, loads>>

Toggle(c) ==
  /\ data.kind = "graph"
  /\ active' = IF c \in active THEN active \ {c} ELSE active \cup {c}
  /\ UNCHANGED <<store, changes, load, loads, clusterK, data, error>>

ToggleAll(on) ==
  /\ data.kind = "graph"
  /\ active' = IF on THEN DOMAIN data.graph.clusters ELSE {}
  /\ UNCHANGED <<store, changes, load, loads, clusterK, data, error>>

Handler(i) == ListRecent(i) \/ Cluster(i) \/ McpFails(i)

Next ==
  \/ \E id \in Ids : Change(id)
  \/ \E i \in 1 .. MaxLoads : Handler(i) \/ Answered(i)
  \/ Refresh
  \/ \E k \in KChoices \cup {None} : Choose(k)
  \/ \E c \in DOMAIN data.graph.clusters : Toggle(c)
  \/ \E on \in BOOLEAN : ToggleAll(on)

Spec == Init /\ [][Next]_vars

-----------------------------------------------------------------------------
(* Properties.                                                             *)

Nodes    == data.graph.keywords
Clusters == data.graph.clusters

\* The graph is one: every keyword counts exactly the captures its tooltip
\* lists, belongs to a cluster of the legend, and no cluster of the legend
\* holds more of its captures than that one, although captures changed between
\* the two calls.
GraphAddsUp ==
  \A kw \in DOMAIN Nodes :
    LET node == Nodes[kw]
        share(c) == Cardinality(node.captures \cap Clusters[c].captures)
    IN  /\ node.count = Cardinality(node.captures)
        /\ node.count > 0
        /\ node.cluster \in DOMAIN Clusters
        /\ \A c \in DOMAIN Clusters : share(c) <= share(node.cluster)
        /\ \A id \in node.captures :
             \E c \in DOMAIN Clusters : id \in Clusters[c].captures

=============================================================================
