------------------------------ MODULE CostMerge ------------------------------
(***************************************************************************)
(* The figures of the cost page: hermes_usage.py computes every panel from *)
(* one bot's state.db, cost_merge.py combines the panels of all bots into  *)
(* the "all" view.  A bot whose state.db cannot be read is left out and    *)
(* reported.                                                               *)
(*                                                                         *)
(* A usage row is one (session, model) of one bot.  Calls stand for the    *)
(* counters that are only added up; money is counted in whole units; a     *)
(* ratio is a pair <<numerator, denominator>>.                             *)
(***************************************************************************)
EXTENDS Pooling, Functions

CONSTANTS
  Bots, Sessions, Models,
  Platforms,
               \* None stands for no usage row, and a pruned session's platform
  Limit,       \* rows of the session table (50 in the code)
  MaxCalls,    \* bound: calls of one usage row
  MaxMessages, \* bound: messages of all sessions
  MaxRows      \* bound: usage rows of all bots

FleetAssumption ==
  /\ Limit \in Nat \ {0}
  /\ IsFiniteSet(Bots) /\ IsFiniteSet(Sessions) /\ IsFiniteSet(Models)
  /\ None \notin Nat \X Nat

VARIABLES
  usage,    \* session_model_usage: usage[b][s][m], a row or None
  session,  \* sessions: session[b][s], its platform and its messages
  readable  \* the bots whose state.db a snapshot can be taken of

vars == <<usage, session, readable>>

\* An idle row has no calls.
Row == [calls : 0 .. MaxCalls, cost : 0 .. MaxCalls, recent : BOOLEAN]

Init ==
  /\ usage = [b \in Bots |-> [s \in Sessions |-> [m \in Models |-> None]]]
  /\ session \in [Bots -> [Sessions ->
                   [platform : Platforms, messages : {1}]]]
  /\ readable = Bots

-----------------------------------------------------------------------------
(* hermes_usage: what the panels of one state.db show.  A set of rows is a *)
(* set of keys <<bot, session, model>>; u is the usage table.              *)

\* WHERE u.last_seen >= ? AND u.last_seen <= ?, of one bot
InWindow(b) ==
  {k \in {b} \X Sessions \X Models :
     usage[b][k[2]][k[3]] # None /\ usage[b][k[2]][k[3]].recent}

Cell(k) == usage[k[1]][k[2]][k[3]]

\* _SUM_COLUMNS
Calls(rows) == AddedUp([k \in rows |-> Cell(k).calls])
Cost(rows)  == AddedUp([k \in rows |-> Cell(k).cost])
Talks(rows) == {<<k[1], k[2]>> : k \in rows}

Sums(rows) ==
  [sessions |-> Cardinality(Talks(rows)), calls |-> Calls(rows), cost |-> Cost(rows)]

\* summary with _unpriced: calls that Hermes could not put a price on
Summary(rows) ==
  LET free == {k \in rows : Cell(k).cost = 0 /\ Cell(k).calls > 0}
  IN  [sums |-> Sums(rows), unpriced |-> Calls(free), models |-> {k[3] : k \in free}]

\* COALESCE(s.source, ''): pruned sessions form a group of their own
PlatformOf(t) == session[t[1]][t[2]].platform
Of(rows, p)   == {k \in rows : PlatformOf(<<k[1], k[2]>>) = p}

\* by_model and by_platform
ByModel(rows) ==
  [m \in {k[3] : k \in rows} |-> Sums({k \in rows : k[3] = m})]

ByPlatform(rows) ==
  [p \in {PlatformOf(t) : t \in Talks(rows)} |-> Sums(Of(rows, p))]

\* avg_messages_per_session: over the distinct sessions, none when pruned
AvgMessages(rows, p) ==
  IF p = None THEN None
  ELSE <<AddedUp([t \in Talks(rows) |-> session[t[1]][t[2]].messages]),
         Cardinality(Talks(rows))>>

\* efficiency: per platform, HAVING api_calls > 0
Efficiency(rows) ==
  [p \in {q \in Platforms \cup {None} : Calls(Of(rows, q)) > 0} |->
     [sums |-> Sums(Of(rows, p)), avg |-> AvgMessages(Of(rows, p), p)]]

\* by_session, without its LIMIT
BySession(rows) ==
  [t \in Talks(rows) |-> Cost({k \in rows : <<k[1], k[2]>> = t})]

-----------------------------------------------------------------------------
(* cost_merge: the same panels, from the panels of every bot.              *)

\* skipped_profiles
Skipped == Bots \ readable

\* _sum_counters; of is a function from bots to their figures
AddUp(of) ==
  [sessions |-> AddedUp([b \in DOMAIN of |-> of[b].sessions]),
   calls    |-> AddedUp([b \in DOMAIN of |-> of[b].calls]),
   cost     |-> AddedUp([b \in DOMAIN of |-> of[b].cost])]

\* _merge_summaries
MergedSummary ==
  LET of == [b \in readable |-> Summary(InWindow(b))]
  IN  [sums     |-> AddUp([b \in readable |-> of[b].sums]),
       unpriced |-> AddedUp([b \in readable |-> of[b].unpriced]),
       models   |-> UNION {of[b].models : b \in readable}]

\* mutated form: the row of one bot replaces that of another
OneOfGroup(of) ==
  LET with(g) == {b \in readable : g \in DOMAIN of[b]}
  IN  [g \in UNION {DOMAIN of[b] : b \in readable} |-> of[CHOOSE b \in with(g) : TRUE][g]]

\* _merge_grouped: the union of the groups, each added up over its bots
MergeGrouped(of) ==
  LET with(g) == {b \in readable : g \in DOMAIN of[b]}
  IN  [g \in UNION {DOMAIN of[b] : b \in readable} |->
         AddUp([b \in with(g) |-> of[b][g]])]

\* per_bot_breakdown: a bot that cannot be read has a row of zeros
PerBot ==
  [b \in Bots |-> IF b \in readable THEN Sums(InWindow(b))
                  ELSE [sessions |-> 0, calls |-> 0, cost |-> 0]]

\* _merge_efficiency
MergedEfficiency ==
  LET of == [b \in readable |-> Efficiency(InWindow(b))]
      with(p) == {b \in readable : p \in DOMAIN of[b]}
      pairs(p) == {[bot |-> b, value |-> of[b][p].avg,
                    weight |-> of[b][p].sums.sessions] : b \in with(p)}
  IN  [p \in UNION {DOMAIN of[b] : b \in readable} |->
         [sums |-> AddUp([b \in with(p) |-> of[b][p].sums]),
          avg  |-> WeightedMean(pairs(p))]]

\* the rows one state.db would have to hold for what "all" shows
Pool == UNION {InWindow(b) : b \in readable}

\* mutated form: the rows of the table are shared out between the bots
ShareOfLimit == Limit \div Cardinality(Bots)

\* dashboard_all passes its own limit on to every bot
BotLimit == Limit

\* dashboard_all's by_session: the bots' tables together, sorted, cut again
MergedSessions ==
  LET rows   == BySession(Pool)
      of     == [b \in readable |-> TopLists(Restrict(rows, Talks(InWindow(b))), BotLimit)]
      tables == {t \in [readable -> UNION Range(of)] : \A b \in readable : t[b] \in of[b]}
  IN  UNION {TopLists(Restrict(rows, UNION Range(t)), Limit) : t \in tables}

-----------------------------------------------------------------------------
(* Hermes, outside this repository: what the bots do to their databases.   *)

RowsKept == {k \in Bots \X Sessions \X Models : Cell(k) # None}

\* A usage row that no call is booked on yet.
Open(b, s, m) ==
  /\ usage[b][s][m] = None
  /\ Cardinality(RowsKept) < MaxRows
  /\ usage' = [usage EXCEPT ![b][s][m] = [calls |-> 0, cost |-> 0, recent |-> TRUE]]
  /\ UNCHANGED <<session, readable>>

\* A call of a session: calls and cost of its row grow, last_seen is now.
Call(b, s, m, price) ==
  /\ usage[b][s][m] # None
  /\ usage[b][s][m].calls < MaxCalls
  /\ usage' = [usage EXCEPT ![b][s][m] =
                 [calls |-> @.calls + 1, cost |-> @.cost + price, recent |-> TRUE]]
  /\ UNCHANGED <<session, readable>>

Message(b, s) ==
  /\ session[b][s].platform # None
  /\ AddedUp([t \in Bots \X Sessions |-> session[t[1]][t[2]].messages]) < MaxMessages
  /\ session' = [session EXCEPT ![b][s].messages = @ + 1]
  /\ UNCHANGED <<usage, readable>>

\* The session is pruned, its usage rows stay.
Prune(b, s) ==
  /\ session[b][s].platform # None
  /\ \E m \in Models : usage[b][s][m] # None
  /\ session' = [session EXCEPT ![b][s] = [platform |-> None, messages |-> 1]]
  /\ UNCHANGED <<usage, readable>>

\* A row grows older than the window.
Age(b, s, m) ==
  /\ usage[b][s][m] # None
  /\ usage[b][s][m].recent
  /\ usage' = [usage EXCEPT ![b][s][m].recent = FALSE]
  /\ UNCHANGED <<session, readable>>

\* A snapshot of the database fails, or works again.
Flip(b) ==
  /\ readable' = IF b \in readable THEN readable \ {b} ELSE readable \cup {b}
  /\ UNCHANGED <<usage, session>>

Next ==
  \E b \in Bots :
    \/ Flip(b)
    \/ \E s \in Sessions :
         \/ Message(b, s) \/ Prune(b, s)
         \/ \E m \in Models :
              Open(b, s, m) \/ Age(b, s, m) \/ \E price \in 0 .. 1 : Call(b, s, m, price)

Spec == Init /\ [][Next]_vars

-----------------------------------------------------------------------------
(* Properties.                                                             *)

\* The rows of platform p, of the bots that made a call there.
Busy(p) ==
  UNION {Of(InWindow(b), p) : b \in {c \in readable : Calls(Of(InWindow(c), p)) > 0}}

\* "sum raw counters, then RECOMPUTE derived metrics.  Never average an
\* average": what "all" shows is what one state.db holding the rows of every
\* readable bot would show, pruned sessions and idle rows included; and a total
\* that leaves a bot's spend out names the bot, "the merged total is a lower
\* bound".  The efficiency panel has the platforms, calls and cost of that pool,
\* but its sessions and averages are those of the bots that made a call on the
\* platform: each bot leaves its idle platforms out before the merge.
AllIsThePool ==
  LET pool   == Pool
      all    == MergedSummary
      merged == MergedEfficiency
      pooled == Efficiency(pool)
  IN  /\ all = Summary(pool)
      /\ all.sums = AddUp(PerBot)
      /\ MergeGrouped([b \in readable |-> ByModel(InWindow(b))]) = ByModel(pool)
      /\ MergeGrouped([b \in readable |-> ByPlatform(InWindow(b))]) = ByPlatform(pool)
      /\ DOMAIN merged = DOMAIN pooled
      /\ \A p \in DOMAIN merged :
           /\ merged[p].sums.calls = pooled[p].sums.calls
           /\ merged[p].sums.cost = pooled[p].sums.cost
           /\ merged[p].sums = Sums(Busy(p))
           /\ Same(merged[p].avg, AvgMessages(Busy(p), p))
      /\ all.sums.cost < Cost(UNION {InWindow(b) : b \in Bots})
           => \E b \in Skipped : Cost(InWindow(b)) > 0

\* The session table of "all" holds the dearest sessions of the whole fleet,
\* although every bot's table was cut before the tables were put together.
TopSessionsAreTheTop == MergedSessions \subseteq TopLists(BySession(Pool), Limit)

=============================================================================
