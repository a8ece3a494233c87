------------------------------ MODULE CostFigures ------------------------------
(***************************************************************************)
(* The figures of the cost page, in one run of TLC: the merged panels with *)
(* money (CostMerge) and without (BotPanels), the header tiles             *)
(* (CostSummary) and the chart (UsageChart).  The four share no state;     *)
(* each is driven through its own inputs while the others stand still.     *)
(***************************************************************************)
EXTENDS Naturals, FiniteSets, TLC

CONSTANTS
  None, All, Bots, Sessions, Models, Platforms,
  Limit, MaxCalls, MaxMessages, MaxRows,           \* panels with money
  Prompts, Tools, Lengths, ListLength, MaxEvents,  \* panels without
  Profiles, MaxChanges,                               \* header tiles
  MaxSpent, MaxTime                                \* chart

VARIABLES
  part,     \* what is looked at
  usage, session, readable,                                \* of CostMerge
  sessions, calls, snapshots,                              \* of BotPanels
  figures, table, rate, ask, step, todo, sum, got, past,   \* of CostSummary
  now, spent, platform, mark, ledger, observed             \* of UsageChart

merge   == <<usage, session, readable>>
panels  == <<sessions, calls, snapshots>>
summary == <<figures, table, rate, ask, step, todo, sum, got, past>>
chart   == <<now, spent, platform, mark, ledger, observed>>
vars    == <<part, merge, panels, summary, chart>>

\* An invoice, the server's yearly bill, another invoice, and a one-off: each
\* period, both currencies, and two rows that claim the comparison.
ExternalRows ==
  {[period |-> "none",    amount |-> 2,  currency |-> "EUR", flagged |-> TRUE],
   [period |-> "yearly",  amount |-> 24, currency |-> "EUR", flagged |-> FALSE],
   [period |-> "monthly", amount |-> 2,  currency |-> "USD", flagged |-> TRUE],
   [period |-> "onetime", amount |-> 2,  currency |-> "EUR", flagged |-> FALSE]}

Merge   == INSTANCE CostMerge
Panels  == INSTANCE BotPanels WITH readable <- snapshots, Platforms <- Prompts
Summary == INSTANCE CostSummary WITH Bots <- Profiles, Rows <- ExternalRows, Rate <- 2,
                                     usage <- figures
Chart   == INSTANCE UsageChart WITH MaxCalls <- MaxSpent

ASSUME MergeAssumptions == Merge!FleetAssumption /\ Panels!PanelsAssumption
ASSUME SummaryAssumptions == Summary!BotsAssumption
ASSUME ChartAssumptions == Chart!GroupsAssumption

\* Each part is driven from all its first states, with one of the others'.
Init ==
  /\ part \in {"merge", "panels", "summary", "chart"}
  /\ Merge!Init /\ Panels!Init /\ Summary!Init /\ Chart!Init
  /\ part # "summary" =>
       /\ table = {} /\ rate = None /\ ask = [days |-> 30, profile |-> All]
       /\ \A b \in Profiles : figures[b][30].free = 0

Next ==
  \/ part = "merge" /\ Merge!Next /\ UNCHANGED <<part, panels, summary, chart>>
  \/ part = "panels" /\ Panels!Next /\ UNCHANGED <<part, merge, summary, chart>>
  \/ part = "summary" /\ Summary!Next /\ UNCHANGED <<part, merge, panels, chart>>
  \/ part = "chart" /\ Chart!Next /\ UNCHANGED <<part, merge, panels, summary>>

Spec == Init /\ [][Next]_vars

\* Bots, sessions and models are interchangeable; the header tiles number their
\* bots, because the handler reads them in the order of list_profiles.
Symmetry == Permutations(Bots) \cup Permutations(Sessions) \cup Permutations(Models)

-----------------------------------------------------------------------------
\* The merged figures are those of one pooled database of the bots that could be
\* read, and a total that leaves a bot out says so.
AllIsThePool == part = "merge" => Merge!AllIsThePool

\* The merged session table holds the dearest sessions of the fleet.
TopSessionsAreTheTop == part = "merge" => Merge!TopSessionsAreTheTop

\* Prompt sizes and tool counts of "all" are those of the pool, tools as far as
\* the bots' lists go.
PanelsAreThePool == part = "panels" => Panels!PanelsAreThePool

\* The total is the cost of every bot that is not reported as skipped, and the
\* recurring rows, whatever changes between the reads of the request.
TotalIsFleetWide == part = "summary" => Summary!TotalIsFleetWide

\* On the page of all bots an unmarked total leaves nothing out.
UnmarkedIsWhole == part = "summary" => Summary!UnmarkedIsWhole

\* The same on the page of every bot, as costpage.md has it.
UnmarkedIsWholeForEveryBot == part = "summary" => Summary!UnmarkedIsWholeForEveryBot

\* An invoice is compared with the fleet's 30 days.
ComparisonIsOfTheMonth == part = "summary" => Summary!ComparisonIsOfTheMonth

\* The bars of the chart add up to what the ticks of the window found.
ChartIsTheSpend == part = "chart" => Chart!ChartIsTheSpend

=============================================================================
