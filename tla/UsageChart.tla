------------------------------ MODULE UsageChart ------------------------------
(***************************************************************************)
(* Spend over time: ledger_store stamps what a tick observed with the time *)
(* of the tick, timeseries() adds the rows of a window up by UTC day and   *)
(* by model or platform, and CostChart.jsx stacks the groups of a day.     *)
(* How a tick gets its rows, and what it does when it fails, is the        *)
(* subject of UsageLedger; here a tick succeeds or does not happen.        *)
(*                                                                         *)
(* Time passes in half days, so that a window may begin within a day.      *)
(***************************************************************************)
EXTENDS Naturals, FiniteSets, FiniteSetsExt, Functions

CONSTANTS
  Bots, Models, Platforms,
  All,      \* the "all" entry of the selector
  None,     \* no mark yet; also '', the platform of a pruned session
  MaxCalls, \* bound: calls of all bots
  MaxTime   \* bound: how far the clock runs

GroupsAssumption ==
  /\ IsFiniteSet(Bots) /\ IsFiniteSet(Models) /\ None \notin [Models -> Nat]
  /\ MaxTime \in Nat \ {0}

Times == 1 .. MaxTime
Day(t) == t \div 2

VARIABLES
  now,
  spent,    \* spent[b][m]: the cost counter in b's state.db
  platform, \* platform[b]: of b's session
  mark,     \* usage_watermark: the counters at b's last tick, or None
  ledger,   \* usage_ledger: cost of the rows with one stamp, bot and group
  observed  \* history: observed[b][t], what b's ticks had found by time t,
            \* observed[b][0] what the tick that seeded it found

vars == <<now, spent, platform, mark, ledger, observed>>

AddedUp(figures) == MapThenSumSet(LAMBDA i : figures[i], DOMAIN figures)
Calls == AddedUp([b \in Bots |-> AddedUp(spent[b])])

Init ==
  /\ now = 1
  /\ spent = [b \in Bots |-> [m \in Models |-> 0]]
  /\ platform \in [Bots -> Platforms]
  /\ mark = [b \in Bots |-> None]
  /\ ledger = <<>>
  /\ observed = [b \in Bots |-> [t \in {0} \cup Times |-> 0]]

-----------------------------------------------------------------------------
\* A bot spends; its session is pruned; time passes.
Call(b, m) ==
  /\ Calls < MaxCalls
  /\ spent' = [spent EXCEPT ![b][m] = @ + 1]
  /\ UNCHANGED <<now, platform, mark, ledger, observed>>

Prune(b) ==
  /\ platform[b] # None
  /\ platform' = [platform EXCEPT ![b] = None]
  /\ UNCHANGED <<now, spent, mark, ledger, observed>>

Pass ==
  /\ now < MaxTime
  /\ now' = now + 1
  /\ UNCHANGED <<spent, platform, mark, ledger, observed>>

\* apply_tick: the first one that finds rows seeds, the others append what has
\* grown.  The platform is that of the session now, '' once it is pruned.
Tick(b) ==
  /\ AddedUp(spent[b]) > 0
  /\ mark[b] # spent[b]
  /\ mark' = [mark EXCEPT ![b] = spent[b]]
  /\ LET grown == IF mark[b] = None THEN {}
                  ELSE {m \in Models : spent[b][m] > mark[b][m]}
         row(m) == [at |-> now, bot |-> b, model |-> m, platform |-> platform[b]]
         had(k) == IF k \in DOMAIN ledger THEN ledger[k] ELSE 0
     IN  ledger' = [k \in DOMAIN ledger \cup {row(m) : m \in grown} |->
                      IF \E m \in grown : k = row(m)
                      THEN had(k) + (spent[b][k.model] - mark[b][k.model])
                      ELSE had(k)]
  /\ observed' = [observed EXCEPT ![b] = [t \in {0} \cup Times |->
                    IF mark[b] # None /\ t < now THEN @[t] ELSE AddedUp(spent[b])]]
  /\ UNCHANGED <<now, spent, platform>>

Next ==
  \/ Pass
  \/ \E b \in Bots : Tick(b) \/ Prune(b) \/ \E m \in Models : Call(b, m)

Spec == Init /\ [][Next]_vars

-----------------------------------------------------------------------------
(* timeseries                                                              *)

BotsOf(profile) == IF profile = All THEN Bots ELSE {profile}

\* mutated form: the window is open at its old end
OpenWindow(profile, days) ==
  {k \in DOMAIN ledger : k.bot \in BotsOf(profile) /\ k.at + 2 * days > now}

\* WHERE observed_at >= cutoff AND profile = ?
Window(profile, days) ==
  {k \in DOMAIN ledger : k.bot \in BotsOf(profile) /\ k.at + 2 * days >= now}

\* GROUP BY day, grp
Points(profile, days, group) ==
  LET rows  == Window(profile, days)
      point(k) == <<Day(k.at), k[group]>>
  IN  [p \in {point(k) : k \in rows} |->
         AddedUp(Restrict(ledger, {k \in rows : point(k) = p}))]

\* dayTotals: the height of the bar of a day
Bar(points, day) == AddedUp(Restrict(points, {p \in DOMAIN points : p[1] = day}))

-----------------------------------------------------------------------------
\* The bars are the spending: whichever way they are grouped, and for one bot or
\* for all, those up to any day add up to what the ticks of the window had found
\* by the end of that day.  Pruned sessions and a first day that the window cuts
\* are included; what was spent before the first tick never shows.
ChartIsTheSpend ==
  \A profile \in Bots \cup {All}, days \in 1 .. Day(MaxTime) + 1 :
    LET before(b) == observed[b][IF now > 2 * days THEN now - 2 * days - 1 ELSE 0]
    IN  \A group \in {"model", "platform"} :
          LET points == Points(profile, days, group)
          IN  \A day \in 0 .. Day(now) :
                Day(now) <= day + days =>
                  AddedUp([d \in 0 .. day |-> Bar(points, d)])
                    = AddedUp([b \in BotsOf(profile) |->
                                 observed[b][Min({2 * day + 1, now})] - before(b)])

=============================================================================
