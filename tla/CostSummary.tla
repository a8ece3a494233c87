----------------------------- MODULE CostSummary -----------------------------
(***************************************************************************)
(* GET /cost/summary, the header tiles of the cost page.  The handler puts *)
(* one answer together from up to six reads: the selected bot, the fleet,  *)
(* the exchange rate, the external rows, the flagged row, and the fleet    *)
(* once more for the month an invoice covers.  Nothing holds the world     *)
(* still in between, and every bot is a state.db of its own whose copy may *)
(* be torn.  CostSummary.jsx shows the answer and marks lower bounds.      *)
(*                                                                         *)
(* Money is in whole units.  `free` is what _unpriced reports: the calls   *)
(* of the usage rows that have cost nothing.                               *)
(***************************************************************************)
EXTENDS Naturals, FiniteSets, FiniteSetsExt, Functions

CONSTANTS
  Bots,       \* list_profiles, in its order
  All,        \* the "all" entry of the selector
  None,       \* no rate, no amount, no flagged row
  Rows,       \* the rows a user may enter into the external cost grid
  Rate,       \* the exchange rate, once one is fetched
  MaxChanges  \* bound: what changes while the request is answered

BotsAssumption == Bots \subseteq Nat /\ Bots # {} /\ IsFiniteSet(Bots)

Ranges == {7, 30}

VARIABLES
  usage,   \* usage[b][days]: what summary finds in that window of bot b
  table,   \* external_costs; ExternalCosts shows that at most one is flagged
  rate,    \* fx_rate, or None
  ask,     \* days and profile of the request
  step,    \* the read the handler is at
  todo,    \* the bots the running summary still has to read
  sum,     \* and what it found so far
  got,     \* the results of the finished reads
  past     \* history: the moments of the request, as [usage, table, rate]

world   == <<usage, table, rate>>
handler == <<step, todo, sum, got>>
vars    == <<world, ask, handler, past>>

Nothing == [cost |-> 0, free |-> 0, kept |-> {}]

Flagged(rows) == {r \in rows : r.flagged}

AddedUp(figures) == MapThenSumSet(LAMBDA i : figures[i], DOMAIN figures)

-----------------------------------------------------------------------------
(* external_costs_store: one amount is entered, the other is derived.      *)

\* amounts(...)["usd"]
Usd(row, x) ==
  IF row.currency = "USD" THEN row.amount
  ELSE IF x = None THEN None ELSE row.amount \div x

\* monthly_usd
MonthlyUsd(row, x) ==
  LET usd == Usd(row, x)
  IN  IF usd = None THEN 0
      ELSE CASE row.period = "monthly" -> usd
             [] row.period = "yearly"  -> usd \div 12
             [] OTHER -> 0

\* totals: a euro row that counts and has no dollar amount is reported
Incomplete(rows, x) ==
  \E r \in rows : r.period # "none" /\ Usd(r, x) = None

Monthly(rows, x) == AddedUp([r \in rows |-> MonthlyUsd(r, x)])

-----------------------------------------------------------------------------
(* The handler.                                                            *)

Init ==
  /\ \E unpriced \in SUBSET Bots :
       usage = [b \in Bots |-> [d \in Ranges |->
                  [cost |-> IF d = 7 THEN 1 ELSE 2, free |-> IF b \in unpriced THEN 1 ELSE 0]]]
  /\ table \in {t \in SUBSET Rows : Cardinality(Flagged(t)) <= 1}
  /\ rate \in {None, Rate}
  /\ ask \in [days : Ranges, profile : Bots \cup {All}]
  /\ step = "selected"
  /\ todo = IF ask.profile = All THEN Bots ELSE {ask.profile}
  /\ sum = Nothing
  /\ got = [selected |-> Nothing, fleet |-> Nothing, rate |-> None, rows |-> {},
            flagged |-> None, month |-> Nothing]
  /\ past = {[usage |-> usage, table |-> table, rate |-> rate]}

Window == IF step = "month" THEN 30 ELSE ask.days

\* hermes_usage.summary of the next bot, or HermesDataUnavailable
ReadBot ==
  /\ todo # {}
  /\ LET b == Min(todo)
     IN  /\ todo' = todo \ {b}
         /\ \/ sum' = [cost |-> sum.cost + usage[b][Window].cost,
                       free |-> sum.free + usage[b][Window].free,
                       kept |-> sum.kept \cup {b}]
            \/ UNCHANGED sum
  /\ UNCHANGED <<world, ask, step, got, past>>

Goto(next) ==
  /\ step' = next
  /\ todo' = IF next \in {"fleet", "month"} THEN Bots ELSE {}
  /\ sum'  = Nothing

\* mutated form: everything is scoped to the selected bot, which skips none
FleetOfSelection == IF step = "selected" THEN [sum EXCEPT !.kept = Bots] ELSE got.fleet

\* the fleet's figures: those of the selection if that was the fleet
Fleet == IF step = "fleet" \/ ask.profile = All THEN sum ELSE got.fleet

\* The summaries raise, and the route answers 503, if no bot was readable.
ReadUsage ==
  /\ step \in {"selected", "fleet", "month"} /\ todo = {}
  /\ IF sum.kept = {}
     THEN Goto("failed") /\ UNCHANGED got
     ELSE CASE step = "selected" ->
                 /\ got' = [got EXCEPT !.selected = sum, !.fleet = Fleet]
                 /\ Goto(IF ask.profile = All THEN "rate" ELSE "fleet")
            [] step = "fleet" ->
                 got' = [got EXCEPT !.fleet = Fleet] /\ Goto("rate")
            [] step = "month" ->
                 got' = [got EXCEPT !.month = sum] /\ Goto("done")
  /\ UNCHANGED <<world, ask, past>>

\* fx.get_rate, then list_rows
ReadRate ==
  /\ step = "rate" /\ Goto("rows")
  /\ got' = [got EXCEPT !.rate = rate]
  /\ UNCHANGED <<world, ask, past>>

ReadRows ==
  /\ step = "rows" /\ Goto("flagged")
  /\ got' = [got EXCEPT !.rows = table]
  /\ UNCHANGED <<world, ask, past>>

\* mutated form: the figure at hand is compared whatever its range
AlwaysReuse == TRUE

\* "when 30 days is already what was asked for, reuse it"
Reuse == ask.days = 30

\* flagged_row reads the table a second time
ReadFlagged ==
  /\ step = "flagged"
  /\ LET row == IF Flagged(table) = {} THEN None ELSE CHOOSE r \in Flagged(table) : TRUE
     IN  /\ got' = [got EXCEPT !.flagged = row, !.month = got.fleet]
         /\ Goto(IF row = None \/ Reuse THEN "done" ELSE "month")
  /\ UNCHANGED <<world, ask, past>>

Handler == ReadBot \/ ReadUsage \/ ReadRate \/ ReadRows \/ ReadFlagged

-----------------------------------------------------------------------------
(* The world while the request is answered: Hermes, and other windows.     *)

\* A bot makes a call without a price, on a row that has cost nothing; on a row
\* that has a cost it changes neither figure.
SpendUnpriced(b) ==
  /\ usage' = [usage EXCEPT ![b] = [d \in Ranges |->
                 [cost |-> @[d].cost, free |-> @[d].free + 1]]]
  /\ UNCHANGED <<table, rate>>

\* A bot makes a call at a price.  Its row is no longer unpriced, so the calls it
\* had, `n` of them, are not reported any more.
Spend(b, n) ==
  /\ usage' = [usage EXCEPT ![b] = [d \in Ranges |->
                 [cost |-> @[d].cost + 1, free |-> @[d].free - Min({n, @[d].free})]]]
  /\ UNCHANGED <<table, rate>>

\* Usage rows grow older than a week.
Age(b) ==
  /\ usage[b][7].cost > 0
  /\ usage' = [usage EXCEPT ![b][7] = [cost |-> 0, free |-> 0]]
  /\ UNCHANGED <<table, rate>>

\* save_rows: a flag clears the flags of the others
Save(row) ==
  /\ row \notin table
  /\ table' = {row} \cup IF row.flagged THEN {[r EXCEPT !.flagged = FALSE] : r \in table} ELSE table
  /\ UNCHANGED <<usage, rate>>

Delete(row) == row \in table /\ table' = table \ {row} /\ UNCHANGED <<usage, rate>>

SetRate == rate = None /\ rate' = Rate /\ UNCHANGED <<usage, table>>

World ==
  /\ step \notin {"done", "failed"}
  /\ Cardinality(past) <= MaxChanges
  /\ \/ \E b \in Bots : Age(b) \/ SpendUnpriced(b) \/ \E n \in 0 .. 1 : Spend(b, n)
     \/ \E row \in Rows : Save(row) \/ Delete(row)
     \/ SetRate
  /\ past' = past \cup {[usage |-> usage', table |-> table', rate |-> rate']}
  /\ UNCHANGED <<ask, handler>>

Next == Handler \/ World

Spec == Init /\ [][Next]_vars

-----------------------------------------------------------------------------
(* What CostSummary.jsx shows.                                             *)

Total == got.fleet.cost + Monthly(got.rows, got.rate)

\* mutated form: the skipped bots are not in the answer
IgnoresSkipped == Incomplete(got.rows, got.rate) \/ got.selected.free > 0

\* total_cost_of_ownership_incomplete || hasUnpriced || hasSkipped
Marked == Incomplete(got.rows, got.rate) \/ got.selected.free > 0 \/ got.fleet.kept # Bots

\* estimate_vs_actual, with the amount of a row no rate can convert left out
Compared ==
  /\ step = "done" /\ got.flagged # None /\ got.month.cost > 0
  /\ Usd(got.flagged, got.rate) # None

-----------------------------------------------------------------------------
(* Properties.  A figure is right if it was so at some moment of the       *)
(* request, each bot's at a moment of its own.                             *)

Costs(bots, days) ==
  {AddedUp([b \in bots |-> at[b].usage[b][days].cost]) : at \in [bots -> past]}

\* what the calls of unpriced rows have cost included, each at least one unit
WholeCosts ==
  {AddedUp([b \in Bots |-> at[b].usage[b][ask.days].cost + at[b].usage[b][ask.days].free]) :
     at \in [Bots -> past]}

\* "TCO and the invoice comparison are FLEET-WIDE", whatever bot is selected and
\* whatever changes between the reads: the total is the cost of every bot that is
\* not reported as skipped, and the recurring rows at the rate of the answer.
TotalIsFleetWide ==
  step = "done" =>
    \E x, y \in past :
      /\ got.rate = y.rate
      /\ Total \in {c + Monthly(x.table, y.rate) : c \in Costs(got.fleet.kept, ask.days)}

Whole ==
  \E x \in past : Total \in {c + Monthly(x.table, Rate) : c \in WholeCosts}

\* On the page of all bots a total without its mark is the whole of what was
\* spent: no bot, no usage row without a price and no euro row is missing from it.
UnmarkedIsWhole == step = "done" /\ ask.profile = All /\ ~Marked => Whole

\* The same whatever bot is selected: "when any row in the range is unpriced [...]
\* the total is marked with a red *" (costpage.md), and the total is fleet-wide.
UnmarkedIsWholeForEveryBot == step = "done" /\ ~Marked => Whole

\* The estimate an invoice is compared with is the fleet's figure of 30 days,
\* whatever range is asked for, and the invoice a row that was flagged.
ComparisonIsOfTheMonth ==
  Compared =>
    /\ \E x \in past : got.flagged \in Flagged(x.table)
    /\ \E bots \in IF ask.days = 30 THEN {got.fleet.kept} ELSE (SUBSET Bots) \ {{}} :
         got.month.cost \in Costs(bots, 30)

=============================================================================
