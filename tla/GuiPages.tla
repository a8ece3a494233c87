------------------------------- MODULE GuiPages -------------------------------
(***************************************************************************)
(* The pages of the GUI that talk to the backend at length, in one run of  *)
(* TLC: the result grid, the cost page, and the grid of external costs on  *)
(* it.  The cost page is mounted afresh whenever App.jsx shows it, and the *)
(* three share no state, so it is enough to look at each of them from its  *)
(* first state on, while the others stand still.                           *)
(***************************************************************************)
EXTENDS Naturals

CONSTANTS
  None,
  Hits, MaxToken, MaxVersion,                           \* result grid
  Ranges, Bots, All, MaxLoads,                          \* cost page
  Windows, Currencies, Amounts, Mistakes, Rates,        \* external costs
  MaxId, MaxRows, MaxAmount

VARIABLES
  view,      \* the page on display
  \* of SearchView
  stored, rows, shown, token, request, answer, searching, selected, popup,
  deletion, edit, failed, told, toldAt,
  \* of CostView
  selection, data, unavailable, loads, started, viewing, session, reports,
  saving, fetching, lastGood, answered, misled,
  \* of ExternalCosts
  table, lastId, rate, grid, dirty, ownRate, phase, batch, target

results == <<stored, rows, shown, token, request, answer, searching, selected,
             popup, deletion, edit, failed, told, toldAt>>
costs    == <<selection, data, unavailable, loads, started, viewing, session,
              reports, saving, fetching, lastGood, answered, misled>>
external == <<table, lastId, rate, grid, dirty, ownRate, phase, batch, target>>
vars     == <<view, results, costs, external>>

Search == INSTANCE SearchView WITH Ids <- Hits
Cost   == INSTANCE CostView
Grid   == INSTANCE ExternalCosts WITH shown <- ownRate

ASSUME SearchAssumptions == Search!BoundsAssumption
ASSUME CostAssumptions ==
  Cost!MaxLoadsAssumption /\ Cost!AllAssumption /\ Cost!NoneAssumption
ASSUME GridAssumptions == Grid!NumbersAssumption

Init ==
  /\ view \in {"results", "cost", "grid"}
  /\ Search!Init /\ Cost!Init /\ Grid!Init

Next ==
  \/ /\ view = "results" /\ Search!Next
     /\ UNCHANGED <<view, costs, external>>
  \/ /\ view = "cost" /\ Cost!Next
     /\ UNCHANGED <<view, results, external>>
  \/ /\ view = "grid" /\ Grid!Next
     /\ UNCHANGED <<view, results, costs>>

Spec == Init /\ [][Next]_vars

-----------------------------------------------------------------------------
\* The result grid: only the latest request commits.
LatestWins == Search!LatestWins

\* The result grid: the spinner is on exactly while the latest request is out.
SpinnerIsHonest == view = "results" => Search!SpinnerIsHonest

\* The result grid: nothing the user was told is undone by a later search.
ResultsFollowTheUser == view = "results" => Search!ResultsFollowTheUser

\* The cost page: once the latest load is the last to be answered, the panels
\* are those of the selection.
PanelsFollowLatestLoad == view = "cost" => Cost!PanelsFollowLatestLoad

\* The cost page: a report holds what its name says, if what was saved was not
\* of an older load.
ReportMatchesName == view = "cost" => Cost!ReportMatchesName

\* The cost page: a drill-down asks the bot of the session, if what was clicked
\* on was not of an older load.
SessionIsOfItsBot == view = "cost" => Cost!SessionIsOfItsBot

\* External costs: a batch is taken over as a whole or not at all.
BatchIsWhole == Grid!BatchIsWhole

=============================================================================
