------------------------------- MODULE CostView -------------------------------
(***************************************************************************)
(* The cost page (CostView.jsx): a range and a bot are selected, a load    *)
(* fetches every panel for them, what is on screen can be saved as a       *)
(* report under a name made of the selection, saved reports can be shown   *)
(* in place of the live panels, and a click on a session opens its detail. *)
(* Loads are asynchronous and nothing ties an answer to the selection that *)
(* is in force when it arrives.                                            *)
(*                                                                         *)
(* What a load brings is represented by the selection it was made for.     *)
(* The chart, which a report does not hold, is left out.                   *)
(***************************************************************************)
EXTENDS Naturals

CONSTANTS
  Ranges, Bots,
  All,       \* the selector's first entry, every bot
  MaxLoads,  \* bound: loads ever started
  None

MaxLoadsAssumption == MaxLoads \in Nat \ {0}
AllAssumption == All \notin Bots

Selection == [days: Ranges, profile: Bots \cup {All}]

NoneAssumption == None \notin Selection

VARIABLES
  selection,    \* the active range and bot
  data,         \* the live panels: the selection they were loaded for, or None
  unavailable,  \* the message that replaces them
  loads,        \* loads under way: which and for what
  started,      \* how many loads were started
  viewing,      \* the report shown instead, or None
  session,      \* the open drill-down, or None
  reports,      \* cost_reports of gui.db: name -> payload, or None
  saving,       \* the PUT under way, or None
  fetching,     \* the name of the report being fetched, or None
  lastGood,     \* history: did the load that was started last succeed?
  answered,     \* history: the load that was answered last, 0 if none
  misled        \* history: were panels of an older load saved or clicked on?

live == <<selection, data, unavailable, loads, started, lastGood, answered>>
vars == <<live, viewing, session, reports, saving, fetching, misled>>

\* the mount effect has started the first load
Init ==
  /\ selection \in {s \in Selection : s.profile = All}
  /\ data = None /\ unavailable = FALSE
  /\ loads = {[n |-> 1, for |-> selection]} /\ started = 1
  /\ viewing = None /\ session = None
  /\ reports = [name \in Selection |-> None]
  /\ saving = None /\ fetching = None
  /\ lastGood = FALSE /\ answered = 0 /\ misled = FALSE

\* The answer that came last is that of the load started last.
InOrder == answered = started

-----------------------------------------------------------------------------
(* The live panels                                                         *)

\* mutated form: only a change of the range reloads
OnlyDays(new) == new.days # selection.days

\* the dependencies of `load`, whose identity the effect watches
NeedsLoad(new) == new # selection

\* Setting a state to the value it has renders nothing and loads nothing.
Choose(new) ==
  /\ selection' = new
  /\ IF NeedsLoad(new)
       THEN /\ started < MaxLoads
            /\ started' = started + 1
            /\ loads' = loads \cup {[n |-> started + 1, for |-> new]}
            /\ unavailable' = FALSE
            /\ lastGood' = FALSE
       ELSE UNCHANGED <<started, loads, unavailable, lastGood>>
  /\ viewing' = None
  /\ UNCHANGED <<data, reports, saving, fetching, answered, misled>>

SelectRange(days) ==
  Choose([selection EXCEPT !.days = days]) /\ UNCHANGED session

ChangeProfile(profile) ==
  Choose([selection EXCEPT !.profile = profile]) /\ session' = None

Loaded(l) ==
  /\ loads' = loads \ {l}
  /\ data' = l.for
  /\ answered' = l.n
  /\ lastGood' = (lastGood \/ l.n = started)
  /\ UNCHANGED <<selection, unavailable, started, viewing, session, reports,
                 saving, fetching, misled>>

ClearedPanels == None

LoadFailed(l) ==
  /\ loads' = loads \ {l}
  /\ data' = ClearedPanels
  /\ unavailable' = TRUE
  /\ session' = None
  /\ answered' = l.n
  /\ UNCHANGED <<selection, started, viewing, reports, saving, fetching, lastGood, misled>>

-----------------------------------------------------------------------------
(* Reports                                                                 *)

CanSave == data # None /\ viewing = None /\ saving = None

SaveReport ==
  /\ CanSave
  /\ saving' = [name |-> selection, payload |-> data]
  /\ misled' = (misled \/ ~InOrder)
  /\ UNCHANGED <<live, viewing, session, reports, fetching>>

\* mutated form: the name is made when the answer is there
NameOfNow == selection

\* reportName(...), taken at the click
NameOfClick == saving.name

SaveDone ==
  /\ saving # None
  /\ \/ reports' = [reports EXCEPT ![NameOfClick] = saving.payload]
     \/ UNCHANGED reports  \* "Save failed"
  /\ saving' = None
  /\ UNCHANGED <<live, viewing, session, fetching, misled>>

LoadReport(name) ==
  /\ reports[name] # None
  /\ fetching = None
  /\ fetching' = name
  /\ UNCHANGED <<live, viewing, session, reports, saving, misled>>

ReportFetched ==
  /\ fetching # None
  /\ \/ viewing' = [name |-> fetching, payload |-> reports[fetching]]
     \/ UNCHANGED viewing
  /\ fetching' = None
  /\ UNCHANGED <<live, session, reports, saving, misled>>

BackToLive ==
  /\ viewing # None
  /\ viewing' = None
  /\ UNCHANGED <<live, session, reports, saving, fetching, misled>>

-----------------------------------------------------------------------------
(* The drill-down                                                          *)

Display == IF viewing # None THEN viewing.payload ELSE data

TablesShown == Display # None /\ (viewing = None => ~unavailable)

\* mutated form: always the selector's bot
SelectorsProfile == selection.profile

TablesProfile ==
  IF viewing # None THEN viewing.payload.profile ELSE selection.profile

\* The rows of a merged table carry their bot, those of a single bot do not.
ClickSession(bot) ==
  /\ TablesShown
  /\ Display.profile \in {All, bot}
  /\ session' = [of |-> bot,
                 asked |-> IF Display.profile = All THEN bot ELSE TablesProfile]
  /\ misled' = (misled \/ (viewing = None /\ ~InOrder))
  /\ UNCHANGED <<live, viewing, reports, saving, fetching>>

CloseSession ==
  /\ session # None
  /\ session' = None
  /\ UNCHANGED <<live, viewing, reports, saving, fetching, misled>>

Next ==
  \/ \E days \in Ranges : SelectRange(days)
  \/ \E profile \in Bots \cup {All} : ChangeProfile(profile)
  \/ \E l \in loads : Loaded(l) \/ LoadFailed(l)
  \/ SaveReport \/ SaveDone
  \/ \E name \in Selection : LoadReport(name)
  \/ ReportFetched \/ BackToLive
  \/ \E bot \in Bots : ClickSession(bot)
  \/ CloseSession

Spec == Init /\ [][Next]_vars
-----------------------------------------------------------------------------
TypeOK ==
  /\ selection \in Selection
  /\ data \in Selection \cup {None}
  /\ unavailable \in BOOLEAN
  /\ loads \subseteq [n: 1..started, for: Selection] /\ started \in 1..MaxLoads
  /\ viewing \in [name: Selection, payload: Selection] \cup {None}
  /\ session \in [of: Bots, asked: Bots \cup {All}] \cup {None}
  /\ reports \in [Selection -> Selection \cup {None}]
  /\ saving \in [name: Selection, payload: Selection] \cup {None}
  /\ fetching \in Selection \cup {None}
  /\ lastGood \in BOOLEAN /\ answered \in 0..started /\ misled \in BOOLEAN

\* "Picking a specific bot scopes every panel": when nothing is under way any
\* more, the panels are those of the selection, and a failure is shown only if
\* the load for the selection failed.
PanelsFollowSelection ==
  loads = {} => /\ data \in {selection, None}
                /\ lastGood => data = selection /\ ~unavailable

\* What is left of that when loads overlap, are answered in any order or fail:
\* every change of the selection is loaded, so that as soon as the answer that
\* came last is the latest load's, the panels are those of the selection, or
\* there are none, its load has failed and the page says so.
PanelsFollowLatestLoad ==
  InOrder => /\ data \in {selection, None}
             /\ data = None => unavailable /\ ~lastGood

\* "a report's name doubles as 'which bot, when, and over what range this was
\* taken'": the payload stored under a name is of the name's range and bot, if
\* the user never saved panels of an older load, and whatever is selected,
\* loaded or answered while the report is saved and fetched.
ReportMatchesName ==
  ~misled => \A name \in Selection : reports[name] \in {name, None}

\* The drill-down asks the bot that the clicked session belongs to, and never
\* "all", which the endpoint refuses, also from inside a saved report, if the
\* user never clicked on panels of an older load.
SessionIsOfItsBot == (~misled /\ session # None) => session.asked = session.of
=============================================================================
