------------------------------ MODULE SearchView ------------------------------
(***************************************************************************)
(* The result grid of the GUI (App.jsx): searches, browsing, "find         *)
(* similar" and "list captures" fill it, deletions and edits change it in  *)
(* place.  Every call is asynchronous: the backend answers with what it    *)
(* holds when it executes the call, and the answers arrive in any order.   *)
(* A request carries a token, and only the latest token may commit.        *)
(*                                                                         *)
(* A capture is an id with a version that grows with every edit; a request *)
(* matches all captures.  One deletion and one edit may be under way.      *)
(***************************************************************************)
EXTENDS Naturals

CONSTANTS
  Ids,        \* captures
  MaxToken,   \* bound: requests the user starts
  MaxVersion, \* bound: edits of one capture
  None

BoundsAssumption == MaxToken \in Nat /\ MaxVersion \in Nat /\ None \notin Nat

Tokens   == 1..MaxToken
Versions == 0..MaxVersion
Unsaved  == MaxVersion + 1  \* a text that the grid shows and the backend has not
Contents == [Ids -> Versions \cup {None}]

VARIABLES
  stored,    \* the backend's captures: id -> version, or None when gone
  rows,      \* the grid: id -> version shown, or None when not in the grid
  shown,     \* the token of the result set in the grid, 0 before the first
  token,     \* searchTokenRef.current
  request,   \* request[t]: how far the request of token t got
  answer,    \* answer[t]: what the backend answered
  searching, \* the spinner, which also hides the grid
  selected,  \* selectedId, or None
  popup,     \* the capture in the change popup, or None
  deletion,  \* the delete call under way, or None
  edit,      \* the update call under way, or None
  failed,    \* the token whose failure the error banner shows, or 0
  told,      \* history: the contents the user was told are in effect
  toldAt     \* toldAt[t]: told, when request t was sent

requests == <<token, request, answer, searching, toldAt>>
screen   == <<rows, shown, failed>>
vars     == <<stored, rows, shown, token, request, answer, searching, selected,
              popup, deletion, edit, failed, told, toldAt>>

Empty == [id \in Ids |-> None]

Init ==
  /\ stored = [id \in Ids |-> 0]
  /\ rows = Empty
  /\ shown = 0 /\ token = 0 /\ failed = 0
  /\ request = [t \in Tokens |-> "none"]
  /\ answer  = [t \in Tokens |-> Empty]
  /\ searching = FALSE
  /\ selected = None /\ popup = None
  /\ deletion = None /\ edit = None
  /\ told   = stored
  /\ toldAt = [t \in Tokens |-> stored]

-----------------------------------------------------------------------------
(* Requests                                                                *)

\* `++searchTokenRef.current`
NextToken == token + 1

Start ==
  /\ token < MaxToken
  /\ token' = NextToken
  /\ request' = [request EXCEPT ![token'] = "sent"]
  /\ toldAt'  = [toldAt EXCEPT ![token'] = told]
  /\ searching' = TRUE
  /\ UNCHANGED <<stored, screen, answer, deletion, edit, told, popup>>

\* Enter in the prompt box works while a search is under way, and so does
\* "list captures" in the keyword graph.
Search == Start /\ selected' = None

\* in a grid row, so not while the spinner hides the grid
FindSimilar == ~searching /\ rows # Empty /\ Start /\ selected' = None

\* the button under the grid; the selection stays
LoadMore == ~searching /\ rows # Empty /\ Start /\ UNCHANGED selected

Answer(t) ==
  /\ request[t] = "sent"
  /\ request' = [request EXCEPT ![t] = "answered"]
  /\ answer'  = [answer EXCEPT ![t] = stored]
  /\ UNCHANGED <<stored, screen, token, searching, toldAt, selected, popup,
                 deletion, edit, told>>

\* openbrain-mcp answers with an error, or not within its timeout
Break(t) ==
  /\ request[t] = "sent"
  /\ request' = [request EXCEPT ![t] = "broken"]
  /\ UNCHANGED <<stored, screen, token, answer, searching, toldAt, selected,
                 popup, deletion, edit, told>>

\* mutated form: any answer commits
AlwaysLatest(t) == TRUE

\* `token === searchTokenRef.current`
Latest(t) == t = token

\* mutated form: `finally { setSearching(false) }`
Unspin(t) == FALSE

\* `finally { if (token === searchTokenRef.current) setSearching(false) }`
StillSpinning(t) == IF t = token THEN FALSE ELSE searching

Settled(t) == request[t] \in {"answered", "broken"}

Resolve(t) ==
  /\ Settled(t)
  /\ request' = [request EXCEPT ![t] = "done"]
  /\ answer'  = [answer EXCEPT ![t] = Empty]
  /\ searching' = StillSpinning(t)
  /\ \/ /\ request[t] = "answered" /\ Latest(t)
        /\ rows' = answer[t]
        /\ shown' = t
        /\ failed' = 0
     \/ /\ request[t] = "broken" /\ Latest(t)
        /\ failed' = t
        /\ UNCHANGED <<rows, shown>>
     \/ /\ ~Latest(t)
        /\ UNCHANGED screen
  /\ UNCHANGED <<stored, token, toldAt, selected, popup, deletion, edit, told>>

-----------------------------------------------------------------------------
(* Selecting, deleting and changing a row                                  *)

Select(id) ==
  /\ ~searching
  /\ rows[id] # None
  /\ selected' = id
  /\ UNCHANGED <<stored, screen, requests, popup, deletion, edit, told>>

\* The selected row is among the rows, whether the grid is hidden or not.
CanAct == selected # None /\ rows[selected] # None

Call(id) == [id |-> id, stage |-> "sent"]

Delete ==
  /\ CanAct
  /\ deletion = None
  /\ deletion' = Call(selected)
  /\ UNCHANGED <<stored, screen, requests, selected, popup, edit, told>>

DeleteExecuted ==
  /\ deletion # None /\ deletion.stage = "sent"
  /\ stored' = [stored EXCEPT ![deletion.id] = None]
  /\ deletion' = [deletion EXCEPT !.stage = "executed"]
  /\ UNCHANGED <<screen, requests, selected, popup, edit, told>>

\* mutated form: the notice does not wait for the backend
DeletedAlready == deletion # None

DeleteAnswered == deletion # None /\ deletion.stage = "executed"

\* the row goes from the grid, with the notice "Capture deleted."
DeleteDone ==
  /\ DeleteAnswered
  /\ rows' = [rows EXCEPT ![deletion.id] = None]
  /\ selected' = None
  /\ failed' = 0
  /\ told' = [told EXCEPT ![deletion.id] = None]
  /\ deletion' = None
  /\ UNCHANGED <<stored, shown, requests, popup, edit>>

OpenPopup ==
  /\ CanAct
  /\ popup = None
  /\ popup' = selected
  /\ UNCHANGED <<stored, screen, requests, selected, deletion, edit, told>>

Cancel ==
  /\ popup # None
  /\ popup' = None
  /\ UNCHANGED <<stored, screen, requests, selected, deletion, edit, told>>

Change ==
  /\ popup # None
  /\ edit = None
  /\ edit' = [id |-> popup, stage |-> "sent", version |-> None]
  /\ UNCHANGED <<stored, screen, requests, selected, popup, deletion, told>>

\* A capture that is gone is not updated; the answer says so.
ChangeExecuted ==
  /\ edit # None /\ edit.stage = "sent"
  /\ stored[edit.id] # MaxVersion
  /\ IF stored[edit.id] = None
       THEN /\ edit' = [edit EXCEPT !.stage = "executed"]
            /\ UNCHANGED stored
       ELSE /\ edit' = [edit EXCEPT !.stage = "executed",
                                    !.version = stored[edit.id] + 1]
            /\ stored' = [stored EXCEPT ![edit.id] = @ + 1]
  /\ UNCHANGED <<screen, requests, selected, popup, deletion, told>>

\* The row is changed in place, whether the answer was "updated" or not, and
\* whatever popup is open by now is closed.
ChangeDone ==
  /\ edit # None /\ edit.stage = "executed"
  /\ LET text == IF edit.version = None THEN Unsaved ELSE edit.version
     IN  rows' = [rows EXCEPT ![edit.id] = IF @ = None THEN None ELSE text]
  /\ told' = IF edit.version = None \/ told[edit.id] = None THEN told
             ELSE [told EXCEPT ![edit.id] = edit.version]
  /\ popup' = None
  /\ failed' = 0
  /\ edit' = None
  /\ UNCHANGED <<stored, shown, requests, selected, deletion>>

\* The call or its answer is lost: the banner shows an error of no search.
CallFails ==
  /\ \/ deletion # None /\ deletion' = None /\ UNCHANGED edit
     \/ edit # None /\ edit' = None /\ UNCHANGED deletion
  /\ failed' = 0
  /\ UNCHANGED <<stored, rows, shown, requests, selected, popup, told>>

Next ==
  \/ Search \/ FindSimilar \/ LoadMore
  \/ \E t \in Tokens : Answer(t) \/ Break(t) \/ Resolve(t)
  \/ \E id \in Ids : Select(id)
  \/ Delete \/ DeleteExecuted \/ DeleteDone
  \/ OpenPopup \/ Cancel \/ Change \/ ChangeExecuted \/ ChangeDone
  \/ CallFails

Spec == Init /\ [][Next]_vars

-----------------------------------------------------------------------------
TypeOK ==
  /\ rows \in [Ids -> Versions \cup {None, Unsaved}]
  /\ stored \in Contents /\ told \in Contents
  /\ shown \in 0..token /\ token \in 0..MaxToken /\ failed \in 0..token
  /\ request \in [Tokens -> {"none", "sent", "answered", "broken", "done"}]
  /\ \A t \in Tokens : request[t] # "none" <=> t <= token
  /\ answer \in [Tokens -> Contents]
  /\ toldAt \in [Tokens -> Contents]
  /\ searching \in BOOLEAN
  /\ selected \in Ids \cup {None} /\ popup \in Ids \cup {None}
  /\ deletion \in [id: Ids, stage: {"sent", "executed"}] \cup {None}
  /\ edit \in [id: Ids, stage: {"sent", "executed"},
               version: Versions \cup {None}] \cup {None}

\* "a request only commits its results if it's still the most recent one when
\* it resolves": a slower, older request never replaces the results, or the
\* error, of a newer one.
LatestWins ==
  [][/\ shown' >= shown
     /\ shown' # shown => shown' = token
     /\ failed' \notin {0, failed} => failed' = token]_vars

\* The spinner, which hides the grid and disables its buttons, is on exactly
\* while the latest request is under way, whatever older ones do meanwhile.
SpinnerIsHonest ==
  searching <=> token > 0 /\ request[token] # "done"

\* "A capture deleted via the GUI disappears from subsequent searches", and an
\* edit shows in them: the grid never shows what the user was told is gone or
\* overwritten before the request was sent.
ResultsFollowTheUser ==
  \A id \in Ids : rows[id] # None /\ shown > 0 =>
    /\ toldAt[shown][id] # None
    /\ rows[id] >= toldAt[shown][id]

=============================================================================
