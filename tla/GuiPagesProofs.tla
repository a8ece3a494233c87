---------------------------- MODULE GuiPagesProofs ----------------------------
(***************************************************************************)
(* The result grid and the cost page for any number of requests, edits,    *)
(* captures, ranges, bots and loads; the cost grid by way of the proofs    *)
(* about ExternalCosts.                                                    *)
(***************************************************************************)
EXTENDS GuiPages, TLAPS

Tokens   == Search!Tokens
Versions == Search!Versions
Texts    == Versions \cup {None, Search!Unsaved}

\* What contents c show of a capture is there, and no older, in contents t.
Covers(c, t) == \A id \in Hits : c[id] # None => t[id] # None /\ c[id] >= t[id]

\* What contents t say of a capture is not newer than a version.
NotAfter(t, id, v) == t[id] # None => t[id] <= v

\* The backend is never behind what the user was told, and what a request
\* brings is never behind what the user had been told when it was sent.
Ahead ==
  /\ Covers(stored, told)
  /\ \A t \in Tokens : Covers(stored, toldAt[t])
  /\ \A t \in Tokens : request[t] = "answered" => Covers(answer[t], toldAt[t])
  /\ shown > 0 => Covers(rows, toldAt[shown])

\* An executed deletion is in effect.
DeletionDone ==
  deletion # None /\ deletion.stage = "executed" => stored[deletion.id] = None

\* An executed edit is the newest version of its capture: no other edit is
\* under way.
EditDone ==
  /\ edit # None /\ edit.stage = "sent" => edit.version = None
  /\ edit # None /\ edit.stage = "executed" /\ edit.version # None =>
       /\ stored[edit.id] # None => stored[edit.id] >= edit.version
       /\ NotAfter(told, edit.id, edit.version)
       /\ \A t \in Tokens : NotAfter(toldAt[t], edit.id, edit.version)

Results == Search!TypeOK /\ Search!SpinnerIsHonest /\ Ahead /\ DeletionDone /\ EditDone

\* The load started last is that of the selection, and until it is answered
\* nothing good is said of it.
Loading ==
  /\ selection \in Cost!Selection
  /\ started \in Nat /\ answered \in 0..started /\ misled \in BOOLEAN
  /\ \A l \in loads : /\ l.n \in 1..started
                      /\ l.n = started => l = [n |-> started, for |-> selection] /\ ~lastGood
  /\ Cost!PanelsFollowLatestLoad

\* What is saved or looked at is what its name says.
Named ==
  /\ saving # None => saving.name = saving.payload
  /\ reports \in [Cost!Selection -> Cost!Selection \cup {None}]
  /\ \A name \in Cost!Selection : reports[name] \in {name, None}
  /\ viewing # None => viewing.payload \in {viewing.name, None}

\* The names are selections in any case.
Names ==
  /\ saving # None => saving.name \in Cost!Selection
  /\ fetching # None => fetching \in Cost!Selection
  /\ DOMAIN reports = Cost!Selection

Costs ==
  /\ Loading /\ Names
  /\ ~misled => Named
  /\ Cost!SessionIsOfItsBot

-----------------------------------------------------------------------------
(* The result grid.                                                        *)

LEMMA TextOrder ==
  /\ MaxToken \in Nat /\ MaxVersion \in Nat /\ None \notin Nat
  /\ Versions \subseteq Nat /\ Search!Unsaved \in Nat
  /\ \A v \in Versions : v <= Search!Unsaved
  BY SearchAssumptions DEF Search!BoundsAssumption, Versions, Search!Versions, Search!Unsaved

LEMMA SearchInit == Search!Init => Results
<1> SUFFICES ASSUME Search!Init PROVE Results
  OBVIOUS
<1>1. 0 \in Versions /\ MaxToken \in Nat
  BY TextOrder DEF Versions, Search!Versions
<1>2. Search!TypeOK
  <2>1. /\ stored \in Search!Contents /\ told \in Search!Contents
        /\ answer \in [Search!Tokens -> Search!Contents]
        /\ toldAt \in [Search!Tokens -> Search!Contents]
        /\ rows \in [Hits -> Search!Versions \cup {None, Search!Unsaved}]
    BY <1>1 DEF Search!Init, Search!Contents, Search!Empty, Versions
  <2>2. \A t \in Search!Tokens : request[t] # "none" <=> t <= token
    BY <1>1 DEF Search!Init, Search!Tokens
  <2>3. request \in [Search!Tokens -> {"none", "sent", "answered", "broken", "done"}]
    BY DEF Search!Init
  <2>4. shown \in 0..token /\ token \in 0..MaxToken /\ failed \in 0..token
    BY <1>1 DEF Search!Init
  <2>5. QED
    BY <2>1, <2>2, <2>3, <2>4 DEF Search!Init, Search!TypeOK
<1>3. \A id \in Hits : stored[id] = 0 /\ told[id] = 0 /\ \A t \in Tokens : toldAt[t][id] = 0
  BY DEF Search!Init, Tokens
<1>4. Covers(stored, told) /\ \A t \in Tokens : Covers(stored, toldAt[t])
  BY <1>3, TextOrder DEF Covers
<1>5. QED
  BY <1>2, <1>4 DEF Search!Init, Results, Search!SpinnerIsHonest, Ahead, Tokens, DeletionDone, EditDone

\* A request goes out: what the user was told so far is what it must respect.
LEMMA StartResults ==
  ASSUME Results, Search!Start, selected' \in {selected, None}
  PROVE  Results'
<1>1. /\ token < MaxToken /\ token' = token + 1
      /\ request' = [request EXCEPT ![token'] = "sent"]
      /\ toldAt' = [toldAt EXCEPT ![token'] = told]
      /\ searching' = TRUE
      /\ UNCHANGED <<stored, rows, shown, failed, answer, deletion, edit, told, popup>>
  BY DEF Search!Start, Search!NextToken, Search!screen
<1>2. /\ token' \in Tokens /\ token \in Nat /\ token' \in 0..MaxToken
  BY <1>1, TextOrder DEF Results, Search!TypeOK, Tokens, Search!Tokens
<1>3. Search!TypeOK'
  BY <1>1, <1>2, TextOrder DEF Results, Search!TypeOK, Tokens, Search!Tokens
<1>4. Search!SpinnerIsHonest'
  BY <1>1, <1>2 DEF Results, Search!TypeOK, Search!SpinnerIsHonest, Tokens
<1>5. \A t \in Tokens : /\ toldAt'[t] = IF t = token' THEN told ELSE toldAt[t]
                        /\ request'[t] = IF t = token' THEN "sent" ELSE request[t]
  BY <1>1, <1>2 DEF Results, Search!TypeOK, Tokens
<1>6. Ahead'
  <2>1. shown \in 0..token
    BY DEF Results, Search!TypeOK
  <2>2. shown > 0 => shown \in Tokens /\ shown # token'
    BY <2>1, <1>1, <1>2, TextOrder DEF Tokens, Search!Tokens
  <2>3. QED
    BY <2>2, <1>1, <1>5 DEF Results, Ahead, Tokens
<1>7. DeletionDone' /\ EditDone'
  BY <1>1, <1>5 DEF Results, DeletionDone, EditDone, Tokens
<1>8. QED
  BY <1>3, <1>4, <1>6, <1>7 DEF Results

\* The backend answers with what it holds at that moment, or with an error.
LEMMA AnswerResults ==
  ASSUME Results, NEW t \in Tokens, Search!Answer(t) \/ Search!Break(t)
  PROVE  Results'
<1>1. /\ request[t] = "sent"
      /\ \/ request' = [request EXCEPT ![t] = "answered"] /\ answer' = [answer EXCEPT ![t] = stored]
         \/ request' = [request EXCEPT ![t] = "broken"] /\ UNCHANGED answer
      /\ UNCHANGED <<stored, rows, shown, failed, token, searching, toldAt, selected,
                     popup, deletion, edit, told>>
  BY DEF Search!Answer, Search!Break, Search!screen
<1>2. \A u \in Tokens : /\ request'[u] = "none" <=> request[u] = "none"
                        /\ request'[u] = "done" <=> request[u] = "done"
  BY <1>1 DEF Results, Search!TypeOK, Tokens
<1>3. Search!TypeOK'
  BY <1>1, <1>2 DEF Results, Search!TypeOK, Tokens
<1>4. Search!SpinnerIsHonest'
  <2>1. token > 0 => token \in Tokens
    BY TextOrder DEF Results, Search!TypeOK, Tokens, Search!Tokens
  <2>2. QED
    BY <1>1, <1>2, <2>1 DEF Results, Search!SpinnerIsHonest
<1>5. Ahead'
  <2>1. ASSUME NEW u \in Tokens, request'[u] = "answered"
        PROVE  Covers(answer'[u], toldAt[u])
    BY <2>1, <1>1 DEF Results, Search!TypeOK, Ahead, Tokens
  <2>2. QED
    BY <2>1, <1>1 DEF Results, Ahead
<1>6. QED
  BY <1>1, <1>3, <1>4, <1>5 DEF Results, DeletionDone, EditDone

\* Only the latest request fills the grid, and with what it was answered.
LEMMA ResolveResults ==
  ASSUME Results, NEW t \in Tokens, Search!Resolve(t)
  PROVE  Results'
<1>1. /\ request[t] \in {"answered", "broken"}
      /\ request' = [request EXCEPT ![t] = "done"]
      /\ answer' = [answer EXCEPT ![t] = Search!Empty]
      /\ searching' = IF t = token THEN FALSE ELSE searching
      /\ UNCHANGED <<stored, token, toldAt, selected, popup, deletion, edit, told>>
  BY DEF Search!Resolve, Search!Settled, Search!StillSpinning
<1>2. \/ request[t] = "answered" /\ t = token /\ rows' = answer[t] /\ shown' = t /\ failed' = 0
      \/ t = token /\ failed' = t /\ UNCHANGED <<rows, shown>>
      \/ UNCHANGED <<rows, shown, failed>>
  BY DEF Search!Resolve, Search!Latest, Search!screen
<1>3. Search!Empty \in Search!Contents
  BY DEF Search!Empty, Search!Contents
<1>4. \A u \in Tokens : /\ request'[u] = IF u = t THEN "done" ELSE request[u]
                        /\ request'[u] = "none" <=> request[u] = "none"
  BY <1>1 DEF Results, Search!TypeOK, Tokens
<1>5. /\ rows' \in [Hits -> Search!Versions \cup {None, Search!Unsaved}]
      /\ shown' \in 0..token /\ failed' \in 0..token
  BY <1>2, TextOrder DEF Results, Search!TypeOK, Search!Contents, Tokens, Search!Tokens
<1>6. Search!TypeOK'
  BY <1>1, <1>3, <1>4, <1>5 DEF Results, Search!TypeOK, Tokens
<1>7. Search!SpinnerIsHonest'
  <2>1. token > 0 => token \in Tokens
    BY TextOrder DEF Results, Search!TypeOK, Tokens, Search!Tokens
  <2>2. QED
    BY <1>1, <1>4, <2>1, TextOrder DEF Results, Search!SpinnerIsHonest, Tokens, Search!Tokens
<1>8. Ahead'
  <2>1. shown' > 0 => Covers(rows', toldAt[shown'])
    BY <1>2, TextOrder DEF Results, Ahead
  <2>2. QED
    BY <2>1, <1>1, <1>4 DEF Results, Ahead
<1>9. QED
  BY <1>1, <1>6, <1>7, <1>8 DEF Results, DeletionDone, EditDone

\* What only opens, closes or selects.
LEMMA ClickResults ==
  ASSUME Results,
         \/ \E id \in Hits : Search!Select(id)
         \/ Search!Delete \/ Search!OpenPopup \/ Search!Cancel \/ Search!Change
  PROVE  Results'
<1>1. /\ selected' \in Hits \cup {None} /\ popup' \in Hits \cup {None}
      /\ \/ deletion' = deletion
         \/ deletion' \in [id: Hits, stage: {"sent"}]
      /\ \/ edit' = edit
         \/ edit' \in [id: Hits, stage: {"sent"}, version: {None}]
      /\ UNCHANGED <<stored, rows, shown, failed, token, request, answer, searching,
                     toldAt, told>>
  BY DEF Results, Search!TypeOK, Search!Select, Search!Delete, Search!OpenPopup,
     Search!Cancel, Search!Change, Search!Call, Search!CanAct, Search!screen, Search!requests
<1>2. Search!TypeOK'
  BY <1>1 DEF Results, Search!TypeOK
<1>3. QED
  BY <1>1, <1>2 DEF Results, Search!SpinnerIsHonest, Ahead, DeletionDone, EditDone

\* The backend deletes: whatever was ahead of the user stays so.
LEMMA DeleteExecutedResults ==
  ASSUME Results, Search!DeleteExecuted
  PROVE  Results'
<1>1. /\ deletion # None /\ deletion \in [id: Hits, stage: {"sent", "executed"}]
      /\ stored' = [stored EXCEPT ![deletion.id] = None]
      /\ deletion' = [deletion EXCEPT !.stage = "executed"]
      /\ UNCHANGED <<rows, shown, failed, token, request, answer, searching, toldAt,
                     selected, popup, edit, told>>
  BY DEF Results, Search!TypeOK, Search!DeleteExecuted, Search!screen, Search!requests
<1>2. /\ deletion' \in [id: Hits, stage: {"sent", "executed"}] /\ deletion'.id = deletion.id
      /\ stored' \in Search!Contents
      /\ \A id \in Hits : stored'[id] = IF id = deletion.id THEN None ELSE stored[id]
  BY <1>1 DEF Results, Search!TypeOK, Search!Contents
<1>3. Search!TypeOK'
  BY <1>1, <1>2 DEF Results, Search!TypeOK
<1>4. Ahead'
  BY <1>1, <1>2 DEF Results, Ahead, Covers
<1>5. DeletionDone'
  BY <1>1, <1>2 DEF DeletionDone
<1>6. EditDone'
  <2>1. edit # None => edit.id \in Hits
    BY DEF Results, Search!TypeOK
  <2>2. QED
    BY <2>1, <1>1, <1>2 DEF Results, EditDone
<1>7. QED
  BY <1>1, <1>3, <1>4, <1>5, <1>6 DEF Results, Search!SpinnerIsHonest

\* The user is told of the deletion, and it is true.
LEMMA DeleteDoneResults ==
  ASSUME Results, Search!DeleteDone
  PROVE  Results'
<1>1. /\ deletion # None /\ deletion.stage = "executed" /\ deletion.id \in Hits
      /\ rows' = [rows EXCEPT ![deletion.id] = None]
      /\ told' = [told EXCEPT ![deletion.id] = None]
      /\ selected' = None /\ failed' = 0 /\ deletion' = None
      /\ UNCHANGED <<stored, shown, token, request, answer, searching, toldAt, popup, edit>>
  BY DEF Results, Search!TypeOK, Search!DeleteDone, Search!DeleteAnswered, Search!requests
<1>2. /\ \A id \in Hits : /\ rows'[id] = IF id = deletion.id THEN None ELSE rows[id]
                          /\ told'[id] = IF id = deletion.id THEN None ELSE told[id]
      /\ told' \in Search!Contents
      /\ rows' \in [Hits -> Search!Versions \cup {None, Search!Unsaved}]
  BY <1>1 DEF Results, Search!TypeOK, Search!Contents
<1>3. Search!TypeOK'
  BY <1>1, <1>2 DEF Results, Search!TypeOK
<1>4. Ahead'
  <2>1. Covers(stored, told')
    BY <1>1, <1>2 DEF Results, Ahead, DeletionDone, Covers
  <2>2. shown > 0 => Covers(rows', toldAt[shown])
    BY <1>2 DEF Results, Ahead, Covers
  <2>3. QED
    BY <2>1, <2>2, <1>1 DEF Results, Ahead
<1>5. EditDone'
  <2>1. edit # None => edit.id \in Hits
    BY DEF Results, Search!TypeOK
  <2>2. QED
    BY <2>1, <1>1, <1>2 DEF Results, EditDone, NotAfter
<1>6. QED
  BY <1>1, <1>3, <1>4, <1>5 DEF Results, Search!SpinnerIsHonest, DeletionDone

\* The backend edits: the new version is the newest there is.
LEMMA ChangeExecutedResults ==
  ASSUME Results, Search!ChangeExecuted
  PROVE  Results'
<1> DEFINE id == edit.id
<1>1. /\ edit # None /\ stored[id] # MaxVersion
      /\ edit \in [id: Hits, stage: {"sent", "executed"}, version: Search!Versions \cup {None}]
      /\ UNCHANGED <<rows, shown, failed, token, request, answer, searching, toldAt,
                     selected, popup, deletion, told>>
      /\ id \in Hits /\ stored[id] \in Search!Versions \cup {None}
      /\ edit.stage = "sent"
  BY DEF Results, Search!TypeOK, Search!Contents, Search!ChangeExecuted, Search!screen, Search!requests
<1>2. CASE stored[id] = None
  <2>1. edit' = [edit EXCEPT !.stage = "executed"] /\ stored' = stored
    BY <1>2 DEF Search!ChangeExecuted
  <2>2. /\ edit' \in [id: Hits, stage: {"sent", "executed"}, version: Search!Versions \cup {None}]
        /\ edit'.id = id
    BY <1>1, <2>1
  <2>3. Search!TypeOK'
    BY <1>1, <2>1, <2>2 DEF Results, Search!TypeOK
  <2>4. EditDone'
    <3>1. edit'.version = edit.version
      BY <1>1, <2>1
    <3>2. edit.version = None
      BY <1>1 DEF Results, EditDone
    <3>3. QED
      BY <1>1, <2>1, <3>1, <3>2 DEF EditDone
  <2>5. QED
    BY <1>1, <2>1, <2>3, <2>4 DEF Results, Search!SpinnerIsHonest, Ahead, DeletionDone
<1>3. CASE stored[id] # None
  <2> DEFINE v == stored[id] + 1
  <2>1. /\ edit' = [edit EXCEPT !.stage = "executed", !.version = v]
        /\ stored' = [stored EXCEPT ![id] = v]
    BY <1>3 DEF Search!ChangeExecuted
  <2>2. stored[id] \in Nat /\ v \in Search!Versions /\ v \in Nat /\ v > stored[id]
    BY <1>1, <1>3, TextOrder DEF Search!Versions
  <2> HIDE DEF v
  <2>3. /\ edit' \in [id: Hits, stage: {"sent", "executed"}, version: Search!Versions \cup {None}]
        /\ edit'.id = id /\ edit'.version = v /\ edit'.stage = "executed"
    BY <1>1, <2>1, <2>2
  <2>4. /\ stored' \in Search!Contents
        /\ \A i \in Hits : stored'[i] = IF i = id THEN v ELSE stored[i]
    BY <1>1, <2>1, <2>2 DEF Results, Search!TypeOK, Search!Contents
  <2>5. Search!TypeOK'
    BY <1>1, <2>3, <2>4 DEF Results, Search!TypeOK
  <2>6. ASSUME NEW c \in Search!Contents, Covers(stored, c)
        PROVE  Covers(stored', c) /\ NotAfter(c, id, v)
    <3>1. c[id] # None /\ c[id] \in Nat /\ stored[id] >= c[id]
      BY <2>6, <1>1, <1>3, TextOrder DEF Covers, Search!Contents, Versions
    <3>2. QED
      BY <2>2, <2>4, <2>6, <3>1 DEF Covers, NotAfter
  <2>7. /\ told \in Search!Contents
        /\ \A t \in Tokens : toldAt[t] \in Search!Contents
    BY DEF Results, Search!TypeOK, Tokens
  <2>8. Ahead'
    BY <1>1, <2>6, <2>7 DEF Results, Ahead
  <2>9. EditDone'
    BY <1>1, <2>2, <2>3, <2>4, <2>6, <2>7 DEF Results, Ahead, EditDone
  <2>10. DeletionDone'
    <3>1. deletion # None => deletion.id \in Hits
      BY DEF Results, Search!TypeOK
    <3>2. QED
      BY <3>1, <1>1, <1>3, <2>4 DEF Results, DeletionDone
  <2>11. QED
    BY <1>1, <2>5, <2>8, <2>9, <2>10 DEF Results, Search!SpinnerIsHonest
<1>4. QED
  BY <1>2, <1>3

\* The row changes in place: to the newest version, or to a text that no
\* stored version is newer than.
LEMMA ChangeDoneResults ==
  ASSUME Results, Search!ChangeDone
  PROVE  Results'
<1> DEFINE id == edit.id
           v  == edit.version
           w  == IF v = None THEN Search!Unsaved ELSE v
<1>1. /\ edit # None /\ edit.stage = "executed" /\ id \in Hits /\ v \in Search!Versions \cup {None}
      /\ rows' = [rows EXCEPT ![id] = IF rows[id] = None THEN None ELSE w]
      /\ told' = IF v = None \/ told[id] = None THEN told ELSE [told EXCEPT ![id] = v]
      /\ popup' = None /\ failed' = 0 /\ edit' = None
      /\ UNCHANGED <<stored, shown, token, request, answer, searching, toldAt, selected, deletion>>
  BY DEF Results, Search!TypeOK, Search!ChangeDone, Search!requests
<1>2. w \in Search!Versions \cup {Search!Unsaved} /\ w \in Nat
  BY <1>1, TextOrder DEF Versions
<1>3. /\ rows' \in [Hits -> Search!Versions \cup {None, Search!Unsaved}]
      /\ \A i \in Hits : rows'[i] = IF i = id /\ rows[id] # None THEN w ELSE rows[i]
  BY <1>1, <1>2 DEF Results, Search!TypeOK
<1>4. /\ told' \in Search!Contents
      /\ \A i \in Hits : told'[i] = IF i = id /\ v # None /\ told[id] # None THEN v ELSE told[i]
  BY <1>1 DEF Results, Search!TypeOK, Search!Contents
<1>5. Search!TypeOK'
  BY <1>1, <1>3, <1>4 DEF Results, Search!TypeOK
<1>6. Covers(stored, told')
  BY <1>1, <1>4 DEF Results, Ahead, EditDone, Covers
<1>7. ASSUME NEW t \in Tokens, Covers(rows, toldAt[t])
      PROVE  Covers(rows', toldAt[t])
  <2>1. toldAt[t][id] \in Search!Versions \cup {None}
    BY <1>1 DEF Results, Search!TypeOK, Search!Contents, Tokens
  <2>2. rows[id] # None => toldAt[t][id] # None /\ w >= toldAt[t][id]
    BY <1>1, <1>2, <1>7, <2>1, TextOrder DEF Covers, Results, EditDone, NotAfter, Versions
  <2>3. QED
    BY <1>3, <1>7, <2>2 DEF Covers
<1>8. Ahead'
  <2>1. shown > 0 => shown \in Tokens
    BY TextOrder DEF Results, Search!TypeOK, Tokens, Search!Tokens
  <2>2. QED
    BY <1>1, <1>6, <1>7, <2>1 DEF Results, Ahead
<1>9. QED
  BY <1>1, <1>5, <1>8 DEF Results, Search!SpinnerIsHonest, DeletionDone, EditDone

\* A lost call or answer: the user is told nothing.
LEMMA CallFailsResults ==
  ASSUME Results, Search!CallFails
  PROVE  Results'
<1>1. /\ deletion' \in {None, deletion} /\ edit' \in {None, edit} /\ failed' = 0
      /\ UNCHANGED <<stored, rows, shown, token, request, answer, searching, toldAt,
                     selected, popup, told>>
  BY DEF Search!CallFails, Search!requests
<1>2. Search!TypeOK'
  BY <1>1 DEF Results, Search!TypeOK
<1>3. QED
  BY <1>1, <1>2 DEF Results, Search!SpinnerIsHonest, Ahead, DeletionDone, EditDone

LEMMA ResultsStutter == ASSUME Results, UNCHANGED results PROVE Results'
<1>1. Search!TypeOK'
  BY DEF results, Results, Search!TypeOK
<1>2. QED
  BY <1>1 DEF results, Results, Search!SpinnerIsHonest, Ahead, DeletionDone, EditDone

LEMMA SearchStep == ASSUME Results, Search!Next PROVE Results'
<1>1. ASSUME Search!Search \/ Search!FindSimilar \/ Search!LoadMore PROVE Results'
  BY <1>1, StartResults DEF Search!Search, Search!FindSimilar, Search!LoadMore
<1>2. QED
  BY <1>1, AnswerResults, ResolveResults, ClickResults, DeleteExecutedResults,
     DeleteDoneResults, ChangeExecutedResults, ChangeDoneResults, CallFailsResults
     DEF Search!Next, Tokens

\* The other pages leave the grid alone, and it starts empty.
LEMMA ResultsInit == Init => Results
  BY SearchInit DEF Init

LEMMA ResultsStep == Results /\ [Next]_vars => Results'
  BY SearchStep, ResultsStutter DEF Next, vars

\* The spinner, which hides the grid, is on exactly while the latest of any
\* number of requests is under way.
THEOREM SpinnerHonest == Spec => []SpinnerIsHonest
<1>1. Results => SpinnerIsHonest
  BY DEF Results, SpinnerIsHonest
<1>2. QED
  BY <1>1, ResultsInit, ResultsStep, PTL DEF Spec

\* The grid never shows what the user was told is gone or overwritten before
\* the request was sent, in whatever order requests, deletions and edits are
\* executed and answered, or fail.
THEOREM GridFollowsUser == Spec => []ResultsFollowTheUser
<1>1. Results => ResultsFollowTheUser
  BY DEF Results, Ahead, Covers, ResultsFollowTheUser, Search!ResultsFollowTheUser
<1>2. QED
  BY <1>1, ResultsInit, ResultsStep, PTL DEF Spec

\* Only the latest request commits its results or its failure.
THEOREM LatestCommits == Spec => LatestWins
<1> DEFINE Step == /\ shown' >= shown
                   /\ shown' # shown => shown' = token
                   /\ failed' \notin {0, failed} => failed' = token
<1>1. ASSUME Results, Search!Next PROVE Step
  <2>1. shown \in 0..token /\ failed \in 0..token /\ token \in Nat
    <3>1. shown \in 0..token /\ failed \in 0..token /\ token \in 0..MaxToken
      BY <1>1 DEF Results, Search!TypeOK
    <3>2. QED
      BY <3>1, TextOrder
  <2>2. ASSUME NEW t \in Tokens, Search!Resolve(t) PROVE Step
    BY <2>1, <2>2 DEF Search!Resolve, Search!Latest, Search!screen
  <2>3. CASE shown' = shown /\ failed' \in {0, failed}
    BY <2>1, <2>3
  <2>4. QED
    BY <1>1, <2>2, <2>3 DEF Search!Next, Search!Search, Search!FindSimilar, Search!LoadMore,
       Search!Start, Search!Answer, Search!Break, Search!Select, Search!Delete,
       Search!DeleteExecuted, Search!DeleteDone, Search!OpenPopup, Search!Cancel,
       Search!Change, Search!ChangeExecuted, Search!ChangeDone, Search!CallFails,
       Search!screen, Tokens
<1>2. Results /\ [Next]_vars => [Step]_Search!vars
  BY <1>1 DEF Next, vars, results, Search!vars
<1>3. QED
  BY <1>2, ResultsInit, ResultsStep, PTL DEF Spec, LatestWins, Search!LatestWins

-----------------------------------------------------------------------------
(* The cost page.                                                          *)

LEMMA CostsInit == ASSUME Init PROVE Costs
<1>1. Cost!Init
  BY DEF Init
<1>2. selection \in Cost!Selection
  BY <1>1 DEF Cost!Init
<1>3. Loading
  <2>1. /\ loads = {[n |-> 1, for |-> selection]} /\ started = 1 /\ answered = 0
        /\ misled = FALSE /\ lastGood = FALSE
    BY <1>1 DEF Cost!Init
  <2>2. Cost!PanelsFollowLatestLoad
    BY <2>1 DEF Cost!PanelsFollowLatestLoad, Cost!InOrder
  <2>3. ASSUME NEW l \in loads
        PROVE  /\ l.n \in 1..started
               /\ l.n = started => l = [n |-> started, for |-> selection] /\ ~lastGood
    <3>1. l = [n |-> 1, for |-> selection] /\ l.n = 1
      BY <2>1
    <3>2. ~lastGood /\ 1 \in 1..1
      BY <2>1
    <3>3. QED
      BY <2>1, <3>1, <3>2
  <2>4. started \in Nat /\ answered \in 0..started
    BY <2>1
  <2>5. misled \in BOOLEAN
    BY <2>1, Zenon
  <2>6. QED
    BY <1>2, <2>2, <2>3, <2>4, <2>5, Zenon DEF Loading
<1>4. QED
  BY <1>1, <1>3 DEF Cost!Init, Costs, Named, Names, Cost!SessionIsOfItsBot

\* A new selection is loaded at once, whatever else is under way.
LEMMA ChooseCosts ==
  ASSUME Costs, NEW new \in Cost!Selection, Cost!Choose(new),
         session' \in {session, None}
  PROVE  Costs'
<1>1. /\ selection' = new /\ viewing' = None
      /\ UNCHANGED <<data, reports, saving, fetching, answered, misled>>
  BY DEF Cost!Choose
<1>2. Loading'
  <2>1. CASE new = selection
    <3>1. UNCHANGED <<started, loads, unavailable, lastGood>>
      BY <2>1 DEF Cost!Choose, Cost!NeedsLoad
    <3>2. QED
      BY <1>1, <2>1, <3>1 DEF Costs, Loading, Cost!PanelsFollowLatestLoad, Cost!InOrder
  <2>2. CASE new # selection
    <3>1. /\ started' = started + 1 /\ lastGood' = FALSE
          /\ loads' = loads \cup {[n |-> started + 1, for |-> new]}
      BY <2>2 DEF Cost!Choose, Cost!NeedsLoad
    <3>2. started' \in Nat /\ answered' \in 0..started' /\ answered' # started'
      BY <1>1, <3>1 DEF Costs, Loading
    <3>3. ASSUME NEW l \in loads'
          PROVE  /\ l.n \in 1..started'
                 /\ l.n = started' => l = [n |-> started', for |-> selection'] /\ ~lastGood'
      BY <1>1, <3>1, <3>3 DEF Costs, Loading
    <3>4. QED
      BY <1>1, <3>2, <3>3 DEF Costs, Loading, Cost!PanelsFollowLatestLoad, Cost!InOrder
  <2>3. QED
    BY <2>1, <2>2
<1>3. Names' /\ (~misled => Named)' /\ Cost!SessionIsOfItsBot'
  BY <1>1 DEF Costs, Named, Names, Cost!SessionIsOfItsBot
<1>4. QED
  BY <1>2, <1>3 DEF Costs

\* An answer of the latest load brings the panels of the selection or none; any
\* other answer makes the one that came last not the latest's.
LEMMA LoadCosts ==
  ASSUME Costs, NEW l \in loads, Cost!Loaded(l) \/ Cost!LoadFailed(l)
  PROVE  Costs'
<1>1. /\ loads' = loads \ {l} /\ answered' = l.n
      /\ UNCHANGED <<selection, started, viewing, reports, saving, fetching, misled>>
      /\ session' \in {session, None}
      /\ \/ data' = l.for /\ lastGood' = (lastGood \/ l.n = started)
         \/ data' = None /\ unavailable' = TRUE /\ lastGood' = lastGood
  BY DEF Cost!Loaded, Cost!LoadFailed, Cost!ClearedPanels
<1>2. /\ selection \in Cost!Selection /\ started \in Nat /\ misled \in BOOLEAN
      /\ \A k \in loads : /\ k.n \in 1..started
                          /\ k.n = started => k = [n |-> started, for |-> selection] /\ ~lastGood
  BY DEF Costs, Loading
<1>3. answered' \in 0..started'
  BY <1>1, <1>2
<1>4. ASSUME NEW k \in loads'
      PROVE  /\ k.n \in 1..started'
             /\ k.n = started' => k = [n |-> started', for |-> selection'] /\ ~lastGood'
  <2>1. k \in loads /\ k # l
    BY <1>1, <1>4
  <2>2. k.n = started => l.n # started
    BY <1>2, <2>1
  <2>3. k.n = started => ~lastGood'
    BY <1>1, <1>2, <2>1, <2>2
  <2>4. QED
    BY <1>1, <1>2, <2>1, <2>3
<1>5. Cost!PanelsFollowLatestLoad'
  <2>1. SUFFICES ASSUME l.n = started
                 PROVE  /\ data' \in {selection', None}
                        /\ data' = None => unavailable' /\ ~lastGood'
    BY <1>1 DEF Cost!PanelsFollowLatestLoad, Cost!InOrder
  <2>2. l.for = selection /\ ~lastGood
    BY <1>2, <2>1
  <2>3. selection # None
    BY <1>2, CostAssumptions DEF Cost!NoneAssumption
  <2>4. QED
    BY <1>1, <2>2, <2>3
<1>6. Loading'
  BY <1>1, <1>2, <1>3, <1>4, <1>5 DEF Loading
<1>7. Names' /\ (~misled => Named)' /\ Cost!SessionIsOfItsBot'
  BY <1>1 DEF Costs, Named, Names, Cost!SessionIsOfItsBot
<1>8. QED
  BY <1>6, <1>7 DEF Costs

\* Saving takes the name and the panels at one moment, when they agree unless
\* the panels are of an older load.
LEMMA ReportCosts ==
  ASSUME Costs,
         \/ Cost!SaveReport \/ Cost!SaveDone \/ Cost!ReportFetched \/ Cost!BackToLive
         \/ \E name \in Cost!Selection : Cost!LoadReport(name)
  PROVE  Costs'
<1>1. /\ UNCHANGED <<selection, data, unavailable, loads, started, lastGood, answered, session>>
      /\ misled' \in BOOLEAN
      /\ ~misled' => ~misled
  <2>1. misled \in BOOLEAN
    BY DEF Costs, Loading
  <2>2. CASE Cost!SaveReport
    BY <2>1, <2>2 DEF Cost!SaveReport, Cost!live
  <2>3. CASE ~Cost!SaveReport
    BY <2>1, <2>3 DEF Cost!SaveDone, Cost!ReportFetched, Cost!BackToLive, Cost!LoadReport, Cost!live
  <2>4. QED
    BY <2>2, <2>3
<1>2. Names' /\ (Named => Named' \/ misled')
  <2>1. ASSUME Cost!SaveReport PROVE Names' /\ (Named => Named' \/ misled')
    <3>1. /\ saving' = [name |-> selection, payload |-> data] /\ data # None
          /\ selection \in Cost!Selection
          /\ UNCHANGED <<viewing, reports, fetching>>
      BY <2>1 DEF Cost!SaveReport, Cost!CanSave, Costs, Loading
    <3>2. ~misled' => data = selection
      BY <2>1, <3>1 DEF Cost!SaveReport, Costs, Loading, Cost!PanelsFollowLatestLoad
    <3>3. QED
      BY <1>1, <3>1, <3>2 DEF Costs, Named, Names
  <2>2. ASSUME Cost!SaveDone PROVE Names' /\ (Named => Named' \/ misled')
    <3>1. /\ saving # None /\ saving.name \in Cost!Selection
          /\ \/ reports' = [reports EXCEPT ![saving.name] = saving.payload]
             \/ reports' = reports
          /\ saving' = None /\ UNCHANGED <<viewing, fetching>>
      BY <2>2 DEF Cost!SaveDone, Cost!NameOfClick, Costs, Names
    <3>2. DOMAIN reports' = Cost!Selection
      BY <3>1 DEF Costs, Names
    <3>3. ASSUME Named
          PROVE  /\ reports' \in [Cost!Selection -> Cost!Selection \cup {None}]
                 /\ \A name \in Cost!Selection : reports'[name] \in {name, None}
      BY <3>1, <3>3 DEF Named
    <3>4. QED
      BY <1>1, <3>1, <3>2, <3>3 DEF Costs, Named, Names
  <2>3. ASSUME Cost!ReportFetched PROVE Names' /\ (Named => Named' \/ misled')
    <3>1. /\ fetching # None /\ fetching' = None /\ UNCHANGED <<reports, saving>>
          /\ \/ viewing' = [name |-> fetching, payload |-> reports[fetching]]
             \/ viewing' = viewing
      BY <2>3 DEF Cost!ReportFetched
    <3>2. QED
      BY <1>1, <3>1 DEF Costs, Named, Names
  <2>4. CASE Cost!BackToLive
    BY <1>1, <2>4 DEF Cost!BackToLive, Costs, Named, Names
  <2>5. ASSUME NEW name \in Cost!Selection, Cost!LoadReport(name)
        PROVE  Names' /\ (Named => Named' \/ misled')
    BY <1>1, <2>5 DEF Cost!LoadReport, Costs, Named, Names
  <2>6. QED
    BY <2>1, <2>2, <2>3, <2>4, <2>5
<1>3. Loading'
  BY <1>1 DEF Costs, Loading, Cost!PanelsFollowLatestLoad, Cost!InOrder
<1>4. Cost!SessionIsOfItsBot'
  BY <1>1 DEF Costs, Cost!SessionIsOfItsBot
<1>5. ~misled' => Named'
  <2>1. ~misled' => Named
    BY <1>1 DEF Costs
  <2>2. QED
    BY <1>2, <2>1
<1>6. QED
  BY <1>2, <1>3, <1>4, <1>5 DEF Costs

\* A click on a session: the tables that are shown are those of the selected
\* bot, of the report's bot, of all and say whose the row is, or of an older
\* load.
LEMMA SessionCosts ==
  ASSUME Costs, Cost!CloseSession \/ \E bot \in Bots : Cost!ClickSession(bot)
  PROVE  Costs'
<1>1. /\ UNCHANGED <<selection, data, unavailable, loads, started, lastGood, answered, viewing,
                    reports, saving, fetching>>
      /\ misled' \in BOOLEAN
      /\ ~misled' => ~misled
  BY DEF Cost!CloseSession, Cost!ClickSession, Cost!live, Costs, Loading
<1>2. Cost!SessionIsOfItsBot'
  <2>1. CASE Cost!CloseSession
    BY <2>1 DEF Cost!CloseSession, Cost!SessionIsOfItsBot
  <2>2. ASSUME NEW bot \in Bots, Cost!ClickSession(bot), ~misled'
        PROVE  session'.asked = session'.of
    <3>1. /\ Cost!Display # None /\ Cost!Display.profile \in {All, bot}
          /\ session' = [of |-> bot,
                         asked |-> IF Cost!Display.profile = All THEN bot ELSE Cost!TablesProfile]
          /\ viewing = None => Cost!InOrder
      BY <2>2 DEF Cost!ClickSession, Cost!TablesShown
    <3>2. Cost!Display.profile = Cost!TablesProfile
      BY <3>1 DEF Cost!Display, Cost!TablesProfile, Costs, Loading, Cost!PanelsFollowLatestLoad
    <3>3. QED
      BY <3>1, <3>2
  <2>3. QED
    BY <2>1, <2>2 DEF Cost!SessionIsOfItsBot
<1>3. Loading'
  BY <1>1 DEF Costs, Loading, Cost!PanelsFollowLatestLoad, Cost!InOrder
<1>4. Names' /\ (Named => Named')
  BY <1>1 DEF Costs, Named, Names
<1>5. ~misled' => Named'
  BY <1>1, <1>4 DEF Costs
<1>6. QED
  BY <1>2, <1>3, <1>4, <1>5 DEF Costs

LEMMA CostsStep == Costs /\ [Next]_vars => Costs'
<1> SUFFICES ASSUME Costs, [Next]_vars PROVE Costs'
  OBVIOUS
<1>1. CASE UNCHANGED costs
  BY <1>1 DEF costs, Costs, Loading, Named, Names, Cost!PanelsFollowLatestLoad,
     Cost!InOrder, Cost!SessionIsOfItsBot
<1>2. CASE Cost!Next
  <2>1. ASSUME NEW days \in Ranges, Cost!SelectRange(days) PROVE Costs'
    <3>1. [selection EXCEPT !.days = days] \in Cost!Selection
      BY DEF Costs, Loading, Cost!Selection
    <3>2. QED
      BY <2>1, <3>1, ChooseCosts DEF Cost!SelectRange
  <2>2. ASSUME NEW profile \in Bots \cup {All}, Cost!ChangeProfile(profile) PROVE Costs'
    <3>1. [selection EXCEPT !.profile = profile] \in Cost!Selection
      BY DEF Costs, Loading, Cost!Selection
    <3>2. QED
      BY <2>2, <3>1, ChooseCosts DEF Cost!ChangeProfile
  <2>3. QED
    BY <1>2, <2>1, <2>2, LoadCosts, ReportCosts, SessionCosts DEF Cost!Next
<1>3. QED
  BY <1>1, <1>2 DEF Next, vars

\* However many loads are under way at once, and in whatever order they are
\* answered or fail: once the answer that came last is the latest load's, the
\* panels are those of the selection, or its load failed and the page says so.
THEOREM PanelsFollow == Spec => []PanelsFollowLatestLoad
<1>1. Costs => PanelsFollowLatestLoad
  BY DEF Costs, Loading, PanelsFollowLatestLoad
<1>2. QED
  BY <1>1, CostsInit, CostsStep, PTL DEF Spec

\* The payload stored under a report's name is of the name's range and bot,
\* unless panels of an older load were saved.
THEOREM ReportsAreNamed == Spec => []ReportMatchesName
<1>1. Costs => ReportMatchesName
  BY DEF Costs, Named, ReportMatchesName, Cost!ReportMatchesName
<1>2. QED
  BY <1>1, CostsInit, CostsStep, PTL DEF Spec

\* The drill-down asks the bot of the clicked session, in a report as well,
\* unless panels of an older load were clicked on.
THEOREM SessionsAskTheirBot == Spec => []SessionIsOfItsBot
<1>1. Costs => SessionIsOfItsBot
  BY DEF Costs, SessionIsOfItsBot
<1>2. QED
  BY <1>1, CostsInit, CostsStep, PTL DEF Spec

-----------------------------------------------------------------------------
(* The grid of external costs.  What is proved of ExternalCosts holds of   *)
(* the page; its definitions come by two instances and are shown to agree. *)

External == INSTANCE ExternalCostsProofs WITH shown <- ownRate

LEMMA SameCount == ASSUME NEW S PROVE Grid!Cardinality(S) = External!Cardinality(S)
  BY DEF Grid!Cardinality, External!Cardinality

LEMMA SameLoop ==
  ASSUME NEW start, NEW payload
  PROVE  Grid!SaveEach(start, payload) = External!SaveEach(start, payload)
  BY DEF Grid!SaveEach, Grid!SaveRow, Grid!InsertRow, Grid!UpdateRow,
         Grid!ClearOthers, Grid!Fields,
         External!SaveEach, External!SaveRow, External!InsertRow, External!UpdateRow,
         External!ClearOthers, External!Fields

LEMMA SamePut == ASSUME NEW w PROVE Grid!Put(w) <=> External!Put(w)
  BY SameCount, SameLoop
  DEF Grid!Put, Grid!SaveRows, Grid!Validated, Grid!NewRows, Grid!Goto,
      External!Put, External!SaveRows, External!Validated, External!NewRows,
      External!Goto

LEMMA SameEdit == ASSUME NEW w, NEW i PROVE Grid!Edit(w, i) <=> External!Edit(w, i)
  BY DEF Grid!Edit, Grid!TypeAmount, Grid!PassThrough, Grid!EditField,
         Grid!ToggleFlag, Grid!Patch, Grid!SetAmount, Grid!Shown, Grid!db, Grid!call,
         External!Edit, External!TypeAmount, External!PassThrough,
         External!EditField, External!ToggleFlag, External!Patch,
         External!SetAmount, External!Shown, External!db, External!call

LEMMA SameRest ==
  ASSUME NEW w
  PROVE  /\ Grid!AddRow(w) <=> External!AddRow(w)
         /\ Grid!Load(w) <=> External!Load(w)
         /\ Grid!Save(w) <=> External!Save(w)
         /\ Grid!CallFails(w) <=> External!CallFails(w)
         /\ Grid!DeleteRow(w) <=> External!DeleteRow(w)
         /\ \A i : Grid!Delete(w, i) <=> External!Delete(w, i)
         /\ \A r : Grid!SetRate(w, r) <=> External!SetRate(w, r)
<1>1. Grid!LoadedRows = External!LoadedRows
  BY SameCount DEF Grid!LoadedRows, External!LoadedRows
<1>2. Grid!AddRow(w) <=> External!AddRow(w)
  BY DEF Grid!AddRow, Grid!BlankRow, Grid!db, Grid!call,
         External!AddRow, External!BlankRow, External!db, External!call
<1>3. Grid!Load(w) <=> External!Load(w)
  BY <1>1 DEF Grid!Load, Grid!Goto, Grid!db, External!Load, External!Goto, External!db
<1>4. /\ Grid!Save(w) <=> External!Save(w)
      /\ Grid!CallFails(w) <=> External!CallFails(w)
  BY DEF Grid!Save, Grid!CallFails, Grid!Goto, Grid!db,
         External!Save, External!CallFails, External!Goto, External!db
<1>5. /\ Grid!DeleteRow(w) <=> External!DeleteRow(w)
      /\ \A r : Grid!SetRate(w, r) <=> External!SetRate(w, r)
  BY DEF Grid!DeleteRow, Grid!SetRate, Grid!Goto,
         External!DeleteRow, External!SetRate, External!Goto
<1>6. ASSUME NEW i PROVE Grid!Delete(w, i) <=> External!Delete(w, i)
  BY DEF Grid!Delete, Grid!RemoveAt, Grid!Goto, Grid!db,
         External!Delete, External!RemoveAt, External!Goto, External!db
<1>7. QED
  BY <1>2, <1>3, <1>4, <1>5, <1>6

LEMMA SameNext == Grid!Next <=> External!Next
  BY SamePut, SameEdit, SameRest DEF Grid!Next, External!Next

\* The grid's step, whichever page is on display.
LEMMA GridStep ==
  ASSUME External!IInv, [Next]_vars
  PROVE  External!IInv' /\ [External!Wholeness]_Grid!vars
<1>1. External!NumbersAssumption
  BY GridAssumptions DEF Grid!NumbersAssumption, External!NumbersAssumption
<1>2. [External!Next]_External!vars
  BY SameNext DEF Next, vars, external, External!vars
<1>3. QED
  BY <1>1, <1>2, External!NextSound

\* A PUT of the cost grid takes over the whole of its batch or nothing of it,
\* for any number of windows, rows, amounts and rates, and with entries that the
\* backend refuses.
THEOREM BatchesAreWhole == Spec => BatchIsWhole
<1>1. Init => External!IInv
  <2>1. Grid!Init => External!Init
    BY DEF Grid!Init, External!Init
  <2>2. External!NumbersAssumption
    BY GridAssumptions DEF Grid!NumbersAssumption, External!NumbersAssumption
  <2>3. QED
    BY <2>1, <2>2, External!InitSound DEF Init
<1>2. External!IInv /\ [Next]_vars => External!IInv' /\ [External!Wholeness]_Grid!vars
  BY GridStep
<1>3. External!Wholeness <=>
        \A w \in Windows :
          phase[w] = "put" /\ phase'[w] # "put" /\ <<table, lastId>> # <<table', lastId'>>
            => /\ \A i \in DOMAIN batch[w], s \in table' :
                    batch[w][i].id = s.id => batch[w][i].amount = s.amount
               /\ lastId' - lastId = Grid!Cardinality(Grid!NewRows(batch[w]))
  BY SameCount DEF External!Wholeness, External!TakenWhole, External!NewRows, Grid!NewRows
<1>4. QED
  BY <1>1, <1>2, <1>3, PTL DEF Spec, BatchIsWhole, Grid!BatchIsWhole
=============================================================================
