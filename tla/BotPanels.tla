------------------------------ MODULE BotPanels ------------------------------
(***************************************************************************)
(* The two panels of the cost page that show no money: how large the       *)
(* system prompts are (prompt_budget) and which tools are called           *)
(* (top_tools), for one bot and, by way of cost_merge.py, for all.  Both   *)
(* are about the window: `recent` sessions, and the tool calls in it.      *)
(***************************************************************************)
EXTENDS Pooling, Functions

CONSTANTS
  Bots, Sessions, Platforms, Tools,
  Lengths,    \* the lengths of system prompts
  ListLength, \* rows of a tool list (15 in the code)
  MaxEvents   \* bound: sessions and tool calls of all bots

PanelsAssumption ==
  /\ ListLength \in Nat \ {0} /\ Lengths \subseteq Nat
  /\ IsFiniteSet(Bots) /\ IsFiniteSet(Sessions) /\ IsFiniteSet(Tools)
  /\ None \notin Nat \X Nat

VARIABLES
  sessions, \* sessions[b][s]: [platform, prompt, recent], or None
  calls,    \* calls[b][t]: messages of b that name tool t
  readable  \* the bots whose state.db a snapshot can be taken of

vars == <<sessions, calls, readable>>

Init ==
  /\ sessions = [b \in Bots |-> [s \in Sessions |-> None]]
  /\ calls = [b \in Bots |-> [t \in Tools |-> 0]]
  /\ readable = Bots

-----------------------------------------------------------------------------
\* prompt_budget: sessions with a system prompt and a usage row in the window
Prompted(b) ==
  {<<b, s>> : s \in {x \in Sessions : /\ sessions[b][x] # None
                                      /\ sessions[b][x].prompt # None
                                      /\ sessions[b][x].recent}}

Session(k) == sessions[k[1]][k[2]]

Budget(keys) ==
  [p \in {Session(k).platform : k \in keys} |->
     LET of == {k \in keys : Session(k).platform = p}
     IN  [sessions |-> Cardinality(of),
          avg |-> <<AddedUp([k \in of |-> Session(k).prompt]), Cardinality(of)>>,
          max |-> Max({Session(k).prompt : k \in of})]]

\* _merge_prompt_budget
MergedBudget ==
  LET of == [b \in readable |-> Budget(Prompted(b))]
      with(p) == {b \in readable : p \in DOMAIN of[b]}
  IN  [p \in UNION {DOMAIN of[b] : b \in readable} |->
         [sessions |-> AddedUp([b \in with(p) |-> of[b][p].sessions]),
          avg |-> WeightedMean({[bot |-> b, value |-> of[b][p].avg,
                                 weight |-> of[b][p].sessions] : b \in with(p)}),
          max |-> Max({of[b][p].max : b \in with(p)})]]

\* top_tools: GROUP BY tool_name has a row for a tool that was called
ToolLists(b) ==
  TopLists(Restrict(calls[b], {t \in Tools : calls[b][t] > 0}), ListLength)

\* _merge_tools: lists[b] is what top_tools returned for b
Counted(lists, t) ==
  AddedUp([b \in {c \in readable : t \in lists[c]} |-> calls[b][t]])

\* and the list is cut again
MergedLists(lists) ==
  TopLists([t \in UNION {lists[b] : b \in readable} |-> Counted(lists, t)], ListLength)

-----------------------------------------------------------------------------
(* Hermes, outside this repository.                                        *)

Events ==
  AddedUp([b \in Bots |-> AddedUp(calls[b])])
    + Cardinality({k \in Bots \X Sessions : Session(k) # None})

Open(b, s, platform, prompt) ==
  /\ Events < MaxEvents /\ sessions[b][s] = None
  /\ sessions' = [sessions EXCEPT ![b][s] =
                    [platform |-> platform, prompt |-> prompt, recent |-> TRUE]]
  /\ UNCHANGED <<calls, readable>>

Age(b, s) ==
  /\ sessions[b][s] # None /\ sessions[b][s].recent
  /\ sessions' = [sessions EXCEPT ![b][s].recent = FALSE]
  /\ UNCHANGED <<calls, readable>>

UseTool(b, t) ==
  /\ Events < MaxEvents
  /\ calls' = [calls EXCEPT ![b][t] = @ + 1]
  /\ UNCHANGED <<sessions, readable>>

\* A snapshot of the database fails, or works again.
Flip(b) ==
  /\ readable' = IF b \in readable THEN readable \ {b} ELSE readable \cup {b}
  /\ UNCHANGED <<sessions, calls>>

Next ==
  \E b \in Bots :
    \/ Flip(b)
    \/ \E t \in Tools : UseTool(b, t)
    \/ \E s \in Sessions :
         \/ Age(b, s)
         \/ \E p \in Platforms, n \in Lengths \cup {None} : Open(b, s, p, n)

Spec == Init /\ [][Next]_vars

-----------------------------------------------------------------------------
\* The panels of "all" are those of one database of the readable bots.  The
\* prompt sizes are so exactly, averages included.  A tool's count is never too
\* high, and short by no more than what may stand below the end of the bots'
\* lists; and the list puts no tool before one that is used more than that more.
PanelsAreThePool ==
  /\ LET pooled == Budget(UNION {Prompted(b) : b \in readable})
     IN  /\ DOMAIN MergedBudget = DOMAIN pooled
         /\ \A p \in DOMAIN pooled :
              /\ MergedBudget[p].sessions = pooled[p].sessions
              /\ MergedBudget[p].max = pooled[p].max
              /\ Same(MergedBudget[p].avg, pooled[p].avg)
  /\ \A lists \in [readable -> SUBSET Tools] :
       (\A b \in readable : lists[b] \in ToolLists(b)) =>
         LET truth(t) == AddedUp([b \in readable |-> calls[b][t]])
             cut(t)   == {b \in readable : t \notin lists[b] /\ Cardinality(lists[b]) = ListLength}
             short(t) == AddedUp([b \in cut(t) |-> Min({calls[b][x] : x \in lists[b]})])
         IN  /\ \A t \in Tools : /\ Counted(lists, t) <= truth(t)
                                 /\ truth(t) <= Counted(lists, t) + short(t)
             /\ \A top \in MergedLists(lists) : \A t \in top, r \in Tools \ top :
                  truth(r) <= truth(t) + short(r)

=============================================================================
