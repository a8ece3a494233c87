---------------------------- MODULE ExternalCosts ----------------------------
(***************************************************************************)
(* The external cost grid: the spreadsheet of the GUI, open in one or more *)
(* browser windows, over the external_costs and fx_rate tables of gui.db.  *)
(* Each window edits a copy of the rows and PUTs the whole copy; the       *)
(* buttons are disabled while a call is under way, the input boxes are     *)
(* not.  A handler of the backend is one SQLite transaction and one step.  *)
(*                                                                         *)
(* Of a row's fields the model keeps the amount, the currency it counts    *)
(* in, the flag "compare to Hermes estimate", and whether some field would *)
(* be refused by _validate ("bad").  Rows are shown in the order of ids.   *)
(***************************************************************************)
EXTENDS Integers, SequencesExt

CONSTANTS
  Windows,
  Currencies, \* the money boxes the user goes through, "USD" and "EUR"
  Amounts,    \* what a user types into a money box (None: empties it)
  Mistakes,   \* may a user enter what _validate refuses?
  Rates,      \* USD -> EUR rates that the ECB or the user may come up with
  MaxId,      \* bound: rows ever inserted
  MaxRows,    \* bound: rows a grid holds
  MaxAmount,  \* bound: the largest amount a conversion may lead to
  None

ASSUME NumbersAssumption ==
  /\ "USD" \in Currencies /\ Currencies \subseteq {"USD", "EUR"}
  /\ Amounts \subseteq 0..MaxAmount \cup {None} /\ Rates \subseteq Nat \ {0}
  /\ Mistakes \in BOOLEAN
  /\ MaxId \in Nat /\ MaxRows \in Nat /\ MaxAmount \in Nat
  /\ None \notin Nat

VARIABLES
  table,   \* external_costs: a set of rows
  lastId,  \* the AUTOINCREMENT counter
  rate,    \* fx_rate, or None
  grid,    \* grid[w]: the rows on w's screen, unsaved edits included
  dirty,   \* dirty[w]: is w's Save button enabled?
  shown,   \* shown[w]: the rate w converts with, or None
  phase,   \* phase[w]: the call w is waiting for
  batch,   \* batch[w]: the rows of w's PUT
  target   \* target[w]: the id of w's DELETE

db   == <<table, lastId, rate>>
call == <<phase, batch, target>>
vars == <<table, lastId, rate, grid, dirty, shown, phase, batch, target>>

Row == [id: 1..MaxId, amount: 0..MaxAmount \cup {None},
        currency: Currencies, flag: BOOLEAN, bad: {FALSE}]
GridRow == [id: 1..MaxId \cup {None}, amount: 0..MaxAmount \cup {None},
            currency: Currencies, flag: BOOLEAN, bad: BOOLEAN]

Init ==
  /\ table = {} /\ lastId = 0 /\ rate = None
  /\ grid   = [w \in Windows |-> <<>>]
  /\ dirty  = [w \in Windows |-> FALSE]
  /\ shown  = [w \in Windows |-> None]
  /\ phase  = [w \in Windows |-> "load"]
  /\ batch  = [w \in Windows |-> <<>>]
  /\ target = [w \in Windows |-> None]

-----------------------------------------------------------------------------
(* external_costs_store                                                    *)

Fields(row, id) ==
  [id |-> id, amount |-> row.amount, currency |-> row.currency,
   flag |-> row.flag, bad |-> row.bad]

\* mutated form: only the rows that come before it lose the flag
ClearEarlier(rows, id) ==
  {IF r.id >= id THEN r ELSE [r EXCEPT !.flag = FALSE] : r \in rows}

\* UPDATE external_costs SET compare_to_estimate = 0 WHERE id != row_id
ClearOthers(rows, id) ==
  {IF r.id = id THEN r ELSE [r EXCEPT !.flag = FALSE] : r \in rows}

InsertRow(state, row) ==
  [rows |-> state.rows \cup {Fields(row, state.last + 1)},
   last |-> state.last + 1, id |-> state.last + 1]

\* An UPDATE whose row another window has deleted changes nothing.
UpdateRow(state, row) ==
  [rows |-> {IF r.id = row.id THEN Fields(row, r.id) ELSE r : r \in state.rows},
   last |-> state.last, id |-> row.id]

\* One turn of save_rows' loop: the flag is settled inside it, so of several
\* flagged rows the last one keeps the flag.
SaveRow(state, row) ==
  LET written == IF row.id = None THEN InsertRow(state, row)
                                  ELSE UpdateRow(state, row)
  IN  IF row.flag
        THEN [written EXCEPT !.rows = ClearOthers(@, written.id)]
        ELSE written

\* the validation that comes before the first write
Validated(rows) == \A i \in DOMAIN rows : ~rows[i].bad

\* the loop over the rows of a payload
SaveEach(start, rows) ==
  LET after[i \in 0..Len(rows)] ==
        IF i = 0 THEN start ELSE SaveRow(after[i - 1], rows[i])
  IN  after[Len(rows)]

\* mutated form: the payload replaces the table
WholeTable(rows) ==
  LET end == SaveEach([rows |-> {}, last |-> lastId, id |-> None],
                      [i \in DOMAIN rows |-> [rows[i] EXCEPT !.id = None]])
  IN  table' = end.rows /\ lastId' = end.last

SaveRows(rows) ==
  LET end == SaveEach([rows |-> table, last |-> lastId, id |-> None], rows)
  IN  table' = end.rows /\ lastId' = end.last

-----------------------------------------------------------------------------
(* The grid's money boxes                                                  *)

\* One amount is stored, the other side is derived; no rate, nothing to show.
Shown(row, currency, r) ==
  IF row.currency = currency \/ row.amount = None THEN row.amount
  ELSE IF r = None THEN None
  ELSE IF currency = "EUR" THEN row.amount * r ELSE row.amount \div r

Patch(w, i, row) ==
  /\ grid'  = [grid EXCEPT ![w][i] = row]
  /\ dirty' = [dirty EXCEPT ![w] = TRUE]
  /\ UNCHANGED <<db, shown, call>>

SetAmount(row, currency, amount) ==
  [row EXCEPT !.amount = amount, !.currency = currency]

TypeAmount(w, i, currency, amount) ==
  Patch(w, i, SetAmount(grid[w][i], currency, amount))

\* Leaving a box commits its text, also when nothing was typed into it.
PassThrough(w, i, currency) ==
  LET text == Shown(grid[w][i], currency, shown[w])
  IN  /\ text \in 0..MaxAmount \cup {None}
      /\ Patch(w, i, SetAmount(grid[w][i], currency, text))

EditField(w, i) == Mistakes /\ Patch(w, i, [grid[w][i] EXCEPT !.bad = ~@])
ToggleFlag(w, i) == Patch(w, i, [grid[w][i] EXCEPT !.flag = ~@])

BlankRow == [id |-> None, amount |-> None, currency |-> "USD", flag |-> FALSE,
             bad |-> FALSE]

AddRow(w) ==
  /\ Len(grid[w]) < MaxRows
  /\ grid'  = [grid EXCEPT ![w] = Append(@, BlankRow)]
  /\ dirty' = [dirty EXCEPT ![w] = TRUE]
  /\ UNCHANGED <<db, shown, call>>

-----------------------------------------------------------------------------
(* Calls: a phase is entered with the click and left with the answer.      *)

Goto(w, from, to) == phase[w] = from /\ phase' = [phase EXCEPT ![w] = to]

\* list_rows
LoadedRows ==
  CHOOSE rows \in [1..Cardinality(table) -> table] :
    \A i, j \in DOMAIN rows : i < j => rows[i].id < rows[j].id

\* load(): whatever was typed while the call before it ran is overwritten
Load(w) ==
  /\ Goto(w, "load", "idle")
  /\ grid'  = [grid EXCEPT ![w] = LoadedRows]
  /\ shown' = [shown EXCEPT ![w] = rate]
  /\ dirty' = [dirty EXCEPT ![w] = FALSE]
  /\ UNCHANGED <<db, batch, target>>

Save(w) ==
  /\ dirty[w]
  /\ Goto(w, "idle", "put")
  /\ batch' = [batch EXCEPT ![w] = grid[w]]
  /\ UNCHANGED <<db, grid, dirty, shown, target>>

\* mutated form: a row that would be refused is skipped
PutValidRows(w) ==
  /\ SaveRows(SelectSeq(batch[w], LAMBDA r : ~r.bad))
  /\ Goto(w, "put", "load")
  /\ batch' = [batch EXCEPT ![w] = <<>>]
  /\ UNCHANGED <<rate, grid, dirty, shown, target>>

NewRows(rows) == {i \in DOMAIN rows : rows[i].id = None}

\* PUT /cost/external; a refused batch is a 400 and nothing is reloaded.
Put(w) ==
  /\ \/ /\ Validated(batch[w])
        /\ lastId + Cardinality(NewRows(batch[w])) <= MaxId
        /\ SaveRows(batch[w])
        /\ \/ Goto(w, "put", "load")
           \/ Goto(w, "put", "idle")  \* the answer is lost
     \/ /\ ~Validated(batch[w])
        /\ Goto(w, "put", "idle")
        /\ UNCHANGED <<table, lastId>>
  /\ batch' = [batch EXCEPT ![w] = <<>>]
  /\ UNCHANGED <<rate, grid, dirty, shown, target>>

\* The row goes from the screen if it was never saved, else by way of the server.
Delete(w, i) ==
  /\ phase[w] = "idle"
  /\ \/ /\ grid[w][i].id = None
        /\ grid' = [grid EXCEPT ![w] = RemoveAt(@, i)]
        /\ UNCHANGED <<phase, target>>
     \/ /\ grid[w][i].id # None
        /\ Goto(w, "idle", "delete")
        /\ target' = [target EXCEPT ![w] = grid[w][i].id]
        /\ UNCHANGED grid
  /\ UNCHANGED <<db, dirty, shown, batch>>

DeleteRow(w) ==
  /\ table' = {r \in table : r.id # target[w]}
  /\ \/ table' # table /\ Goto(w, "delete", "load")
     \/ table' = table /\ Goto(w, "delete", "idle")  \* 404
  /\ target' = [target EXCEPT ![w] = None]
  /\ UNCHANGED <<lastId, rate, grid, dirty, shown, batch>>

\* POST /cost/fx/refresh or PUT /cost/fx; a rate that cannot be had or used
\* leaves the stored one alone.  The box that sends the PUT is never disabled;
\* while another call is under way, that call's reload stands for its own.
SetRate(w, r) ==
  /\ \/ /\ r \in Rates
        /\ rate' = r
        /\ phase' = [phase EXCEPT ![w] = IF @ = "idle" THEN "load" ELSE @]
     \/ r = None /\ UNCHANGED <<rate, phase>>
  /\ UNCHANGED <<table, lastId, grid, dirty, shown, batch, target>>

\* The call fails before it reaches gui.db: an error is shown, no more.
CallFails(w) ==
  /\ phase[w] # "idle"
  /\ phase'  = [phase EXCEPT ![w] = "idle"]
  /\ batch'  = [batch EXCEPT ![w] = <<>>]
  /\ target' = [target EXCEPT ![w] = None]
  /\ UNCHANGED <<db, grid, dirty, shown>>

Edit(w, i) ==
  \/ \E c \in Currencies : \/ \E a \in Amounts : TypeAmount(w, i, c, a)
                           \/ PassThrough(w, i, c)
  \/ EditField(w, i)
  \/ ToggleFlag(w, i)

Next ==
  \E w \in Windows :
    \/ \E i \in DOMAIN grid[w] : Edit(w, i) \/ Delete(w, i)
    \/ AddRow(w) \/ Load(w) \/ Save(w) \/ Put(w) \/ DeleteRow(w) \/ CallFails(w)
    \/ \E r \in Rates \cup {None} : SetRate(w, r)

Spec == Init /\ [][Next]_vars
-----------------------------------------------------------------------------
\* No row that _validate refuses is ever in the table.
TypeOK ==
  /\ table \subseteq Row
  /\ lastId \in 0..MaxId
  /\ rate \in Rates \cup {None}
  /\ grid   \in [Windows -> Seq(GridRow)]
  /\ batch  \in [Windows -> Seq(GridRow)]
  /\ dirty  \in [Windows -> BOOLEAN]
  /\ shown  \in [Windows -> Rates \cup {None}]
  /\ phase  \in [Windows -> {"idle", "load", "put", "delete"}]
  /\ target \in [Windows -> 1..MaxId \cup {None}]

\* "at most one row carries the flag ... no matter who writes": whatever mix of
\* stale and fresh grids the windows save, and however many flags a batch has.
AtMostOneFlag == \A r, s \in table : r.flag /\ s.flag => r = s

\* "Upsert only": a row leaves the table only by a DELETE that names it, never
\* because some window's grid did not show it, and does not come back when a
\* window saves a grid that still shows it.
RowsGoOnlyByDelete ==
  [][/\ \A r \in table :
          \/ \E s \in table' : s.id = r.id
          \/ \E w \in Windows : phase[w] = "delete" /\ target[w] = r.id
     /\ \A s \in table' : s.id > lastId \/ \E r \in table : r.id = s.id]_vars

\* "a bad row in the batch cannot leave a half-saved table behind": a write
\* takes over every row of its batch that still exists, and inserts every new
\* one.
BatchIsWhole ==
  [][\A w \in Windows :
       phase[w] = "put" /\ phase'[w] # "put" /\ <<table, lastId>> # <<table', lastId'>>
         => /\ \A i \in DOMAIN batch[w], s \in table' :
                 batch[w][i].id = s.id => batch[w][i].amount = s.amount
            /\ lastId' - lastId = Cardinality(NewRows(batch[w]))]_vars

=============================================================================
