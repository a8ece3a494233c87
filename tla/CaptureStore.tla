----------------------------- MODULE CaptureStore -----------------------------
(***************************************************************************)
(* openbrain-mcp's store of captures: the tools save, delete and update on *)
(* the PostgreSQL table, each call on a connection of its own (db.get_conn *)
(* closes without commit, so a call that fails leaves nothing behind).     *)
(*                                                                         *)
(* save_capture is a sequence of statements with the computation of the    *)
(* embedding in between, and other calls may fall between any two of them. *)
(* delete_capture and update_capture are one statement and one commit each *)
(* and are single steps.  Transactions are READ COMMITTED (the default):   *)
(* a statement sees what was committed when it starts; an INSERT that      *)
(* meets an uncommitted row of the same fingerprint waits for its end.     *)
(*                                                                         *)
(* An embedding is represented by the summary it was computed from, and    *)
(* metadata by its set of keys.  raw_text, keywords, source and lang are   *)
(* copied around by the code and decide nothing here.                      *)
(***************************************************************************)
EXTENDS Naturals, FiniteSets

CONSTANTS
  Callers,       \* connections that may be saving at the same time
  Ids,           \* bound: the uuids that gen_random_uuid may draw
  Fingerprints,  \* content fingerprints
  Summaries,
  MetaKeys,
  NoCall         \* "no save call", "no id"

ASSUME NoCallAssumption ==
  NoCall \notin Ids /\ NoCall \notin Summaries /\ NoCall \notin
    [fp: Fingerprints, summary: Summaries, metadata: SUBSET MetaKeys]

VARIABLES
  captures,  \* the committed rows of the table
  drawn,     \* ids drawn so far; a uuid does not come back
  pc,        \* pc[w]: the next statement of w's save call
  args,      \* args[w]: what w's open save call was asked to save
  row,       \* row[w]: the id of w's inserted but uncommitted row
  result     \* result[w]: the answer to w's last save call

vars == <<captures, drawn, pc, args, row, result>>

SaveArgs == [fp: Fingerprints, summary: Summaries, metadata: SUBSET MetaKeys]
Capture  == [id: Ids, fp: Fingerprints, summary: Summaries,
             embedding: Summaries, metadata: SUBSET MetaKeys]
Answer(kind, id) == [kind |-> kind, id |-> id]

\* SELECT id FROM captures WHERE fingerprint = fp
Matching(fp) == {c \in captures : c.fp = fp}

Init ==
  /\ captures = {}
  /\ drawn = {}
  /\ pc = [w \in Callers |-> "idle"]
  /\ args = [w \in Callers |-> NoCall]
  /\ row = [w \in Callers |-> NoCall]
  /\ result = [w \in Callers |-> Answer("none", NoCall)]

-----------------------------------------------------------------------------
(* save_capture                                                            *)

Goto(w, label) == pc' = [pc EXCEPT ![w] = label]

\* Leave the call; the connection is closed, which ends its transaction.
Return(w, answer) ==
  /\ Goto(w, "idle")
  /\ result' = [result EXCEPT ![w] = answer]
  /\ row'  = [row EXCEPT ![w] = NoCall]
  /\ args' = [args EXCEPT ![w] = NoCall]

\* Bound: there is an id left for every open call.
IdsLeft ==
  Cardinality(drawn) + Cardinality({w \in Callers : pc[w] # "idle"})
    < Cardinality(Ids)

Save(w, a) ==
  /\ pc[w] = "idle"
  /\ IdsLeft
  /\ Goto(w, "lookup")
  /\ args' = [args EXCEPT ![w] = a]
  /\ UNCHANGED <<captures, drawn, row, result>>

Lookup(w) ==
  /\ pc[w] = "lookup"
  /\ \/ /\ Matching(args[w].fp) = {}
        /\ Goto(w, "insert")
        /\ UNCHANGED <<args, row, result>>
     \/ \E c \in Matching(args[w].fp) : Return(w, Answer("deduped", c.id))
  /\ UNCHANGED <<captures, drawn>>

\* mutated form: no unique index makes an INSERT wait
NeverBlocked(w) == FALSE

\* mutated form: an INSERT also waits for calls that have inserted nothing yet
BlockedByAnyone(w) ==
  \E v \in Callers \ {w} :
    pc[v] \in {"insert", "commit"} /\ args[v].fp = args[w].fp

\* Another connection holds an uncommitted row with this fingerprint.
Blocked(w) ==
  \E v \in Callers \ {w} : pc[v] = "commit" /\ args[v].fp = args[w].fp

\* INSERT ... ON CONFLICT (fingerprint) DO NOTHING RETURNING id
Insert(w) ==
  /\ pc[w] = "insert"
  /\ ~Blocked(w)
  /\ \/ /\ Matching(args[w].fp) # {}
        /\ Goto(w, "reselect")
        /\ UNCHANGED <<drawn, row>>
     \/ /\ Matching(args[w].fp) = {}
        /\ Goto(w, "commit")
        /\ \E id \in Ids \ drawn :
             /\ drawn' = drawn \cup {id}
             /\ row' = [row EXCEPT ![w] = id]
  /\ UNCHANGED <<captures, args, result>>

\* The row is complete when it is inserted: summary and embedding together.
NewCapture(w) ==
  [id |-> row[w], fp |-> args[w].fp, summary |-> args[w].summary,
   embedding |-> args[w].summary, metadata |-> args[w].metadata]

Commit(w) ==
  /\ pc[w] = "commit"
  /\ captures' = captures \cup {NewCapture(w)}
  /\ Return(w, Answer("stored", row[w]))
  /\ UNCHANGED drawn

\* mutated form: the loser of the race answers like a call that stored
ClaimStored(w) ==
  /\ pc[w] = "reselect"
  /\ \/ \E c \in Matching(args[w].fp) : Return(w, Answer("stored", c.id))
     \/ /\ Matching(args[w].fp) = {}
        /\ Return(w, Answer("type_error", NoCall))
  /\ UNCHANGED <<captures, drawn>>

\* The insert lost a race: name the winner.  With the winner gone, row is None
\* and `row[0]` raises TypeError.
Reselect(w) ==
  /\ pc[w] = "reselect"
  /\ \/ \E c \in Matching(args[w].fp) : Return(w, Answer("deduped", c.id))
     \/ /\ Matching(args[w].fp) = {}
        /\ Return(w, Answer("type_error", NoCall))
  /\ UNCHANGED <<captures, drawn>>

\* The embedding model or the database fails: an exception leaves the call
\* before its commit, and the connection is closed.
Fail(w) ==
  /\ pc[w] # "idle"
  /\ Return(w, Answer("failed", NoCall))
  /\ UNCHANGED <<captures, drawn>>

-----------------------------------------------------------------------------
(* delete_capture and update_capture                                       *)

Delete(id) ==
  /\ captures' = {c \in captures : c.id # id}
  /\ UNCHANGED <<drawn, pc, args, row, result>>

\* mutated form: a new summary keeps the old embedding
KeepsEmbedding(c, summary, metadata) ==
  [c EXCEPT !.summary  = IF summary = NoCall THEN @ ELSE summary,
            !.metadata = @ \cup metadata]

\* The SET clauses of the fields that were given; the fingerprint has none.
Edited(c, summary, metadata) ==
  [c EXCEPT !.summary   = IF summary = NoCall THEN @ ELSE summary,
            !.embedding = IF summary = NoCall THEN @ ELSE summary,
            !.metadata  = @ \cup metadata]

Update(id, summary, metadata) ==
  /\ summary # NoCall \/ metadata # {}
  /\ captures' = {IF c.id = id THEN Edited(c, summary, metadata) ELSE c :
                    c \in captures}
  /\ UNCHANGED <<drawn, pc, args, row, result>>

SaveStep(w) == Lookup(w) \/ Insert(w) \/ Commit(w) \/ Reselect(w)

Next ==
  \/ \E w \in Callers :
       \/ \E a \in SaveArgs : Save(w, a)
       \/ SaveStep(w)
       \/ Fail(w)
  \/ \E id \in Ids :
       \/ Delete(id)
       \/ \E s \in Summaries \cup {NoCall}, m \in SUBSET MetaKeys :
            Update(id, s, m)

Spec == Init /\ [][Next]_vars

\* A call that is not blocked goes on, and PostgreSQL grants a wait for a
\* transaction that has ended.
FairSpec ==
  /\ Spec
  /\ \A w \in Callers :
       /\ WF_vars(Lookup(w)) /\ WF_vars(Commit(w)) /\ WF_vars(Reselect(w))
       /\ SF_vars(Insert(w))

-----------------------------------------------------------------------------
TypeOK ==
  /\ captures \in SUBSET Capture
  /\ drawn \in SUBSET Ids
  /\ pc \in [Callers -> {"idle", "lookup", "insert", "commit", "reselect"}]
  /\ args \in [Callers -> SaveArgs \cup {NoCall}]
  /\ row \in [Callers -> Ids \cup {NoCall}]
  /\ result \in [Callers ->
       [kind: {"none", "stored", "deduped", "type_error", "failed"},
        id: Ids \cup {NoCall}]]

\* One capture per fingerprint, however the statements of concurrent saves of
\* the same link interleave with each other and with deletions.
UniqueFingerprint ==
  \A c, d \in captures : c.fp = d.fp => c = d

\* The vector a search compares with is the one of the summary it shows, after
\* any sequence of saves and updates.
EmbeddingIsCurrent == \A c \in captures : c.embedding = c.summary

\* Every save call is answered.
SaveReturns == \A w \in Callers : pc[w] # "idle" ~> pc[w] = "idle"

\* The statements of a save call have the effect of one atomic step of
\* CaptureSet; the TypeError of a lost race counts as a failed call there.
Visible(a) == IF a.kind = "type_error" THEN Answer("failed", NoCall) ELSE a
Abstract ==
  INSTANCE CaptureSet WITH
    open   <- args,
    result <- [w \in Callers |-> Visible(result[w])]
ImplementsCaptureSet == Abstract!Spec
=============================================================================
