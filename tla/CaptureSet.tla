------------------------------ MODULE CaptureSet ------------------------------
(***************************************************************************)
(* What openbrain-mcp promises of its captures table, with every tool call *)
(* a single step: save stores the capture or names the one already there,  *)
(* delete removes, update edits in place.  CaptureStore, which takes a     *)
(* save call apart into its statements, is shown to implement this.        *)
(***************************************************************************)
CONSTANTS Callers, Ids, Fingerprints, Summaries, MetaKeys, NoCall

VARIABLES
  captures, \* the set of captures kept
  open,     \* open[w]: the arguments of w's save call, or NoCall
  result    \* result[w]: the answer to w's last save call

vars == <<captures, open, result>>

Capture == [id: Ids, fp: Fingerprints, summary: Summaries,
            embedding: Summaries, metadata: SUBSET MetaKeys]
SaveArgs == [fp: Fingerprints, summary: Summaries, metadata: SUBSET MetaKeys]
Answer(kind, id) == [kind |-> kind, id |-> id]

Init ==
  /\ captures = {}
  /\ open = [w \in Callers |-> NoCall]
  /\ result = [w \in Callers |-> Answer("none", NoCall)]

Call(w, args) ==
  /\ open[w] = NoCall
  /\ open' = [open EXCEPT ![w] = args]
  /\ UNCHANGED <<captures, result>>

Return(w, answer) ==
  /\ open[w] # NoCall
  /\ open' = [open EXCEPT ![w] = NoCall]
  /\ result' = [result EXCEPT ![w] = answer]

Store(w, id) ==
  /\ open[w] # NoCall
  /\ \A c \in captures : c.id # id /\ c.fp # open[w].fp
  /\ captures' = captures \cup
       {[id |-> id, fp |-> open[w].fp, summary |-> open[w].summary,
         embedding |-> open[w].summary, metadata |-> open[w].metadata]}
  /\ Return(w, Answer("stored", id))

Dedupe(w) ==
  /\ open[w] # NoCall
  /\ \E c \in captures :
       c.fp = open[w].fp /\ Return(w, Answer("deduped", c.id))
  /\ UNCHANGED captures

Fail(w) == Return(w, Answer("failed", NoCall)) /\ UNCHANGED captures

Delete(id) ==
  /\ captures' = {c \in captures : c.id # id}
  /\ UNCHANGED <<open, result>>

\* Only the summary, with its embedding, and the metadata of one capture may
\* change, and metadata keys are only added.
Update(id) ==
  /\ \E s \in Summaries, m \in SUBSET MetaKeys :
       captures' = {IF c.id # id THEN c
                    ELSE [c EXCEPT !.summary = s, !.embedding = s,
                                   !.metadata = @ \cup m] : c \in captures}
  /\ UNCHANGED <<open, result>>

Tag(id) ==
  /\ \E m \in SUBSET MetaKeys :
       captures' = {IF c.id # id THEN c
                    ELSE [c EXCEPT !.metadata = @ \cup m] : c \in captures}
  /\ UNCHANGED <<open, result>>

Next ==
  \/ \E w \in Callers :
       \/ \E args \in SaveArgs : Call(w, args)
       \/ \E id \in Ids : Store(w, id)
       \/ Dedupe(w)
       \/ Fail(w)
  \/ \E id \in Ids : Delete(id) \/ Update(id) \/ Tag(id)

Spec == Init /\ [][Next]_vars
=============================================================================
