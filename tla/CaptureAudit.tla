----------------------------- MODULE CaptureAudit -----------------------------
(***************************************************************************)
(* Deleting a capture from the GUI: the backend writes a delete_log row to *)
(* gui.db and then calls openbrain-mcp's delete tool over HTTP.  The two   *)
(* stores share no transaction, the call or its answer may be lost, the    *)
(* backend may die in between, and a user who saw an error clicks again.   *)
(* The captures are those of CaptureSet, which CaptureStore implements;    *)
(* other MCP clients save and delete there without the GUI.                *)
(***************************************************************************)
CONSTANTS Callers, Ids, Fingerprints, Summaries, MetaKeys, NoCall,
          Requests  \* bound: the delete requests the browsers ever send

VARIABLES
  captures, open, result,  \* openbrain-mcp, as in CaptureSet
  seen,       \* ids that some browser's grid may show
  stage,      \* stage[r]: how far the handler of request r got
  target,     \* target[r]: the capture id in r's URL
  deleteLog,  \* rows of delete_log, as <<request that wrote it, capture_id>>
  wire,       \* MCP delete calls sent and not yet executed
  deleted     \* deleted[r]: what the delete tool answered r, or NoCall

Store == INSTANCE CaptureSet

brain == <<captures, open, result>>
gui   == <<stage, target, deleteLog, wire, deleted>>
vars  == <<captures, open, result, seen, stage, target, deleteLog, wire, deleted>>

Live == {c.id : c \in captures}

Init ==
  /\ Store!Init
  /\ seen = {}
  /\ stage = [r \in Requests |-> "new"]
  /\ target = [r \in Requests |-> NoCall]
  /\ deleteLog = {}
  /\ wire = {}
  /\ deleted = [r \in Requests |-> NoCall]

Goto(r, from, to) == stage[r] = from /\ stage' = [stage EXCEPT ![r] = to]

\* Hermes and other MCP clients work on the same captures.  A uuid that was
\* drawn once does not come back.
OtherClient ==
  /\ Store!Next
  /\ \A c \in captures' : c.id \in seen => c.id \in Live
  /\ seen' = seen \cup {c.id : c \in captures'}
  /\ UNCHANGED gui

\* POST /captures/{id}/delete, from a grid that may be out of date
Request(r, id) ==
  /\ id \in seen
  /\ Goto(r, "new", "asked")
  /\ target' = [target EXCEPT ![r] = id]
  /\ UNCHANGED <<brain, seen, deleteLog, wire, deleted>>

\* mutated form: the row is inserted but not committed
NoLogRow(r) ==
  /\ Goto(r, "asked", "logged")
  /\ UNCHANGED <<brain, seen, target, deleteLog, wire, deleted>>

\* delete_log_store.log_deletion commits before the handler goes on
LogDeletion(r) ==
  /\ Goto(r, "asked", "logged")
  /\ deleteLog' = deleteLog \cup {<<r, target[r]>>}
  /\ UNCHANGED <<brain, seen, target, wire, deleted>>

CallDelete(r) ==
  /\ Goto(r, "logged", "called")
  /\ wire' = wire \cup {r}
  /\ UNCHANGED <<brain, seen, target, deleteLog, deleted>>

\* mutated form: the tool answers "deleted" whatever it found
AlwaysDeleted(r) ==
  /\ r \in wire
  /\ wire' = wire \ {r}
  /\ deleted' = [deleted EXCEPT ![r] = TRUE]
  /\ Store!Delete(target[r])
  /\ UNCHANGED <<seen, stage, target, deleteLog>>

\* The tool runs when the call arrives, even if its caller has given up.
Execute(r) ==
  /\ r \in wire
  /\ wire' = wire \ {r}
  /\ deleted' = [deleted EXCEPT ![r] = target[r] \in Live]
  /\ Store!Delete(target[r])
  /\ UNCHANGED <<seen, stage, target, deleteLog>>

Lose(r) ==
  /\ r \in wire
  /\ wire' = wire \ {r}
  /\ UNCHANGED <<brain, seen, stage, target, deleteLog, deleted>>

\* mutated form: the handler answers without waiting for the tool
ReplyEarly(r) ==
  /\ Goto(r, "called", "done")
  /\ UNCHANGED <<brain, seen, target, deleteLog, wire, deleted>>

Reply(r) ==
  /\ deleted[r] # NoCall
  /\ Goto(r, "called", "done")
  /\ UNCHANGED <<brain, seen, target, deleteLog, wire, deleted>>

\* gui.db refuses the write (500), openbrain-mcp is unreachable, the read times
\* out or the answer is lost (502), or the backend restarts.
Fail(r) ==
  /\ stage[r] \in {"asked", "logged", "called"}
  /\ stage' = [stage EXCEPT ![r] = "failed"]
  /\ UNCHANGED <<brain, seen, target, deleteLog, wire, deleted>>

Handler(r) == LogDeletion(r) \/ CallDelete(r) \/ Reply(r) \/ Fail(r)

Next ==
  \/ OtherClient
  \/ \E r \in Requests :
       \/ \E id \in Ids : Request(r, id)
       \/ Handler(r) \/ Execute(r) \/ Lose(r)

Spec == Init /\ [][Next]_vars
-----------------------------------------------------------------------------
TypeOK ==
  /\ captures \subseteq Store!Capture
  /\ seen \subseteq Ids
  /\ stage \in [Requests -> {"new", "asked", "logged", "called", "done", "failed"}]
  /\ target \in [Requests -> Ids \cup {NoCall}]
  /\ deleteLog \subseteq (Requests \X Ids)
  /\ wire \subseteq {r \in Requests : stage[r] \notin {"new", "asked", "logged"}}
  /\ deleted \in [Requests -> BOOLEAN \cup {NoCall}]

\* "A silent deletion with zero log entry can't happen": whatever fails, is
\* lost or arrives late, a capture the GUI removed is in the delete log.
NoSilentDeletion ==
  \A r \in Requests :
    deleted[r] = TRUE => \E e \in deleteLog : e[2] = target[r]

\* The other direction: a log entry whose capture is still there means that its
\* request is not through, or ended in an error the user was shown.
OrphanNeedsFailure ==
  \A e \in deleteLog :
    e[2] \in Live => stage[e[1]] \in {"logged", "called", "failed"}

\* A capture is removed at most once, also when two windows ask for it or a
\* lost answer makes the user ask again.
DeletedOnce ==
  \A r, q \in Requests :
    deleted[r] = TRUE /\ deleted[q] = TRUE /\ r # q => target[r] # target[q]
=============================================================================
