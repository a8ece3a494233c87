-------------------------- MODULE CaptureStoreProofs --------------------------
(***************************************************************************)
(* Proofs about CaptureStore: for any number of connections, ids and       *)
(* fingerprints, a save taken apart into its statements keeps fingerprints *)
(* unique and implements the atomic save of CaptureSet.                    *)
(*                                                                         *)
(* What makes both work is that a connection holding an uncommitted row    *)
(* has its fingerprint, and its id, to itself until it commits.            *)
(***************************************************************************)
EXTENDS CaptureStore, TLAPS

Inserted(w) == pc[w] = "commit"

\* A row is inserted under an id drawn for it ...
RowsAreDrawn ==
  /\ \A c \in captures : c.id \in drawn
  /\ \A w \in Callers : Inserted(w) => row[w] \in drawn

\* ... that no other row has, committed or not ...
IdsAreOwn ==
  /\ \A w \in Callers, c \in captures : Inserted(w) => c.id # row[w]
  /\ \A v, w \in Callers : Inserted(v) /\ Inserted(w) /\ v # w => row[v] # row[w]

\* ... and nobody else has, or is about to commit, a row of its fingerprint.
Reserved ==
  /\ \A w \in Callers, c \in captures : Inserted(w) => c.fp # args[w].fp
  /\ \A v, w \in Callers :
       Inserted(v) /\ Inserted(w) /\ v # w => args[v].fp # args[w].fp

\* A call is open exactly while it has arguments.
Open ==
  \A w \in Callers :
    /\ pc[w] = "idle" <=> args[w] = NoCall
    /\ Inserted(w) => row[w] \in Ids

IdsAreKeys == \A c, d \in captures : c.id = d.id => c = d

\* TypeOK is not inductive: what is committed must have been filled in.
TypeInv == TypeOK /\ Open

IInv ==
  /\ RowsAreDrawn /\ IdsAreOwn /\ Reserved
  /\ IdsAreKeys /\ UniqueFingerprint /\ EmbeddingIsCurrent

-----------------------------------------------------------------------------
LEMMA EditedFields ==
  ASSUME NEW c \in Capture, NEW s \in Summaries \cup {NoCall},
         NEW m \in SUBSET MetaKeys
  PROVE  /\ Edited(c, s, m) \in Capture
         /\ Edited(c, s, m).id = c.id /\ Edited(c, s, m).fp = c.fp
         /\ c.metadata \subseteq Edited(c, s, m).metadata
         /\ c.embedding = c.summary =>
              Edited(c, s, m).embedding = Edited(c, s, m).summary
  BY DEF Edited, Capture

LEMMA AnswerType ==
  ASSUME NEW kind \in {"none", "stored", "deduped", "type_error", "failed"},
         NEW id \in Ids \cup {NoCall}
  PROVE  Answer(kind, id) \in
           [kind: {"none", "stored", "deduped", "type_error", "failed"},
            id: Ids \cup {NoCall}]
  BY DEF Answer

\* Ending a call with a well-formed answer keeps the types of the call state.
LEMMA ReturnType ==
  ASSUME TypeInv, NEW w \in Callers, NEW id \in Ids \cup {NoCall},
         NEW kind \in {"none", "stored", "deduped", "type_error", "failed"},
         Return(w, Answer(kind, id)),
         captures' \in SUBSET Capture, drawn' = drawn
  PROVE  TypeInv'
  BY AnswerType DEF TypeInv, TypeOK, Open, Inserted, Return, Goto

LEMMA UpdateType ==
  ASSUME TypeInv, NEW id \in Ids, NEW s \in Summaries \cup {NoCall},
         NEW m \in SUBSET MetaKeys, Update(id, s, m)
  PROVE  TypeInv'
  BY EditedFields DEF TypeInv, TypeOK, Open, Inserted, Update

LEMMA TypeInvariant == Spec => []TypeInv
  <1>1. Init => TypeInv
    BY AnswerType DEF Init, TypeInv, TypeOK, Open, Inserted
  <1>2. TypeInv /\ [Next]_vars => TypeInv'
    <2> SUFFICES ASSUME TypeInv, [Next]_vars PROVE TypeInv'
      OBVIOUS
    <2> USE DEF TypeInv, TypeOK, Open, Inserted
    <2>1. ASSUME NEW w \in Callers, NEW a \in SaveArgs, Save(w, a)
          PROVE  TypeInv'
      BY <2>1, NoCallAssumption DEF Save, Goto, SaveArgs
    <2>2. ASSUME NEW w \in Callers, Lookup(w) PROVE TypeInv'
      <3>1. CASE Goto(w, "insert") /\ UNCHANGED <<args, row, result>>
        BY <2>2, <3>1 DEF Lookup, Goto
      <3>2. ASSUME NEW c \in Matching(args[w].fp),
                   Return(w, Answer("deduped", c.id))
            PROVE  TypeInv'
        <4>1. c.id \in Ids
          BY DEF Matching, Capture
        <4>2. QED
          BY <2>2, <3>2, <4>1, ReturnType DEF Lookup
      <3>3. QED
        BY <2>2, <3>1, <3>2 DEF Lookup
    <2>3. ASSUME NEW w \in Callers, Insert(w) PROVE TypeInv'
      BY <2>3 DEF Insert, Goto
    <2>4. ASSUME NEW w \in Callers, Commit(w) PROVE TypeInv'
      <3>1. args[w] \in SaveArgs /\ row[w] \in Ids
        BY <2>4 DEF Commit
      <3>2. NewCapture(w) \in Capture
        BY <3>1 DEF NewCapture, SaveArgs, Capture
      <3>3. captures' \in SUBSET Capture
        BY <2>4, <3>2 DEF Commit
      <3>4. QED
        BY <2>4, <3>1, <3>3, ReturnType DEF Commit
    <2>5. ASSUME NEW w \in Callers, Reselect(w) PROVE TypeInv'
      <3>1. captures' \in SUBSET Capture /\ drawn' = drawn
        BY <2>5 DEF Reselect
      <3>2. ASSUME NEW c \in Matching(args[w].fp),
                   Return(w, Answer("deduped", c.id))
            PROVE  TypeInv'
        <4>1. c.id \in Ids
          BY DEF Matching, Capture
        <4>2. QED
          BY <3>1, <3>2, <4>1, ReturnType
      <3>3. QED
        BY <2>5, <3>1, <3>2, ReturnType DEF Reselect
    <2>6. ASSUME NEW w \in Callers, Fail(w) PROVE TypeInv'
      BY <2>6, ReturnType DEF Fail
    <2>7. ASSUME NEW id \in Ids, Delete(id) PROVE TypeInv'
      BY <2>7 DEF Delete
    <2>8. CASE UNCHANGED vars
      BY <2>8 DEF vars
    <2>9. QED
      BY <2>1, <2>2, <2>3, <2>4, <2>5, <2>6, <2>7, <2>8, UpdateType
         DEF Next, SaveStep
  <1>3. QED
    BY <1>1, <1>2, PTL DEF Spec

\* Every variable has its type: TypeOK of CaptureStore.
THEOREM TypeCorrect == Spec => []TypeOK
  <1>1. TypeInv => TypeOK
    BY DEF TypeInv
  <1>2. QED
    BY <1>1, TypeInvariant, PTL

-----------------------------------------------------------------------------
(* The inductive invariant.                                                *)

\* A step that takes rows away, or leaves them alone, and brings nobody to its
\* commit keeps the invariant.
LEMMA QuietStep ==
  ASSUME IInv, captures' \subseteq captures, drawn' = drawn,
         \A w \in Callers : Inserted(w)' =>
           Inserted(w) /\ row'[w] = row[w] /\ args'[w] = args[w]
  PROVE  IInv'
  BY DEF IInv, RowsAreDrawn, IdsAreOwn, Reserved, IdsAreKeys,
         UniqueFingerprint, EmbeddingIsCurrent

LEMMA ReturnIsQuiet ==
  ASSUME TypeInv, NEW w \in Callers, NEW answer, Return(w, answer)
  PROVE  \A v \in Callers : Inserted(v)' =>
           /\ v # w /\ Inserted(v) /\ row'[v] = row[v] /\ args'[v] = args[v]
  BY DEF TypeInv, TypeOK, Inserted, Return, Goto

LEMMA InsertKeepsInv ==
  ASSUME TypeInv, IInv, NEW w \in Callers, Insert(w)
  PROVE  IInv'
  <1> USE DEF Inserted
  <1>1. captures' = captures /\ args' = args /\ ~Blocked(w) /\ pc[w] = "insert"
    BY DEF Insert
  <1>2. CASE pc' = [pc EXCEPT ![w] = "reselect"] /\ row' = row /\ drawn' = drawn
    <2>1. \A v \in Callers : pc'[v] = "commit" => pc[v] = "commit"
      BY <1>2 DEF TypeInv, TypeOK
    <2>2. QED
      BY <1>1, <1>2, <2>1, QuietStep
  <1>3. ASSUME Matching(args[w].fp) = {}, NEW id \in Ids \ drawn,
               drawn' = drawn \cup {id}, row' = [row EXCEPT ![w] = id],
               pc' = [pc EXCEPT ![w] = "commit"]
        PROVE  IInv'
    <2>1. \A v \in Callers :
            /\ row'[v] = IF v = w THEN id ELSE row[v]
            /\ pc'[v] = IF v = w THEN "commit" ELSE pc[v]
      BY <1>3 DEF TypeInv, TypeOK
    <2>2. RowsAreDrawn'
      BY <1>1, <1>3, <2>1 DEF IInv, RowsAreDrawn
    <2>3. IdsAreOwn'
      BY <1>1, <1>3, <2>1 DEF IInv, RowsAreDrawn, IdsAreOwn
    <2>4. Reserved'
      BY <1>1, <1>3, <2>1 DEF IInv, Reserved, Matching, Blocked
    <2>5. QED
      BY <1>1, <2>2, <2>3, <2>4
         DEF IInv, IdsAreKeys, UniqueFingerprint, EmbeddingIsCurrent
  <1>4. QED
    BY <1>2, <1>3 DEF Insert, Goto

LEMMA CommitKeepsInv ==
  ASSUME TypeInv, IInv, NEW w \in Callers, Commit(w)
  PROVE  IInv'
  <1>1. /\ captures' = captures \cup {NewCapture(w)} /\ drawn' = drawn
        /\ Inserted(w)
    BY DEF Commit, Inserted
  <1>2. \A v \in Callers : Inserted(v)' =>
          /\ v # w /\ Inserted(v) /\ row'[v] = row[v] /\ args'[v] = args[v]
    BY ReturnIsQuiet DEF Commit
  <1>3. /\ NewCapture(w).id = row[w] /\ NewCapture(w).fp = args[w].fp
        /\ NewCapture(w).embedding = NewCapture(w).summary
    BY DEF NewCapture
  <1>4. RowsAreDrawn'
    BY <1>1, <1>2, <1>3 DEF IInv, RowsAreDrawn
  <1>5. IdsAreOwn'
    BY <1>1, <1>2, <1>3 DEF IInv, IdsAreOwn
  <1>6. Reserved'
    BY <1>1, <1>2, <1>3 DEF IInv, Reserved
  <1>7. IdsAreKeys' /\ UniqueFingerprint'
    BY <1>1, <1>3 DEF IInv, IdsAreKeys, IdsAreOwn, UniqueFingerprint, Reserved
  <1>8. EmbeddingIsCurrent'
    BY <1>1, <1>3 DEF IInv, EmbeddingIsCurrent
  <1>9. QED
    BY <1>4, <1>5, <1>6, <1>7, <1>8 DEF IInv

LEMMA UpdateKeepsInv ==
  ASSUME TypeInv, IInv, NEW id \in Ids, NEW s \in Summaries \cup {NoCall},
         NEW m \in SUBSET MetaKeys, Update(id, s, m)
  PROVE  IInv'
  <1> DEFINE New(c) == IF c.id = id THEN Edited(c, s, m) ELSE c
  <1>1. captures' = {New(c) : c \in captures} /\ UNCHANGED <<drawn, pc, args, row>>
    BY DEF Update
  <1>2. \A c \in captures :
          /\ New(c).id = c.id /\ New(c).fp = c.fp
          /\ New(c).embedding = New(c).summary
    BY EditedFields DEF TypeInv, TypeOK, IInv, EmbeddingIsCurrent
  <1> HIDE DEF New
  <1>3. RowsAreDrawn' /\ IdsAreOwn' /\ Reserved'
    BY <1>1, <1>2 DEF IInv, RowsAreDrawn, IdsAreOwn, Reserved, Inserted
  <1>4. IdsAreKeys' /\ UniqueFingerprint' /\ EmbeddingIsCurrent'
    BY <1>1, <1>2 DEF IInv, IdsAreKeys, UniqueFingerprint, EmbeddingIsCurrent
  <1>5. QED
    BY <1>3, <1>4 DEF IInv

LEMMA InvStep ==
  ASSUME TypeInv, IInv, [Next]_vars
  PROVE  IInv'
  <1>1. ASSUME NEW w \in Callers, NEW a \in SaveArgs, Save(w, a) PROVE IInv'
    <2>1. \A v \in Callers : Inserted(v)' => Inserted(v) /\ args'[v] = args[v]
      BY <1>1 DEF Save, Goto, Inserted, TypeInv, TypeOK
    <2>2. QED
      BY <1>1, <2>1, QuietStep DEF Save
  <1>2. ASSUME NEW w \in Callers, Lookup(w) PROVE IInv'
    <2>1. CASE Goto(w, "insert") /\ UNCHANGED <<args, row, result>>
      <3>1. \A v \in Callers : Inserted(v)' => Inserted(v)
        BY <2>1 DEF Goto, Inserted, TypeInv, TypeOK
      <3>2. QED
        BY <1>2, <2>1, <3>1, QuietStep DEF Lookup
    <2>2. ASSUME NEW answer, Return(w, answer) PROVE IInv'
      BY <1>2, <2>2, QuietStep, ReturnIsQuiet DEF Lookup
    <2>3. QED
      BY <1>2, <2>1, <2>2 DEF Lookup
  <1>3. ASSUME NEW w \in Callers, Reselect(w) \/ Fail(w) PROVE IInv'
    <2>1. PICK answer : Return(w, answer)
      BY <1>3 DEF Reselect, Fail
    <2>2. QED
      BY <1>3, <2>1, QuietStep, ReturnIsQuiet DEF Reselect, Fail
  <1>4. ASSUME NEW id \in Ids, Delete(id) PROVE IInv'
    BY <1>4, QuietStep DEF Delete, Inserted
  <1>5. CASE UNCHANGED vars
    BY <1>5, QuietStep DEF vars, Inserted
  <1>6. QED
    BY <1>1, <1>2, <1>3, <1>4, <1>5, InsertKeepsInv, CommitKeepsInv,
       UpdateKeepsInv DEF Next, SaveStep

LEMMA Invariant == Spec => []IInv
  <1>1. Init => IInv
    BY DEF Init, IInv, RowsAreDrawn, IdsAreOwn, Reserved, Inserted,
           IdsAreKeys, UniqueFingerprint, EmbeddingIsCurrent
  <1>2. TypeInv /\ IInv /\ [Next]_vars => IInv'
    BY InvStep
  <1>3. QED
    BY <1>1, <1>2, TypeInvariant, PTL DEF Spec

\* No two captures share a fingerprint, whoever saves, edits or deletes.
THEOREM FingerprintsUnique == Spec => []UniqueFingerprint
  <1>1. IInv => UniqueFingerprint
    BY DEF IInv
  <1>2. QED
    BY <1>1, Invariant, PTL

\* Every capture's embedding is the one of its summary.
THEOREM EmbeddingsCurrent == Spec => []EmbeddingIsCurrent
  <1>1. IInv => EmbeddingIsCurrent
    BY DEF IInv
  <1>2. QED
    BY <1>1, Invariant, PTL

-----------------------------------------------------------------------------
(* Refinement: a statement of a save call is a stutter of CaptureSet until *)
(* the one that answers, which is its Store, Dedupe or Fail.               *)

LEMMA SameTypes == Abstract!SaveArgs = SaveArgs /\ Abstract!Capture = Capture
  BY DEF Abstract!SaveArgs, SaveArgs, Abstract!Capture, Capture

\* An answer other than TypeError is seen as it is; TypeError as a failure.
LEMMA SeenAnswer ==
  ASSUME NEW kind \in {"none", "stored", "deduped", "type_error", "failed"},
         NEW id
  PROVE  Visible(Answer(kind, id)) =
           Abstract!Answer(IF kind = "type_error" THEN "failed" ELSE kind,
                           IF kind = "type_error" THEN NoCall ELSE id)
  BY DEF Visible, Answer, Abstract!Answer

LEMMA ReturnSeen ==
  ASSUME TypeInv, NEW w \in Callers, NEW answer, pc[w] # "idle",
         Return(w, answer)
  PROVE  Abstract!Return(w, Visible(answer))
  <1>1. args[w] # NoCall
    BY DEF TypeInv, Open
  <1>2. [v \in Callers |-> Visible(result'[v])] =
          [[v \in Callers |-> Visible(result[v])] EXCEPT ![w] = Visible(answer)]
    BY DEF Return, TypeInv, TypeOK
  <1>3. args' = [args EXCEPT ![w] = NoCall]
    BY DEF Return
  <1>4. QED
    BY <1>1, <1>2, <1>3 DEF Abstract!Return

LEMMA StepImplements ==
  ASSUME TypeInv, IInv, [Next]_vars
  PROVE  [Abstract!Next]_(Abstract!vars)
  <1>1. ASSUME NEW w \in Callers, NEW a \in SaveArgs, Save(w, a)
        PROVE  Abstract!Next
    <2>1. args[w] = NoCall
      BY <1>1 DEF Save, TypeInv, Open
    <2>2. Abstract!Call(w, a)
      BY <1>1, <2>1 DEF Save, Abstract!Call
    <2>3. QED
      BY <2>2, SameTypes DEF Abstract!Next
  <1>2. ASSUME NEW w \in Callers, NEW c \in Matching(args[w].fp),
               pc[w] # "idle", Return(w, Answer("deduped", c.id)),
               captures' = captures
        PROVE  Abstract!Next
    <2>1. Abstract!Return(w, Abstract!Answer("deduped", c.id))
      BY <1>2, ReturnSeen, SeenAnswer
    <2>2. Abstract!Dedupe(w)
      BY <1>2, <2>1 DEF Abstract!Dedupe, Abstract!Return, Matching
    <2>3. QED
      BY <2>2 DEF Abstract!Next
  <1>3. ASSUME NEW w \in Callers, NEW kind \in {"type_error", "failed"},
               pc[w] # "idle", Return(w, Answer(kind, NoCall)),
               captures' = captures
        PROVE  Abstract!Next
    <2>1. Abstract!Return(w, Abstract!Answer("failed", NoCall))
      BY <1>3, ReturnSeen, SeenAnswer
    <2>2. Abstract!Fail(w)
      BY <1>3, <2>1 DEF Abstract!Fail
    <2>3. QED
      BY <2>2 DEF Abstract!Next
  <1>4. ASSUME NEW w \in Callers, Commit(w) PROVE Abstract!Next
    <2>1. row[w] \in Ids /\ Inserted(w) /\ pc[w] # "idle"
      BY <1>4 DEF Commit, TypeInv, Open, Inserted
    <2>2. Abstract!Return(w, Abstract!Answer("stored", row[w]))
      BY <1>4, <2>1, ReturnSeen, SeenAnswer DEF Commit
    <2>3. \A c \in captures : c.id # row[w] /\ c.fp # args[w].fp
      BY <2>1 DEF IInv, IdsAreOwn, Reserved
    <2>4. Abstract!Store(w, row[w])
      BY <1>4, <2>2, <2>3
         DEF Commit, NewCapture, Abstract!Store, Abstract!Return
    <2>5. QED
      BY <2>1, <2>4 DEF Abstract!Next
  <1>5. ASSUME NEW id \in Ids, Delete(id) PROVE Abstract!Next
    BY <1>5 DEF Delete, Abstract!Next, Abstract!Delete
  <1>6. ASSUME NEW id \in Ids, NEW s \in Summaries \cup {NoCall},
               NEW m \in SUBSET MetaKeys, Update(id, s, m)
        PROVE  Abstract!Next
    <2>1. captures' = {IF c.id = id THEN Edited(c, s, m) ELSE c : c \in captures}
          /\ UNCHANGED <<args, result>>
      BY <1>6 DEF Update
    <2>2. CASE s = NoCall
      <3>1. \A c \in captures : Edited(c, s, m) = [c EXCEPT !.metadata = @ \cup m]
        BY <2>2 DEF Edited, TypeInv, TypeOK, Capture
      <3>2. captures' = {IF c.id # id THEN c
                         ELSE [c EXCEPT !.metadata = @ \cup m] : c \in captures}
        BY <2>1, <3>1
      <3>3. Abstract!Tag(id)
        BY <2>1, <3>2, Zenon DEF Abstract!Tag
      <3>4. QED
        BY <3>3 DEF Abstract!Next
    <2>3. CASE s # NoCall
      <3>1. \A c \in captures : Edited(c, s, m) =
              [c EXCEPT !.summary = s, !.embedding = s, !.metadata = @ \cup m]
        BY <2>3 DEF Edited, TypeInv, TypeOK, Capture
      <3>2. captures' = {IF c.id # id THEN c
                         ELSE [c EXCEPT !.summary = s, !.embedding = s,
                                        !.metadata = @ \cup m] : c \in captures}
        BY <2>1, <3>1
      <3>3. s \in Summaries
        BY <2>3
      <3>4. Abstract!Update(id)
        BY <2>1, <3>2, <3>3, Zenon DEF Abstract!Update
      <3>5. QED
        BY <3>4 DEF Abstract!Next
    <2>4. QED
      BY <2>2, <2>3
  <1>7. CASE UNCHANGED <<captures, args, result>>
    BY <1>7 DEF Abstract!vars
  <1>8. QED
    BY <1>1, <1>2, <1>3, <1>4, <1>5, <1>6, <1>7
       DEF Next, SaveStep, vars, Lookup, Insert, Reselect, Fail

\* The statement-level store implements the atomic one.
THEOREM StoreImplementsSet == Spec => ImplementsCaptureSet
  <1>1. Init => Abstract!Init
    BY SeenAnswer DEF Init, Abstract!Init, Visible, Answer, Abstract!Answer
  <1>2. TypeInv /\ IInv /\ [Next]_vars => [Abstract!Next]_(Abstract!vars)
    BY StepImplements
  <1>3. QED
    BY <1>1, <1>2, TypeInvariant, Invariant, PTL
       DEF Spec, ImplementsCaptureSet, Abstract!Spec

=============================================================================
