------------------------ MODULE CaptureServicesProofs ------------------------
(***************************************************************************)
(* What is done with captures around the store, for any number of clients, *)
(* requests, captures and loads: a code of the access shim is traded once  *)
(* and as it was issued; the deletion log misses nothing; the keyword      *)
(* graph adds up; a search finds all there is and a list holds what it was *)
(* asked for; a fingerprint is that of the link's content.                 *)
(***************************************************************************)
EXTENDS CaptureServices, Ordering, Integers, SequenceTheorems, FiniteSetTheorems,
        WellFoundedInduction, TLAPS

-----------------------------------------------------------------------------
(* The access shim.                                                        *)

\* What the table of codes holds is what was issued, and not traded yet.
CodeInv(c) ==
  /\ granted[c] \in {0, 1}
  /\ codes[c] # None => codes[c] = issued[c] /\ granted[c] = 0
  /\ issued[c] = None => granted[c] = 0
  /\ issued[c] # None => issued[c].uri \in AllowedUris

\* The inductive invariant.  Callbacks are allow-listed when a client registers,
\* and the client's own list is all that authorize looks at.
AccessInv ==
  /\ clients \in [ClientIds -> SUBSET AllowedUris]
  /\ codes \in [Codes -> Access!Entry \cup {None}]
  /\ issued \in [Codes -> Access!Entry \cup {None}]
  /\ granted \in [Codes -> Nat]
  /\ now \in Nat
  /\ \A c \in Codes : CodeInv(c)
  /\ GrantsAreBound

LEMMA AccessInit == ASSUME Access!Init PROVE AccessInv
  BY DEF Access!Init, AccessInv, CodeInv, GrantsAreBound

\* Registration: the table of clients is the only thing that changes.
LEMMA RegisterInv ==
  ASSUME AccessInv, NEW i \in ClientIds, NEW uris \in SUBSET Uris, Access!Register(i, uris)
  PROVE  AccessInv'
<1>1. clients' \in [ClientIds -> SUBSET AllowedUris]
  BY DEF AccessInv, Access!Register, Access!Acceptable
<1>2. GrantsAreBound'
  BY DEF AccessInv, Access!Register, Access!history, GrantsAreBound
<1>3. QED
  BY <1>1, <1>2 DEF AccessInv, Access!Register, Access!history, CodeInv

\* Authorization: a code that was never issued before goes into the table.
LEMMA AuthorizeInv ==
  ASSUME AccessInv, TTL \in Nat, AllowedUris \subseteq Uris,
         NEW i \in ClientIds, NEW u \in Uris, NEW v \in Verifiers, NEW c \in Codes,
         Access!Authorize(i, u, v, c)
  PROVE  AccessInv'
<1> DEFINE entry == [client |-> i, uri |-> u, challenge |-> v, expires |-> now + TTL]
<1>1. entry \in Access!Entry
  BY DEF AccessInv, Access!Entry
<1>2. u \in AllowedUris
  BY DEF AccessInv, Access!Authorize
<1>3. codes' = [codes EXCEPT ![c] = entry] /\ issued' = [issued EXCEPT ![c] = entry]
  BY DEF Access!Authorize
<1>4. issued[c] = None /\ UNCHANGED <<clients, now, granted, last>>
  BY DEF Access!Authorize
<1> HIDE DEF entry
<1>5. /\ codes' \in [Codes -> Access!Entry \cup {None}]
      /\ issued' \in [Codes -> Access!Entry \cup {None}]
  BY <1>1, <1>3 DEF AccessInv
<1>6. ASSUME NEW d \in Codes PROVE CodeInv(d)'
  <2>1. CASE d = c
    <3>1. codes'[d] = entry /\ issued'[d] = entry
      BY <1>3, <2>1 DEF AccessInv
    <3>2. granted'[d] = 0
      BY <1>4, <2>1 DEF AccessInv, CodeInv
    <3>3. entry.uri \in AllowedUris
      BY <1>2 DEF entry
    <3>4. QED
      BY <3>1, <3>2, <3>3 DEF CodeInv
  <2>2. CASE d # c
    <3>1. codes'[d] = codes[d] /\ issued'[d] = issued[d] /\ granted'[d] = granted[d]
      BY <1>3, <1>4, <2>2 DEF AccessInv
    <3>2. QED
      BY <3>1 DEF AccessInv, CodeInv
  <2>3. QED
    BY <2>1, <2>2
<1>7. GrantsAreBound'
  <2>1. CASE last = None
    BY <2>1, <1>4 DEF GrantsAreBound
  <2>2. CASE last # None
    <3>1. issued[last.req.code] # None
      BY <2>2 DEF AccessInv, GrantsAreBound
    <3>2. issued'[last.req.code] = issued[last.req.code]
      BY <3>1, <1>3, <1>4 DEF AccessInv
    <3>3. QED
      BY <3>2, <2>2, <1>4 DEF AccessInv, GrantsAreBound
  <2>3. QED
    BY <2>1, <2>2
<1>8. QED
  BY <1>4, <1>5, <1>6, <1>7 DEF AccessInv

\* The token endpoint: the code leaves the table whether or not it was right.
LEMMA TokenInv ==
  ASSUME AccessInv, None \notin Access!Entry, NEW req \in Access!Request, Access!Token(req)
  PROVE  AccessInv'
<1> DEFINE c == req.code
<1>1. c \in Codes
  BY DEF Access!Request
<1>2. codes' = [codes EXCEPT ![c] = None] /\ UNCHANGED <<clients, now, issued>>
  BY DEF Access!Token, Access!Pop
<1>3. codes' \in [Codes -> Access!Entry \cup {None}]
  BY <1>2 DEF AccessInv
<1>4. CASE Access!Valid(codes[c], req)
  <2>1. /\ granted' = [granted EXCEPT ![c] = @ + 1]
        /\ last' = [req |-> req, at |-> now]
    BY <1>4 DEF Access!Token
  <2>2. /\ codes[c] = issued[c] /\ granted[c] = 0
        /\ issued[c] # None /\ issued[c].uri \in AllowedUris
    BY <1>1, <1>4 DEF AccessInv, CodeInv, Access!Valid
  <2>3. granted' \in [Codes -> Nat]
    BY <1>1, <2>1, <2>2 DEF AccessInv
  <2>4. ASSUME NEW d \in Codes PROVE CodeInv(d)'
    <3>1. CASE d = c
      <4>1. granted'[d] = 1 /\ codes'[d] = None /\ issued'[d] = issued[d]
        BY <1>2, <2>1, <2>2, <3>1 DEF AccessInv
      <4>2. QED
        BY <4>1, <2>2, <3>1 DEF CodeInv
    <3>2. CASE d # c
      <4>1. codes'[d] = codes[d] /\ issued'[d] = issued[d] /\ granted'[d] = granted[d]
        BY <1>2, <2>1, <3>2 DEF AccessInv
      <4>2. QED
        BY <4>1 DEF AccessInv, CodeInv
    <3>3. QED
      BY <3>1, <3>2
  <2>5. GrantsAreBound'
    <3>1. last'.req = req /\ last'.at = now /\ issued' = issued
      BY <2>1, <1>2
    <3>2. issued[c] \in Access!Entry
      BY <1>1, <2>2 DEF AccessInv
    <3>3. now <= issued[c].expires
      BY <1>4, <2>2, <3>2 DEF Access!Valid, Access!Entry, AccessInv
    <3>4. QED
      BY <3>1, <3>3, <2>2, <1>4 DEF GrantsAreBound, Access!Valid
  <2>6. QED
    BY <1>2, <1>3, <2>3, <2>4, <2>5 DEF AccessInv
<1>5. CASE ~Access!Valid(codes[c], req)
  <2>1. UNCHANGED <<granted, last>>
    BY <1>5 DEF Access!Token
  <2>2. ASSUME NEW d \in Codes PROVE CodeInv(d)'
    <3>1. codes'[d] \in {codes[d], None}
      BY <1>2 DEF AccessInv
    <3>2. QED
      BY <3>1, <2>1, <1>2 DEF AccessInv, CodeInv
  <2>3. GrantsAreBound'
    BY <2>1, <1>2 DEF AccessInv, GrantsAreBound
  <2>4. QED
    BY <1>2, <1>3, <2>1, <2>2, <2>3 DEF AccessInv
<1>6. QED
  BY <1>4, <1>5

\* A restart and the passage of time take nothing back.
LEMMA RestartInv == ASSUME AccessInv, Access!Restart PROVE AccessInv'
<1>1. \A c \in Codes : CodeInv(c)'
  BY DEF AccessInv, Access!Restart, Access!history, CodeInv
<1>2. GrantsAreBound'
  BY DEF AccessInv, Access!Restart, Access!history, GrantsAreBound
<1>3. QED
  BY <1>1, <1>2 DEF AccessInv, Access!Restart, Access!history

LEMMA TickInv == ASSUME AccessInv, Access!Tick PROVE AccessInv'
<1>1. \A c \in Codes : CodeInv(c)'
  BY DEF AccessInv, Access!Tick, Access!history, CodeInv
<1>2. GrantsAreBound'
  BY DEF AccessInv, Access!Tick, Access!history, GrantsAreBound
<1>3. QED
  BY <1>1, <1>2 DEF AccessInv, Access!Tick, Access!history

LEMMA AccessStutter == ASSUME AccessInv, UNCHANGED Access!vars PROVE AccessInv'
<1>1. GrantsAreBound'
  BY DEF AccessInv, Access!vars, Access!history, GrantsAreBound
<1>2. QED
  BY <1>1 DEF AccessInv, Access!vars, Access!history, CodeInv

\* The invariant holds of every behaviour.
LEMMA AccessInvHolds ==
  ASSUME None \notin Access!Entry
  PROVE  Access!Spec => []AccessInv
<1>1. Access!Init => AccessInv
  BY AccessInit
<1>2. AccessInv /\ [Access!Next]_(Access!vars) => AccessInv'
  <2> SUFFICES ASSUME AccessInv, [Access!Next]_(Access!vars) PROVE AccessInv'
    OBVIOUS
  <2>1. CASE \E i \in ClientIds, uris \in SUBSET Uris : Access!Register(i, uris)
    BY <2>1, RegisterInv
  <2>2. CASE \E i \in ClientIds, u \in Uris, v \in Verifiers, c \in Codes :
               Access!Authorize(i, u, v, c)
    BY <2>2, AuthorizeInv, AccessAssumptions DEF Access!AllowedAssumption, Access!NumbersAssumption
  <2>3. CASE \E req \in Access!Request : Access!Token(req)
    BY <2>3, TokenInv
  <2>4. CASE Access!Restart
    BY <2>4, RestartInv
  <2>5. CASE Access!Tick
    BY <2>5, TickInv
  <2>6. CASE UNCHANGED Access!vars
    BY <2>6, AccessStutter
  <2>7. QED
    BY <2>1, <2>2, <2>3, <2>4, <2>5, <2>6 DEF Access!Next
<1>3. QED
  BY <1>1, <1>2, PTL DEF Access!Spec

\* "pop, not get: makes the code single-use": over any number of replays, wrong
\* guesses and restarts a code is traded for the token at most once.
THEOREM SingleUse ==
  ASSUME None \notin Access!Entry
  PROVE  Access!Spec => []CodesAreSingleUse
<1>1. AccessInv => CodesAreSingleUse
  BY DEF AccessInv, CodeInv, CodesAreSingleUse
<1>2. QED
  BY <1>1, AccessInvHolds, PTL

\* The token goes out only for the client, callback and verifier a code was
\* issued for, to an allowed callback, and in time.
THEOREM Bound ==
  ASSUME None \notin Access!Entry
  PROVE  Access!Spec => []GrantsAreBound
<1>1. AccessInv => GrantsAreBound
  BY DEF AccessInv
<1>2. QED
  BY <1>1, AccessInvHolds, PTL

-----------------------------------------------------------------------------
(* The deletions and their log.                                            *)

Stages == {"new", "asked", "logged", "called", "done", "failed"}

Logged(r) == <<r, target[r]>> \in deleteLog

\* Of one request: it is logged before its call goes out, and once the tool has
\* answered it the capture is gone.
RequestInv(r) ==
  /\ stage[r] \in {"logged", "called", "done"} => Logged(r)
  /\ r \in wire \/ deleted[r] # NoCall => Logged(r)
  /\ stage[r] = "new" => r \notin wire /\ deleted[r] = NoCall
  /\ stage[r] # "new" => target[r] \in seen
  /\ stage[r] = "done" => deleted[r] # NoCall
  /\ deleted[r] # NoCall => target[r] \notin Live

\* Of one row of the log: it is the row of its request, which has been logged.
RowInv(e) ==
  /\ e[1] \in Requests
  /\ e[2] = target[e[1]]
  /\ stage[e[1]] \notin {"new", "asked"}

AuditInv ==
  /\ stage \in [Requests -> Stages]
  /\ target \in [Requests -> Ids \cup {NoCall}]
  /\ deleted \in [Requests -> BOOLEAN \cup {NoCall}]
  /\ \A r \in Requests : RequestInv(r)
  /\ \A e \in deleteLog : RowInv(e)
  /\ DeletedOnce

LEMMA AuditInit == ASSUME NoCall \notin BOOLEAN, Init PROVE AuditInv
  BY DEF Init, AuditInv, Stages, RequestInv, RowInv, DeletedOnce

\* Other clients save and delete, but an id that was seen and is gone stays gone.
LEMMA OtherClientInv == ASSUME AuditInv, OtherClient PROVE AuditInv'
<1>1. UNCHANGED <<stage, target, deleteLog, wire, deleted>>
  BY DEF OtherClient, gui
<1>2. \A id \in seen : id \notin Live => id \notin Live'
  BY DEF OtherClient, Live
<1>3. seen \subseteq seen'
  BY DEF OtherClient
<1>4. ASSUME NEW r \in Requests PROVE RequestInv(r)'
  <2>1. RequestInv(r)
    BY DEF AuditInv
  <2>2. deleted[r] # NoCall => target[r] \notin Live'
    BY <2>1, <1>2 DEF RequestInv
  <2>3. QED
    BY <2>1, <2>2, <1>1, <1>3 DEF RequestInv, Logged
<1>5. QED
  BY <1>1, <1>4 DEF AuditInv, RowInv, DeletedOnce

\* A request is sent once, and nothing had happened for it.
LEMMA RequestStepInv ==
  ASSUME AuditInv, NoCall \notin BOOLEAN,
         NEW r \in Requests, NEW id \in Ids, Request(r, id)
  PROVE  AuditInv'
<1>1. /\ stage[r] = "new" /\ id \in seen
      /\ stage' = [stage EXCEPT ![r] = "asked"]
      /\ target' = [target EXCEPT ![r] = id]
      /\ UNCHANGED <<seen, deleteLog, wire, deleted, captures>>
  BY DEF Request, Goto, brain
<1>2. /\ stage' \in [Requests -> Stages]
      /\ target' \in [Requests -> Ids \cup {NoCall}]
      /\ deleted' \in [Requests -> BOOLEAN \cup {NoCall}]
  BY <1>1 DEF AuditInv, Stages
<1>3. r \notin wire /\ deleted[r] = NoCall
  BY <1>1 DEF AuditInv, RequestInv
<1>4. ASSUME NEW q \in Requests PROVE RequestInv(q)'
  <2>1. CASE q = r
    <3>1. stage'[q] = "asked" /\ target'[q] \in seen'
      BY <1>1, <2>1 DEF AuditInv
    <3>2. QED
      BY <3>1, <1>1, <1>3, <2>1 DEF RequestInv
  <2>2. CASE q # r
    <3>1. stage'[q] = stage[q] /\ target'[q] = target[q]
      BY <1>1, <2>2 DEF AuditInv
    <3>2. RequestInv(q)
      BY DEF AuditInv
    <3>3. QED
      BY <3>1, <3>2, <1>1 DEF RequestInv, Logged, Live
  <2>3. QED
    BY <2>1, <2>2
<1>5. ASSUME NEW e \in deleteLog' PROVE RowInv(e)'
  <2>1. RowInv(e) /\ e[1] # r
    BY <1>1 DEF AuditInv, RowInv
  <2>2. stage'[e[1]] = stage[e[1]] /\ target'[e[1]] = target[e[1]]
    BY <1>1, <2>1 DEF AuditInv, RowInv
  <2>3. QED
    BY <2>1, <2>2 DEF RowInv
<1>6. DeletedOnce'
  <2> SUFFICES ASSUME NEW p \in Requests, NEW q \in Requests,
                      deleted'[p] = TRUE, deleted'[q] = TRUE, p # q
               PROVE  target'[p] # target'[q]
    BY DEF DeletedOnce
  <2>1. p # r /\ q # r
    BY <1>1, <1>3
  <2>2. QED
    BY <2>1, <1>1 DEF AuditInv, DeletedOnce
<1>7. QED
  BY <1>2, <1>4, <1>5, <1>6 DEF AuditInv

\* The row is committed under the request's own number and target.
LEMMA LogDeletionInv ==
  ASSUME AuditInv, NEW r \in Requests, LogDeletion(r) PROVE AuditInv'
<1>1. /\ stage[r] = "asked"
      /\ stage' = [stage EXCEPT ![r] = "logged"]
      /\ deleteLog' = deleteLog \cup {<<r, target[r]>>}
      /\ UNCHANGED <<seen, target, wire, deleted, captures>>
  BY DEF LogDeletion, Goto, brain
<1>2. stage' \in [Requests -> Stages]
  BY <1>1 DEF AuditInv, Stages
<1>3. ASSUME NEW q \in Requests PROVE RequestInv(q)'
  <2>1. stage'[q] = IF q = r THEN "logged" ELSE stage[q]
    BY <1>1 DEF AuditInv
  <2>2. RequestInv(q)
    BY DEF AuditInv
  <2>3. QED
    BY <2>1, <2>2, <1>1 DEF RequestInv, Logged, Live
<1>4. ASSUME NEW e \in deleteLog' PROVE RowInv(e)'
  <2>1. CASE e = <<r, target[r]>>
    BY <2>1, <1>1 DEF RowInv, AuditInv
  <2>2. CASE e \in deleteLog
    <3>1. RowInv(e)
      BY <2>2 DEF AuditInv
    <3>2. stage'[e[1]] \in {stage[e[1]], "logged"}
      BY <3>1, <1>1 DEF AuditInv, RowInv
    <3>3. QED
      BY <3>1, <3>2, <1>1 DEF RowInv
  <2>3. QED
    BY <1>1, <2>1, <2>2
<1>5. QED
  BY <1>1, <1>2, <1>3, <1>4 DEF AuditInv, DeletedOnce

\* A stage that moves on after the row was written takes nothing back: this is
\* the call, the answer and every failure.
LEMMA MoveInv ==
  ASSUME AuditInv, NEW r \in Requests, NEW to \in {"called", "done", "failed"},
         stage[r] # "new",
         to \in {"called", "done"} => Logged(r),
         to = "done" => deleted[r] # NoCall,
         stage' = [stage EXCEPT ![r] = to],
         wire' \in {wire, wire \cup {r}},
         wire' # wire => Logged(r),
         UNCHANGED <<seen, target, deleteLog, deleted, captures>>
  PROVE  AuditInv'
<1>1. stage' \in [Requests -> Stages]
  BY DEF AuditInv, Stages
<1>2. ASSUME NEW q \in Requests PROVE RequestInv(q)'
  <2>1. stage'[q] = IF q = r THEN to ELSE stage[q]
    BY DEF AuditInv
  <2>2. RequestInv(q)
    BY DEF AuditInv
  <2>3. QED
    BY <2>1, <2>2 DEF RequestInv, Logged, Live
<1>3. ASSUME NEW e \in deleteLog' PROVE RowInv(e)'
  <2>1. RowInv(e)
    BY DEF AuditInv
  <2>2. stage'[e[1]] \in {stage[e[1]], to}
    BY <2>1 DEF AuditInv, RowInv
  <2>3. QED
    BY <2>1, <2>2 DEF RowInv
<1>4. QED
  BY <1>1, <1>2, <1>3 DEF AuditInv, DeletedOnce

LEMMA HandlerInv == ASSUME AuditInv, NEW r \in Requests, Handler(r) PROVE AuditInv'
<1>1. CASE LogDeletion(r)
  BY <1>1, LogDeletionInv
<1>2. CASE CallDelete(r)
  <2>1. stage[r] = "logged" /\ stage' = [stage EXCEPT ![r] = "called"]
    BY <1>2 DEF CallDelete, Goto
  <2>2. wire' = wire \cup {r} /\ UNCHANGED <<seen, target, deleteLog, deleted, captures>>
    BY <1>2 DEF CallDelete, brain
  <2>3. Logged(r)
    BY <2>1 DEF AuditInv, RequestInv
  <2>4. QED
    BY <2>1, <2>2, <2>3, MoveInv
<1>3. CASE Reply(r)
  <2>1. /\ stage[r] = "called" /\ stage' = [stage EXCEPT ![r] = "done"]
        /\ deleted[r] # NoCall
    BY <1>3 DEF Reply, Goto
  <2>2. wire' = wire /\ UNCHANGED <<seen, target, deleteLog, deleted, captures>>
    BY <1>3 DEF Reply, brain
  <2>3. Logged(r)
    BY <2>1 DEF AuditInv, RequestInv
  <2>4. QED
    BY <2>1, <2>2, <2>3, MoveInv
<1>4. CASE Fail(r)
  <2>1. stage[r] # "new" /\ stage' = [stage EXCEPT ![r] = "failed"]
    BY <1>4 DEF Fail
  <2>2. wire' = wire /\ UNCHANGED <<seen, target, deleteLog, deleted, captures>>
    BY <1>4 DEF Fail, brain
  <2>3. QED
    BY <2>1, <2>2, MoveInv
<1>5. QED
  BY <1>1, <1>2, <1>3, <1>4 DEF Handler

\* The tool removes the capture if it is there, and it answers which.
LEMMA ExecuteInv ==
  ASSUME AuditInv, NoCall \notin BOOLEAN, NEW r \in Requests, Execute(r) PROVE AuditInv'
<1>1. /\ r \in wire /\ wire' = wire \ {r}
      /\ deleted' = [deleted EXCEPT ![r] = target[r] \in Live]
      /\ captures' = {c \in captures : c.id # target[r]}
      /\ UNCHANGED <<seen, stage, target, deleteLog>>
  BY DEF Execute, Store!Delete
<1>2. target[r] \notin Live' /\ Live' \subseteq Live
  BY <1>1 DEF Live
<1>3. Logged(r) /\ stage[r] # "new"
  BY <1>1 DEF AuditInv, RequestInv
<1>4. deleted' \in [Requests -> BOOLEAN \cup {NoCall}]
  BY <1>1 DEF AuditInv
<1>5. ASSUME NEW q \in Requests PROVE RequestInv(q)'
  <2>1. RequestInv(q)
    BY DEF AuditInv
  <2>2. CASE q = r
    <3>1. deleted'[q] # NoCall
      <4>1. deleted'[q] = (target[r] \in Live)
        BY <1>1, <2>2 DEF AuditInv
      <4>2. deleted'[q] \in BOOLEAN
        BY <4>1
      <4>3. QED
        BY <4>2
    <3>2. QED
      BY <3>1, <2>1, <2>2, <1>1, <1>2, <1>3 DEF RequestInv, Logged
  <2>3. CASE q # r
    <3>1. deleted'[q] = deleted[q]
      BY <1>1, <2>3 DEF AuditInv
    <3>2. QED
      BY <3>1, <2>1, <2>3, <1>1, <1>2 DEF RequestInv, Logged
  <2>4. QED
    BY <2>2, <2>3
<1>6. DeletedOnce'
  <2> SUFFICES ASSUME NEW p \in Requests, NEW q \in Requests, p # q,
                      deleted'[p] = TRUE, deleted'[q] = TRUE
               PROVE  target[p] # target[q]
    BY <1>1 DEF DeletedOnce
  <2>1. ASSUME NEW s \in Requests, deleted[s] = TRUE PROVE target[s] \notin Live
    BY <2>1 DEF AuditInv, RequestInv
  <2>2. deleted'[r] = TRUE => target[r] \in Live
    BY <1>1 DEF AuditInv
  <2>3. CASE p = r
    <3>1. deleted[q] = TRUE
      BY <2>3, <1>1 DEF AuditInv
    <3>2. QED
      BY <3>1, <2>1, <2>2, <2>3
  <2>4. CASE q = r
    <3>1. deleted[p] = TRUE
      BY <2>4, <1>1 DEF AuditInv
    <3>2. QED
      BY <3>1, <2>1, <2>2, <2>4
  <2>5. CASE p # r /\ q # r
    BY <2>5, <1>1 DEF AuditInv, DeletedOnce
  <2>6. QED
    BY <2>3, <2>4, <2>5
<1>7. QED
  BY <1>1, <1>4, <1>5, <1>6 DEF AuditInv, RowInv

\* A call that never arrives changes nothing that was written.
LEMMA LoseInv == ASSUME AuditInv, NEW r \in Requests, Lose(r) PROVE AuditInv'
<1>1. wire' = wire \ {r} /\ UNCHANGED <<seen, stage, target, deleteLog, deleted, captures>>
  BY DEF Lose, brain
<1>2. ASSUME NEW q \in Requests PROVE RequestInv(q)'
  <2>1. RequestInv(q)
    BY DEF AuditInv
  <2>2. QED
    BY <2>1, <1>1 DEF RequestInv, Logged, Live
<1>3. QED
  BY <1>1, <1>2 DEF AuditInv, RowInv, DeletedOnce

LEMMA AuditStutter == ASSUME AuditInv, UNCHANGED vars PROVE AuditInv'
<1>1. ASSUME NEW q \in Requests PROVE RequestInv(q)'
  <2>1. RequestInv(q)
    BY DEF AuditInv
  <2>2. QED
    BY <2>1 DEF vars, RequestInv, Logged, Live
<1>2. QED
  BY <1>1 DEF AuditInv, vars, RowInv, DeletedOnce

LEMMA AuditInvHolds == ASSUME NoCall \notin BOOLEAN PROVE Spec => []AuditInv
<1>1. Init => AuditInv
  BY AuditInit
<1>2. AuditInv /\ [Next]_vars => AuditInv'
  <2> SUFFICES ASSUME AuditInv, [Next]_vars PROVE AuditInv'
    OBVIOUS
  <2>1. CASE OtherClient
    BY <2>1, OtherClientInv
  <2>2. CASE \E r \in Requests, id \in Ids : Request(r, id)
    BY <2>2, RequestStepInv
  <2>3. CASE \E r \in Requests : Handler(r)
    BY <2>3, HandlerInv
  <2>4. CASE \E r \in Requests : Execute(r)
    BY <2>4, ExecuteInv
  <2>5. CASE \E r \in Requests : Lose(r)
    BY <2>5, LoseInv
  <2>6. CASE UNCHANGED vars
    BY <2>6, AuditStutter
  <2>7. QED
    BY <2>1, <2>2, <2>3, <2>4, <2>5, <2>6 DEF Next
<1>3. QED
  BY <1>1, <1>2, PTL DEF Spec

\* "A silent deletion with zero log entry can't happen": a capture that a
\* request of the GUI removed is in the delete log, whatever failed or was lost.
THEOREM NothingSilent ==
  ASSUME NoCall \notin BOOLEAN PROVE Spec => []NoSilentDeletion
<1>1. AuditInv => NoSilentDeletion
  <2> SUFFICES ASSUME AuditInv, NEW r \in Requests, deleted[r] = TRUE
               PROVE  \E e \in deleteLog : e[2] = target[r]
    BY DEF NoSilentDeletion
  <2>1. <<r, target[r]>> \in deleteLog
    BY DEF AuditInv, RequestInv, Logged
  <2>2. QED
    BY <2>1
<1>2. QED
  BY <1>1, AuditInvHolds, PTL

\* A row of the log whose capture is still there belongs to a request that is
\* not through, or that ended in an error.
THEOREM OrphansExplained ==
  ASSUME NoCall \notin BOOLEAN PROVE Spec => []OrphanNeedsFailure
<1>1. AuditInv => OrphanNeedsFailure
  <2> SUFFICES ASSUME AuditInv, NEW e \in deleteLog, e[2] \in Live
               PROVE  stage[e[1]] \in {"logged", "called", "failed"}
    BY DEF OrphanNeedsFailure
  <2>1. RowInv(e) /\ RequestInv(e[1])
    BY DEF AuditInv, RowInv
  <2>2. stage[e[1]] \in Stages /\ stage[e[1]] # "done"
    BY <2>1 DEF AuditInv, RowInv, RequestInv
  <2>3. QED
    BY <2>1, <2>2 DEF RowInv, Stages
<1>2. QED
  BY <1>1, AuditInvHolds, PTL

\* Two requests never both get to hear that they removed the same capture.
THEOREM RemovedOnce ==
  ASSUME NoCall \notin BOOLEAN PROVE Spec => []DeletedOnce
<1>1. AuditInv => DeletedOnce
  BY DEF AuditInv
<1>2. QED
  BY <1>1, AuditInvHolds, PTL

-----------------------------------------------------------------------------
(* The keyword graph.                                                      *)

\* A set of numbers that is not empty has a least element.
LEMMA Least ==
  ASSUME NEW T, T \subseteq Nat, T # {}
  PROVE  \E m \in T : \A n \in T : m <= n
<1>1. PICK m \in T : \A n \in T : <<n, m>> \notin OpToRel(<, Nat)
  BY NatLessThanWellFounded, WFMin, Zenon
<1>2. \A n \in T : ~(n < m)
  BY <1>1 DEF OpToRel
<1>3. QED
  BY <1>2

\* The theorems on finite sets speak of the module's own Cardinality.
LEMMA SameSize == ASSUME NEW S PROVE Graph!Cardinality(S) = Cardinality(S)
  BY DEF Graph!Cardinality, Cardinality, Graph!IsFiniteSet, IsFiniteSet

\* The size of a count over some clusters.
Total(f, S) == Graph!MapThenSumSet(LAMBDA c : f[c], S)

\* What is left when the cluster the sum takes first is taken away.
Pick(s) == CHOOSE c \in s : TRUE
Unfolded(h, f, s) == IF s = {} THEN 0 ELSE f[Pick(s)] + h[s \ {Pick(s)}]
IsTotal(h, f, S) == h = [s \in SUBSET S |-> Unfolded(h, f, s)]

LEMMA PickIn == ASSUME NEW s, s # {} PROVE Pick(s) \in s
  BY DEF Pick

LEMMA TotalUnfolds ==
  ASSUME NEW f, NEW S
  PROVE  Total(f, S) = (CHOOSE h : IsTotal(h, f, S))[S]
  BY Zenon DEF Total, Graph!MapThenSumSet, Graph!MapThenFoldSet, IsTotal, Unfolded, Pick

LEMMA NodeCount ==
  ASSUME NEW listed, NEW clusters, NEW kw \in Keywords,
         Graph!Behind(listed, clusters, kw) # {}
  PROVE  /\ kw \in DOMAIN Graph!Graph(listed, clusters).keywords
         /\ Graph!Graph(listed, clusters).keywords[kw].count =
              Total(Graph!Tally(listed, clusters, kw), DOMAIN clusters)
  BY Zenon DEF Graph!Graph, Total, Graph!MapThenSumSet, Graph!MapThenFoldSet

\* Counting what belongs to some labels, label by label, counts everything that
\* has one of them.
LEMMA TotalIsSize ==
  ASSUME NEW B, IsFiniteSet(B), NEW C, IsFiniteSet(C),
         NEW label, \A b \in B : label[b] \in C,
         NEW f, \A c \in C : f[c] = Cardinality({b \in B : label[b] = c})
  PROVE  Total(f, C) = Cardinality(B)
<1> DEFINE Part(s) == {b \in B : label[b] \in s}
           g == [s \in SUBSET C |-> Cardinality(Part(s))]
           h == CHOOSE i : IsTotal(i, f, C)
<1>1. ASSUME NEW s \in SUBSET C, s # {}
      PROVE  Cardinality(Part(s)) = f[Pick(s)] + Cardinality(Part(s \ {Pick(s)}))
  <2> DEFINE One  == {b \in B : label[b] = Pick(s)}
             Rest == Part(s \ {Pick(s)})
  <2>1. Pick(s) \in s
    BY <1>1, PickIn
  <2>2. Part(s) = One \cup Rest /\ One \cap Rest = {}
    BY <2>1
  <2>3. IsFiniteSet(One) /\ IsFiniteSet(Rest)
    BY FS_Subset
  <2>4. /\ Cardinality(One \cup Rest) =
             Cardinality(One) + Cardinality(Rest) - Cardinality(One \cap Rest)
        /\ Cardinality(One) \in Nat /\ Cardinality(Rest) \in Nat
    BY <2>3, FS_Union, FS_CardinalityType
  <2>5. Cardinality(One \cap Rest) = 0
    BY <2>2, FS_EmptySet
  <2>6. f[Pick(s)] = Cardinality(One)
    BY <2>1
  <2> HIDE DEF One, Rest
  <2>7. Cardinality(One \cup Rest) = f[Pick(s)] + Cardinality(Rest)
    BY <2>4, <2>5, <2>6
  <2>8. QED
    BY <2>2, <2>7 DEF Rest
<1>2. Part({}) = {}
  OBVIOUS
<1>3. ASSUME NEW s \in SUBSET C PROVE g[s] = Unfolded(g, f, s)
  <2>1. CASE s = {}
    BY <2>1, <1>2, FS_EmptySet DEF Unfolded
  <2>2. CASE s # {}
    <3>1. s \ {Pick(s)} \in SUBSET C
      OBVIOUS
    <3>2. g[s] = Cardinality(Part(s)) /\ g[s \ {Pick(s)}] = Cardinality(Part(s \ {Pick(s)}))
      BY <3>1
    <3> HIDE DEF g, Part
    <3>3. QED
      BY <2>2, <3>2, <1>1 DEF Unfolded
  <2>3. QED
    BY <2>1, <2>2
<1> HIDE DEF Part
<1>4. IsTotal(g, f, C)
  <2>1. g = [s \in SUBSET C |-> g[s]]
    OBVIOUS
  <2> HIDE DEF g
  <2>2. QED
    BY <1>3, <2>1 DEF IsTotal
<1>5. IsTotal(h, f, C)
  <2> HIDE DEF g
  <2>1. QED
    BY <1>4
<1>6. ASSUME NEW s \in SUBSET C PROVE h[s] = Unfolded(h, f, s)
  <2> HIDE DEF h
  <2>1. QED
    BY <1>5 DEF IsTotal
<1> HIDE DEF g, h
<1>7. \A s \in SUBSET C : IsFiniteSet(s) /\ Cardinality(s) \in Nat
  BY FS_Subset, FS_CardinalityType
<1>8. \A s \in SUBSET C : h[s] = g[s]
  <2> DEFINE Wrong == {s \in SUBSET C : h[s] # g[s]}
             Sizes == {Cardinality(s) : s \in Wrong}
  <2>1. SUFFICES ASSUME Wrong # {} PROVE FALSE
    OBVIOUS
  <2>2. Sizes \subseteq Nat /\ Sizes # {}
    BY <2>1, <1>7
  <2>3. PICK s \in Wrong : \A t \in Wrong : Cardinality(s) <= Cardinality(t)
    <3>1. PICK m \in Sizes : \A n \in Sizes : m <= n
      <4> HIDE DEF Sizes
      <4>1. QED
        BY <2>2, Least
    <3>2. QED
      BY <3>1
  <2>4. CASE s = {}
    BY <2>3, <2>4, <1>3, <1>6 DEF Unfolded
  <2>5. CASE s # {}
    <3>1. Pick(s) \in s /\ s \in SUBSET C
      BY <2>3, <2>5, PickIn
    <3>2. Cardinality(s \ {Pick(s)}) = Cardinality(s) - 1 /\ Cardinality(s) \in Nat
      BY <3>1, <1>7, FS_RemoveElement
    <3>3. s \ {Pick(s)} \notin Wrong
      BY <2>3, <3>2
    <3>4. h[s \ {Pick(s)}] = g[s \ {Pick(s)}]
      BY <3>1, <3>3
    <3>5. h[s] = g[s]
      BY <3>1, <3>4, <2>5, <1>3, <1>6 DEF Unfolded
    <3>6. QED
      BY <2>3, <3>5
  <2>6. QED
    BY <2>4, <2>5
<1>9. h[C] = Cardinality(B)
  <2>1. Part(C) = B
    BY DEF Part
  <2>2. QED
    BY <1>8, <2>1 DEF g
<1>10. QED
  BY <1>9, TotalUnfolds DEF h

-----------------------------------------------------------------------------
\* Of the counts of some clusters one dominates.
LEMMA DominantExists ==
  ASSUME NEW n, DOMAIN n \subseteq Nat, DOMAIN n # {}, NEW bound \in Nat,
         \A c \in DOMAIN n : n[c] \in 0..bound
  PROVE  /\ Graph!Dominant(n) \in DOMAIN n
         /\ \A c \in DOMAIN n : n[c] <= n[Graph!Dominant(n)]
<1> DEFINE Short == {bound - n[c] : c \in DOMAIN n}
<1>1. Short \subseteq Nat /\ Short # {}
  OBVIOUS
<1>2. PICK a \in DOMAIN n : \A c \in DOMAIN n : n[c] <= n[a]
  <2>1. PICK m \in Short : \A i \in Short : m <= i
    <3> HIDE DEF Short
    <3>1. QED
      BY <1>1, Least
  <2>2. PICK a \in DOMAIN n : m = bound - n[a]
    BY <2>1
  <2>3. \A c \in DOMAIN n : bound - n[a] <= bound - n[c]
    BY <2>1, <2>2
  <2>4. QED
    BY <2>3
<1> DEFINE Best == {c \in DOMAIN n : n[c] = n[a]}
<1>3. PICK d \in Best : \A c \in Best : d <= c
  <2>1. Best \subseteq Nat /\ Best # {}
    BY <1>2
  <2> HIDE DEF Best
  <2>2. QED
    BY <2>1, Least
<1>4. d \in DOMAIN n /\ \A c \in DOMAIN n : n[d] > n[c] \/ (n[d] = n[c] /\ d <= c)
  BY <1>2, <1>3
<1>5. /\ Graph!Dominant(n) \in DOMAIN n
      /\ \A c \in DOMAIN n : \/ n[Graph!Dominant(n)] > n[c]
                             \/ n[Graph!Dominant(n)] = n[c] /\ Graph!Dominant(n) <= c
  BY <1>4 DEF Graph!Dominant
<1>6. QED
  BY <1>5

-----------------------------------------------------------------------------
\* GraphAddsUp, of any graph.
AddsUp(g) ==
  \A kw \in DOMAIN g.keywords :
    LET node == g.keywords[kw]
        share(c) == Cardinality(node.captures \cap g.clusters[c].captures)
    IN  /\ node.count = Cardinality(node.captures)
        /\ node.count > 0
        /\ node.cluster \in DOMAIN g.clusters
        /\ \A c \in DOMAIN g.clusters : share(c) <= share(node.cluster)
        /\ \A id \in node.captures :
             \E c \in DOMAIN g.clusters : id \in g.clusters[c].captures

\* A load asks for a number the user could choose, and its answer adds up.
LoadInv(l) ==
  /\ DOMAIN l = {"at", "k", "captures", "result"}
  /\ l.k \in KChoices \cup {None}
  /\ AddsUp(l.result.graph)

\* What is on display adds up, and so does every answer on its way.
GraphInv ==
  /\ IsFiniteSet(DOMAIN store)
  /\ clusterK \in KChoices \cup {None}
  /\ AddsUp(data.graph)
  /\ load = [i \in 1 .. MaxLoads |-> load[i]]
  /\ \A i \in 1 .. MaxLoads : LoadInv(load[i])

\* A graph made of any listed captures and any clusters, of other captures maybe,
\* adds up.
LEMMA GraphsAddUp ==
  ASSUME NEW listed, NEW members, IsFiniteSet(members), NEW k \in Nat, k > 0,
         NEW label \in [members -> 0 .. k - 1], NEW clusters,
         clusters = [c \in 0 .. k - 1 |-> {id \in members : label[id] = c}]
  PROVE  AddsUp(Graph!Graph(listed, clusters))
<1> DEFINE g == Graph!Graph(listed, clusters)
<1>1. ASSUME NEW kw \in DOMAIN g.keywords
      PROVE  /\ g.keywords[kw].count = Total(Graph!Tally(listed, clusters, kw), DOMAIN clusters)
             /\ g.keywords[kw].captures = Graph!Behind(listed, clusters, kw)
             /\ g.keywords[kw].cluster = Graph!Dominant(Graph!Tally(listed, clusters, kw))
             /\ Graph!Behind(listed, clusters, kw) # {}
  <2>1. kw \in Keywords /\ Graph!Behind(listed, clusters, kw) # {}
    BY Zenon DEF Graph!Graph
  <2>2. g.keywords[kw].count = Total(Graph!Tally(listed, clusters, kw), DOMAIN clusters)
    BY <2>1, NodeCount
  <2>3. /\ g.keywords[kw].captures = Graph!Behind(listed, clusters, kw)
        /\ g.keywords[kw].cluster = Graph!Dominant(Graph!Tally(listed, clusters, kw))
    BY <2>1 DEF Graph!Graph
  <2>4. QED
    BY <2>1, <2>2, <2>3
<1>2. /\ DOMAIN g.clusters = DOMAIN clusters
      /\ \A c \in DOMAIN clusters : g.clusters[c].captures = clusters[c]
  BY DEF Graph!Graph
<1> HIDE DEF g
<1>3. ASSUME NEW kw \in DOMAIN g.keywords
      PROVE  LET node == g.keywords[kw]
                 share(c) == Cardinality(node.captures \cap g.clusters[c].captures)
             IN  /\ node.count = Cardinality(node.captures)
                 /\ node.count > 0
                 /\ node.cluster \in DOMAIN g.clusters
                 /\ \A c \in DOMAIN g.clusters : share(c) <= share(node.cluster)
                 /\ \A id \in node.captures :
                      \E c \in DOMAIN g.clusters : id \in g.clusters[c].captures
  <2> DEFINE B == Graph!Behind(listed, clusters, kw)
             n == Graph!Tally(listed, clusters, kw)
             C == 0 .. k - 1
             Of(c) == {id \in B : label[id] = c}
  <2>1. B \subseteq members /\ B # {} /\ \A id \in B : label[id] \in C
    BY <1>1 DEF Graph!Behind
  <2>2. IsFiniteSet(B) /\ IsFiniteSet(C) /\ Cardinality(B) \in Nat /\ Cardinality(B) > 0
    <3> HIDE DEF B
    <3>1. IsFiniteSet(B)
      BY <2>1, FS_Subset
    <3>2. IsFiniteSet(C)
      BY FS_Interval
    <3>3. Cardinality(B) \in Nat /\ Cardinality(B) # 0
      BY <2>1, <3>1, FS_CardinalityType, FS_EmptySet
    <3>4. QED
      BY <3>1, <3>2, <3>3
  <2>3. \A c \in C : B \cap clusters[c] = Of(c)
    BY DEF Graph!Behind
  <2>4. DOMAIN n = C /\ \A c \in C : n[c] = Cardinality(Of(c))
    <3>1. \A c \in C : {i \in clusters[c] \cap DOMAIN listed : kw \in listed[i]} = Of(c)
      BY DEF Graph!Behind
    <3>2. DOMAIN n = C
      BY DEF Graph!Tally
    <3>3. ASSUME NEW c \in C PROVE n[c] = Cardinality(Of(c))
      <4>1. n[c] = Graph!Cardinality({i \in clusters[c] \cap DOMAIN listed : kw \in listed[i]})
        BY DEF Graph!Tally
      <4>2. QED
        BY <3>1, <4>1, SameSize
    <3>4. QED
      BY <3>2, <3>3
  <2> HIDE DEF B, n
  <2>5. ASSUME NEW c \in C PROVE n[c] \in 0 .. Cardinality(B)
    <3>1. Of(c) \in SUBSET B
      OBVIOUS
    <3>2. /\ IsFiniteSet(Of(c)) /\ Cardinality(Of(c)) <= Cardinality(B)
      BY <3>1, <2>2, FS_Subset
    <3>3. Cardinality(Of(c)) \in Nat
      BY <3>2, FS_CardinalityType
    <3> HIDE DEF C, Of
    <3>4. QED
      BY <2>2, <2>4, <3>2, <3>3
  <2>6. Total(n, C) = Cardinality(B)
    <3> HIDE DEF C
    <3>1. QED
      BY <2>1, <2>2, <2>4, TotalIsSize
  <2>7. C # {} /\ C \subseteq Nat
    OBVIOUS
  <2>8. Graph!Dominant(n) \in C /\ \A c \in C : n[c] <= n[Graph!Dominant(n)]
    BY <2>2, <2>4, <2>5, <2>7, DominantExists
  <2>9. /\ g.keywords[kw].count = Total(n, C) /\ g.keywords[kw].captures = B
        /\ g.keywords[kw].cluster = Graph!Dominant(n)
    BY <1>1 DEF B, n
  <2>10. \A c \in C : Cardinality(B \cap g.clusters[c].captures) = n[c]
    BY <1>2, <2>3, <2>4
  <2>11. \A id \in B : \E c \in C : id \in g.clusters[c].captures
    BY <1>2, <2>1, <2>3
  <2>12. DOMAIN g.clusters = C
    BY <1>2
  <2> HIDE DEF C
  <2>13. QED
    BY <2>2, <2>6, <2>8, <2>9, <2>10, <2>11, <2>12
<1>4. QED
  BY <1>3 DEF AddsUp, g

LEMMA NoGraphAddsUp == AddsUp(Graph!NoGraph)
  BY DEF AddsUp, Graph!NoGraph

-----------------------------------------------------------------------------
(* The steps of the handler and of the page.                               *)

LEMMA NothingAddsUp == AddsUp(Graph!Nothing.graph) /\ AddsUp(Graph!Failed.graph)
  BY NoGraphAddsUp DEF Graph!Nothing, Graph!Failed, Graph!Result

LEMMA ListedFinite == \A s \in SUBSET Listed : IsFiniteSet(s)
<1>1. IsFiniteSet(Listed)
  BY GraphAssumptions DEF Graph!IdsAssumption, Graph!IsFiniteSet, IsFiniteSet
<1>2. QED
  BY <1>1, FS_Subset

LEMMA GraphInit == ASSUME Graph!Init PROVE GraphInv
<1>1. IsFiniteSet(DOMAIN store)
  BY ListedFinite DEF Graph!Init, Graph!Stores
<1>2. QED
  BY <1>1, NoGraphAddsUp
     DEF Graph!Init, GraphInv, LoadInv, Graph!Nothing, Graph!NoLoad, Graph!Result

\* An answer that adds up takes the place of the answer of its load.
LEMMA AnswerAddsUp ==
  ASSUME GraphInv, NEW i \in 1 .. MaxLoads, NEW r, AddsUp(r.graph),
         Graph!Answer(i, r), UNCHANGED <<store, loads, Graph!page>>
  PROVE  GraphInv'
<1>1. load' = [load EXCEPT ![i] = [load[i] EXCEPT !.at = "answer", !.result = r]]
  BY DEF Graph!Answer
<1>2. LoadInv([load[i] EXCEPT !.at = "answer", !.result = r])
  <2> DEFINE l == [load[i] EXCEPT !.at = "answer", !.result = r]
  <2>1. LoadInv(load[i])
    BY DEF GraphInv
  <2>2. DOMAIN l = {"at", "k", "captures", "result"} /\ l.k = load[i].k /\ l.result = r
    BY <2>1 DEF LoadInv
  <2>3. QED
    BY <2>1, <2>2 DEF LoadInv
<1>3. QED
  BY <1>1, <1>2 DEF GraphInv, Graph!page


LEMMA ClusterStep ==
  ASSUME GraphInv, NEW i \in 1 .. MaxLoads, Graph!Cluster(i)
  PROVE  GraphInv'
<1>1. CASE Graph!TooFew(load[i].k)
  <2> DEFINE r == Graph!Result("few", load[i].k,
                    Graph!Cardinality(DOMAIN load[i].captures), Graph!NoGraph)
  <2>1. Graph!Answer(i, r) /\ UNCHANGED <<store, loads, Graph!page>>
    BY <1>1 DEF Graph!Cluster
  <2>2. AddsUp(r.graph)
    BY NoGraphAddsUp DEF Graph!Result
  <2> HIDE DEF r
  <2>3. QED
    BY <2>1, <2>2, AnswerAddsUp
<1>2. CASE ~Graph!TooFew(load[i].k)
  <2> DEFINE Sent(k, label) ==
               Graph!Answer(i, Graph!Result("graph", load[i].k, 0,
                 Graph!Graph(load[i].captures,
                   [c \in 0 .. k - 1 |-> {id \in DOMAIN store : label[id] = c}])))
  <2>a. PICK k \in Graph!ClusterCounts(load[i].k) :
          \E label \in [DOMAIN store -> 0 .. k - 1] : Sent(k, label)
    BY <1>2 DEF Graph!Cluster
  <2>1. PICK label \in [DOMAIN store -> 0 .. k - 1] : Sent(k, label)
    BY <2>a
  <2> DEFINE clusters == [c \in 0 .. k - 1 |-> {id \in DOMAIN store : label[id] = c}]
             g == Graph!Graph(load[i].captures, clusters)
             r == Graph!Result("graph", load[i].k, 0, g)
  <2>2. k \in Nat /\ k > 0
    BY GraphAssumptions DEF GraphInv, LoadInv, Graph!ClusterCounts, Graph!ClustersAssumption
  <2>3. AddsUp(g)
    <3>1. IsFiniteSet(DOMAIN store)
      BY DEF GraphInv
    <3>2. QED
      BY <2>2, <3>1, GraphsAddUp
  <2>4. Graph!Answer(i, r) /\ UNCHANGED <<store, loads, Graph!page>>
    BY <2>1 DEF Graph!Cluster
  <2>5. AddsUp(r.graph)
    <3> HIDE DEF g
    <3>1. QED
      BY <2>3 DEF Graph!Result
  <2> HIDE DEF r
  <2>6. QED
    BY <2>4, <2>5, AnswerAddsUp
<1>3. QED
  BY <1>1, <1>2

LEMMA HandlerStep ==
  ASSUME GraphInv, NEW i \in 1 .. MaxLoads, Graph!Handler(i)
  PROVE  GraphInv'
<1>1. CASE Graph!ListRecent(i)
  <2>1. CASE Graph!Answer(i, Graph!Failed)
    BY <1>1, <2>1, NothingAddsUp, AnswerAddsUp DEF Graph!ListRecent
  <2>2. ASSUME NEW listed, load' = [load EXCEPT ![i].at = "cluster", ![i].captures = listed]
        PROVE  GraphInv'
    <3>1. load' = [load EXCEPT ![i] = [load[i] EXCEPT !.at = "cluster", !.captures = listed]]
      BY <2>2
    <3>2. LoadInv([load[i] EXCEPT !.at = "cluster", !.captures = listed])
      <4> DEFINE l == [load[i] EXCEPT !.at = "cluster", !.captures = listed]
      <4>1. LoadInv(load[i])
        BY DEF GraphInv
      <4>2. /\ DOMAIN l = {"at", "k", "captures", "result"}
            /\ l.k = load[i].k /\ l.result = load[i].result
        BY <4>1 DEF LoadInv
      <4>3. QED
        BY <4>1, <4>2 DEF LoadInv
    <3>3. QED
      BY <1>1, <3>1, <3>2 DEF Graph!ListRecent, GraphInv, Graph!page
  <2>3. \/ Graph!Answer(i, Graph!Failed)
        \/ \E listed : load' = [load EXCEPT ![i].at = "cluster", ![i].captures = listed]
    BY <1>1 DEF Graph!ListRecent
  <2>4. QED
    BY <2>1, <2>2, <2>3
<1>2. CASE Graph!Cluster(i)
  BY <1>2, ClusterStep
<1>3. CASE Graph!McpFails(i)
  BY <1>3, NothingAddsUp, AnswerAddsUp DEF Graph!McpFails
<1>4. QED
  BY <1>1, <1>2, <1>3 DEF Graph!Handler

LEMMA LoadStep ==
  ASSUME GraphInv, NEW k \in KChoices \cup {None}, Graph!Load(k),
         clusterK' \in KChoices \cup {None}, UNCHANGED <<store, data>>
  PROVE  GraphInv'
<1>1. LoadInv([Graph!NoLoad EXCEPT !.at = "list", !.k = k])
  <2> DEFINE l == [Graph!NoLoad EXCEPT !.at = "list", !.k = k]
  <2>1. /\ DOMAIN l = {"at", "k", "captures", "result"}
        /\ l.k = k /\ l.result = Graph!Nothing
    BY DEF Graph!NoLoad
  <2>2. QED
    BY <2>1, NothingAddsUp DEF LoadInv
<1>2. load' = [load EXCEPT ![loads + 1] = [Graph!NoLoad EXCEPT !.at = "list", !.k = k]]
  BY DEF Graph!Load
<1>3. QED
  BY <1>1, <1>2 DEF GraphInv

LEMMA AnsweredStep ==
  ASSUME GraphInv, NEW i \in 1 .. MaxLoads, Graph!Answered(i)
  PROVE  GraphInv'
<1>1. LoadInv([Graph!NoLoad EXCEPT !.at = "done"])
  <2> DEFINE l == [Graph!NoLoad EXCEPT !.at = "done"]
  <2>1. /\ DOMAIN l = {"at", "k", "captures", "result"}
        /\ l.k = None /\ l.result = Graph!Nothing
    BY DEF Graph!NoLoad
  <2>2. QED
    BY <2>1, NothingAddsUp DEF LoadInv
<1>2. load' = [load EXCEPT ![i] = [Graph!NoLoad EXCEPT !.at = "done"]]
  BY DEF Graph!Answered
<1>3. UNCHANGED <<store, clusterK>> /\ (data' = load[i].result \/ UNCHANGED data)
  BY DEF Graph!Answered
<1>4. AddsUp(data'.graph)
  BY <1>3 DEF GraphInv, LoadInv
<1>5. QED
  BY <1>1, <1>2, <1>3, <1>4 DEF GraphInv

LEMMA ChangeStep ==
  ASSUME GraphInv, NEW id \in Listed, Graph!Change(id)
  PROVE  GraphInv'
<1>1. DOMAIN store' = DOMAIN store \cup {id} \/ DOMAIN store' = DOMAIN store \ {id}
  BY DEF Graph!Change
<1>2. IsFiniteSet(DOMAIN store')
  BY <1>1, FS_AddElement, FS_RemoveElement DEF GraphInv
<1>3. UNCHANGED <<load, data, clusterK>>
  BY DEF Graph!Change, Graph!page
<1>4. QED
  BY <1>2, <1>3 DEF GraphInv

LEMMA GraphStep == ASSUME GraphInv, Graph!Next PROVE GraphInv'
<1>1. CASE \E id \in Listed : Graph!Change(id)
  BY <1>1, ChangeStep
<1>2. CASE \E i \in 1 .. MaxLoads : Graph!Handler(i) \/ Graph!Answered(i)
  BY <1>2, HandlerStep, AnsweredStep
<1>3. CASE Graph!Refresh
  BY <1>3, LoadStep DEF Graph!Refresh, GraphInv
<1>4. CASE \E k \in KChoices \cup {None} : Graph!Choose(k)
  BY <1>4, LoadStep DEF Graph!Choose
<1>5. CASE \/ \E c \in DOMAIN data.graph.clusters : Graph!Toggle(c)
           \/ \E on \in BOOLEAN : Graph!ToggleAll(on)
  BY <1>5 DEF Graph!Toggle, Graph!ToggleAll, GraphInv
<1>6. QED
  BY <1>1, <1>2, <1>3, <1>4, <1>5 DEF Graph!Next

LEMMA ServicesStep == GraphInv /\ [ServicesNext]_<<part, access, rows, links, graph, audit>> => GraphInv'
<1> SUFFICES ASSUME GraphInv, [ServicesNext]_<<part, access, rows, links, graph, audit>>
             PROVE  GraphInv'
  OBVIOUS
<1>1. CASE Graph!Next
  BY <1>1, GraphStep
<1>2. CASE UNCHANGED graph
  BY <1>2 DEF GraphInv, graph
<1>3. QED
  BY <1>1, <1>2 DEF ServicesNext

\* build_keyword_graph and the page: every keyword of the graph on display counts
\* exactly the captures of its tooltip, and stands with the cluster that holds
\* most of them, whatever is saved, edited or deleted between the two calls and
\* however many loads overlap.
THEOREM GraphsOnDisplayAddUp == ServicesSpec => []GraphAddsUp
<1>1. ServicesInit => GraphInv
  BY GraphInit DEF ServicesInit
<1>2. GraphInv => GraphAddsUp
  BY SameSize DEF GraphInv, AddsUp, GraphAddsUp, Graph!GraphAddsUp, Graph!Nodes, Graph!Clusters
<1>3. QED
  BY <1>1, <1>2, ServicesStep, PTL DEF ServicesSpec

-----------------------------------------------------------------------------
(* Rows in the order of a key.                                             *)

Keyed(S, key) == S \subseteq Nat /\ IsFiniteSet(S) /\ \A i \in S : key[i] \in Nat

\* Every row has a place of its own, and every place up to their number is that
\* of a row.
LEMMA Places ==
  ASSUME NEW S, NEW key, Keyed(S, key)
  PROVE  /\ \A i \in S : Place(S, key, i) \in 1 .. Cardinality(S)
         /\ \A i, j \in S : i # j /\ NoLater(key, j, i) => Place(S, key, j) < Place(S, key, i)
         /\ \A i, j \in S : Place(S, key, i) = Place(S, key, j) => i = j
         /\ \A p \in 1 .. Cardinality(S) : \E i \in S : Place(S, key, i) = p
         /\ Cardinality(S) \in Nat
<1> DEFINE Upto(i) == {j \in S : NoLater(key, j, i)}
           place   == [i \in S |-> Place(S, key, i)]
<1>1. ASSUME NEW i \in S
      PROVE  /\ Upto(i) \in SUBSET S /\ IsFiniteSet(Upto(i)) /\ i \in Upto(i)
             /\ Cardinality(Upto(i)) \in Nat /\ Cardinality(Upto(i)) <= Cardinality(S)
             /\ Cardinality(Upto(i)) # 0 /\ Cardinality(S) \in Nat
             /\ Place(S, key, i) = Cardinality(Upto(i))
  <2>1. Upto(i) \in SUBSET S
    OBVIOUS
  <2>2. i \in Upto(i)
    BY DEF NoLater, Keyed
  <2>3. Place(S, key, i) = Cardinality(Upto(i))
    BY DEF Place
  <2> HIDE DEF Upto
  <2>4. IsFiniteSet(Upto(i)) /\ Cardinality(Upto(i)) <= Cardinality(S)
    BY <2>1, FS_Subset DEF Keyed
  <2>5. Cardinality(Upto(i)) \in Nat /\ Cardinality(S) \in Nat /\ Cardinality(Upto(i)) # 0
    BY <2>2, <2>4, FS_CardinalityType, FS_EmptySet DEF Keyed
  <2>6. QED
    BY <2>1, <2>2, <2>3, <2>4, <2>5
<1>2. ASSUME NEW i \in S, NEW j \in S, i # j, NoLater(key, j, i)
      PROVE  Place(S, key, j) < Place(S, key, i)
  <2>1. \A o \in S : key[o] \in Nat /\ o \in Nat
    BY DEF Keyed
  <2>2. Upto(j) \subseteq Upto(i)
    BY <1>2, <2>1 DEF NoLater
  <2>3. i \notin Upto(j)
    BY <1>2, <2>1 DEF NoLater
  <2>4. Upto(j) \in SUBSET Upto(i) /\ Upto(j) # Upto(i)
    BY <1>1, <2>2, <2>3
  <2> HIDE DEF Upto
  <2>5. /\ Cardinality(Upto(j)) <= Cardinality(Upto(i))
        /\ Cardinality(Upto(j)) # Cardinality(Upto(i))
    BY <1>1, <2>4, FS_Subset
  <2>6. QED
    BY <1>1, <2>5
<1>3. ASSUME NEW i \in S, NEW j \in S, i # j PROVE Place(S, key, i) # Place(S, key, j)
  <2>1. NoLater(key, i, j) \/ NoLater(key, j, i)
    BY DEF NoLater, Keyed
  <2>2. /\ Place(S, key, i) \in Nat /\ Place(S, key, j) \in Nat
        /\ Place(S, key, i) < Place(S, key, j) \/ Place(S, key, j) < Place(S, key, i)
    BY <1>1, <1>2, <1>3, <2>1
  <2>3. QED
    BY <2>2
<1> DEFINE places == 1 .. Cardinality(S)
<1>4. \A i \in S : Place(S, key, i) \in places
  <2> HIDE DEF Upto
  <2>1. QED
    BY <1>1
<1>5. Cardinality(S) \in Nat
  BY FS_CardinalityType DEF Keyed
<1>6. IsFiniteSet(places) /\ Cardinality(places) = Cardinality(S)
  BY <1>5, FS_Interval
<1>7. place \in Injection(S, places)
  BY <1>3, <1>4 DEF Injection, IsInjective
<1>8. place \in Surjection(S, places)
  BY <1>6, <1>7, FS_Injection
<1>9. \A p \in places : \E i \in S : Place(S, key, i) = p
  BY <1>8 DEF Surjection
<1>10. QED
  BY <1>2, <1>3, <1>4, <1>5, <1>9

\* A sorted list: what it holds is found at `at`, one row at each place.
IsSorted(list, s, S, key, n, at) ==
  LET m == IF Cardinality(S) < n THEN Cardinality(S) ELSE n
  IN  /\ m \in Nat /\ Len(list) = m /\ DOMAIN list = 1 .. m
      /\ at \in [1 .. m -> S]
      /\ \A p \in 1 .. m : list[p] = s[at[p]] /\ Place(S, key, at[p]) = p
      /\ \A i \in S : Place(S, key, i) <= m => at[Place(S, key, i)] = i

LEMMA OrderedIs ==
  ASSUME NEW s, NEW S, NEW key, Keyed(S, key), NEW n \in Nat
  PROVE  \E at : IsSorted(Ordered(s, S, key, n), s, S, key, n, at)
<1> DEFINE m    == IF Cardinality(S) < n THEN Cardinality(S) ELSE n
           at   == [p \in 1 .. m |-> CHOOSE i \in S : Place(S, key, i) = p]
           list == [p \in 1 .. m |-> s[CHOOSE i \in S : Place(S, key, i) = p]]
<1>1. Cardinality(S) \in Nat
  BY Places
<1>2. m \in Nat /\ 1 .. m \subseteq 1 .. Cardinality(S)
  BY <1>1
<1>3. Ordered(s, S, key, n) = list
  BY DEF Ordered
<1> HIDE DEF m
<1>4. Len(list) = m /\ DOMAIN list = 1 .. m
  BY <1>2
<1>5. ASSUME NEW p \in 1 .. m PROVE at[p] \in S /\ list[p] = s[at[p]] /\ Place(S, key, at[p]) = p
  <2>1. \E i \in S : Place(S, key, i) = p
    BY <1>2, Places
  <2>2. QED
    BY <2>1
<1>6. at \in [1 .. m -> S]
  BY <1>5
<1>7. ASSUME NEW i \in S, Place(S, key, i) <= m PROVE at[Place(S, key, i)] = i
  <2>1. Place(S, key, i) \in 1 .. m
    BY <1>1, <1>2, <1>7, Places
  <2>2. at[Place(S, key, i)] \in S /\ Place(S, key, at[Place(S, key, i)]) = Place(S, key, i)
    BY <1>5, <2>1
  <2>3. QED
    BY <2>2, Places
<1> HIDE DEF at, list
<1>8. IsSorted(list, s, S, key, n, at)
  BY <1>2, <1>4, <1>5, <1>6, <1>7 DEF IsSorted, m
<1>9. QED
  BY <1>3, <1>8

\* A list that is long enough holds every row, at one place each.
IsWhole(list, s, S, at) ==
  /\ at \in [1 .. Cardinality(S) -> S]
  /\ \A i \in S : \E p \in 1 .. Cardinality(S) : at[p] = i
  /\ \A p, q \in 1 .. Cardinality(S) : at[p] = at[q] => p = q
  /\ \A p \in 1 .. Cardinality(S) : list[p] = s[at[p]]
  /\ DOMAIN list = 1 .. Cardinality(S) /\ Len(list) = Cardinality(S)

LEMMA NothingCut ==
  ASSUME NEW s, NEW S, NEW key, Keyed(S, key), NEW n \in Nat, Cardinality(S) <= n
  PROVE  \E at : IsWhole(Ordered(s, S, key, n), s, S, at)
<1>1. PICK at : IsSorted(Ordered(s, S, key, n), s, S, key, n, at)
  BY OrderedIs
<1>2. Cardinality(S) \in Nat
  BY Places
<1> DEFINE m == IF Cardinality(S) < n THEN Cardinality(S) ELSE n
<1>3. m = Cardinality(S)
  BY <1>2
<1>4. /\ at \in [1 .. Cardinality(S) -> S]
      /\ Len(Ordered(s, S, key, n)) = Cardinality(S)
      /\ DOMAIN Ordered(s, S, key, n) = 1 .. Cardinality(S)
      /\ \A p \in 1 .. Cardinality(S) : /\ Ordered(s, S, key, n)[p] = s[at[p]]
                                        /\ Place(S, key, at[p]) = p
      /\ \A i \in S : Place(S, key, i) <= Cardinality(S) => at[Place(S, key, i)] = i
  BY <1>1, <1>3 DEF IsSorted
<1>5. ASSUME NEW i \in S PROVE \E p \in 1 .. Cardinality(S) : at[p] = i
  <2>1. Place(S, key, i) \in 1 .. Cardinality(S)
    BY Places
  <2>2. QED
    BY <1>4, <2>1
<1>6. IsWhole(Ordered(s, S, key, n), s, S, at)
  BY <1>4, <1>5 DEF IsWhole
<1>7. QED
  BY <1>6

\* A sequence without its i-th element.
Without(s, i) == SubSeq(s, 1, i - 1) \o SubSeq(s, i + 1, Len(s))

LEMMA WithoutOne ==
  ASSUME NEW T, NEW s \in Seq(T), NEW i \in 1 .. Len(s)
  PROVE  /\ Without(s, i) \in Seq(T) /\ Len(Without(s, i)) = Len(s) - 1
         /\ DOMAIN Without(s, i) = 1 .. Len(s) - 1
         /\ \A j \in 1 .. Len(s) - 1 : Without(s, i)[j] = IF j < i THEN s[j] ELSE s[j + 1]
<1> DEFINE left  == SubSeq(s, 1, i - 1)
           right == SubSeq(s, i + 1, Len(s))
<1>1. Len(s) \in Nat /\ DOMAIN s = 1 .. Len(s) /\ \A j \in 1 .. Len(s) : s[j] \in T
  OBVIOUS
<1>2. left \in Seq(T) /\ Len(left) = i - 1 /\ \A j \in 1 .. i - 1 : left[j] = s[j]
  <2>1. \A j \in 1 .. i - 1 : s[j] \in T
    BY <1>1
  <2>2. /\ left \in Seq(T) /\ Len(left) = IF 1 <= i - 1 THEN i - 1 - 1 + 1 ELSE 0
        /\ \A j \in 1 .. i - 1 - 1 + 1 : left[j] = s[1 + j - 1]
    BY <1>1, <2>1, SubSeqProperties
  <2> HIDE DEF left
  <2>3. QED
    BY <1>1, <2>2
<1>3. right \in Seq(T) /\ Len(right) = Len(s) - i /\ \A j \in 1 .. Len(s) - i : right[j] = s[i + j]
  <2>1. \A j \in i + 1 .. Len(s) : s[j] \in T
    BY <1>1
  <2>2. /\ right \in Seq(T)
        /\ Len(right) = IF i + 1 <= Len(s) THEN Len(s) - (i + 1) + 1 ELSE 0
        /\ \A j \in 1 .. Len(s) - (i + 1) + 1 : right[j] = s[i + 1 + j - 1]
    BY <1>1, <2>1, SubSeqProperties
  <2>3. Len(s) - (i + 1) + 1 = Len(s) - i /\ \A j \in 1 .. Len(s) - i : i + 1 + j - 1 = i + j
    BY <1>1
  <2> HIDE DEF right
  <2>4. \A j \in 1 .. Len(s) - i : right[j] = s[i + j]
    BY <2>2, <2>3
  <2>5. Len(right) = Len(s) - i
    <3>1. i \in Int /\ Len(s) \in Int /\ i <= Len(s)
      BY <1>1
    <3>2. (IF i + 1 <= Len(s) THEN Len(s) - (i + 1) + 1 ELSE 0) = Len(s) - i
      BY <3>1
    <3>3. QED
      BY <2>2, <3>2
  <2>6. QED
    BY <2>2, <2>4, <2>5
<1>4. Without(s, i) = left \o right
  BY DEF Without
<1> HIDE DEF left, right
<1>5. /\ left \o right \in Seq(T) /\ Len(left \o right) = Len(s) - 1
      /\ \A j \in 1 .. Len(s) - 1 :
           (left \o right)[j] = IF j <= i - 1 THEN left[j] ELSE right[j - (i - 1)]
  <2>1. /\ left \o right \in Seq(T) /\ Len(left \o right) = Len(left) + Len(right)
        /\ \A j \in 1 .. Len(left) + Len(right) :
             (left \o right)[j] = IF j <= Len(left) THEN left[j] ELSE right[j - Len(left)]
    BY <1>2, <1>3, ConcatProperties
  <2>2. Len(left) + Len(right) = Len(s) - 1 /\ Len(left) = i - 1
    BY <1>1, <1>2, <1>3
  <2>3. QED
    BY <2>1, <2>2
<1>6. ASSUME NEW j \in 1 .. Len(s) - 1
      PROVE  (left \o right)[j] = IF j < i THEN s[j] ELSE s[j + 1]
  <2>1. CASE j < i
    <3>1. j <= i - 1 /\ j \in 1 .. i - 1
      BY <1>1, <2>1
    <3>2. QED
      BY <1>2, <1>5, <2>1, <3>1
  <2>2. CASE ~(j < i)
    <3>1. ~(j <= i - 1) /\ j - (i - 1) \in 1 .. Len(s) - i /\ i + (j - (i - 1)) = j + 1
      BY <1>1, <2>2
    <3>2. right[j - (i - 1)] = s[j + 1]
      BY <1>3, <3>1
    <3>3. QED
      BY <1>5, <2>2, <3>1, <3>2
  <2>3. QED
    BY <2>1, <2>2
<1>7. DOMAIN (left \o right) = 1 .. Len(s) - 1
  BY <1>5
<1>8. QED
  BY <1>4, <1>5, <1>6, <1>7

\* Answers and fingerprints are ordered in the same way.
LEMMA QueryOrder ==
  ASSUME NEW S, NEW key
  PROVE  /\ Query!Cardinality(S) = Cardinality(S)
         /\ \A i : Query!Place(S, key, i) = Place(S, key, i)
         /\ \A s, n : Query!Ordered(s, S, key, n) = Ordered(s, S, key, n)
<1>1. \A T : Query!Cardinality(T) = Cardinality(T)
  BY Zenon DEF Query!Cardinality, Cardinality
<1>2. \A i : Query!Place(S, key, i) = Place(S, key, i)
  BY <1>1, Zenon DEF Query!Place, Place, Query!NoLater, NoLater
<1>3. \A s, n : Query!Ordered(s, S, key, n) = Ordered(s, S, key, n)
  BY Zenon DEF Query!Ordered, Query!Place, Query!NoLater, Query!Cardinality,
               Ordered, Place, NoLater, Cardinality
<1>4. QED
  BY <1>1, <1>2, <1>3

LEMMA LinkOrder ==
  ASSUME NEW S, NEW key
  PROVE  /\ Link!Cardinality(S) = Cardinality(S)
         /\ \A s, n : Link!Ordered(s, S, key, n) = Ordered(s, S, key, n)
<1>1. \A T : Link!Cardinality(T) = Cardinality(T)
  BY Zenon DEF Link!Cardinality, Cardinality
<1>3. \A s, n : Link!Ordered(s, S, key, n) = Ordered(s, S, key, n)
  BY Zenon DEF Link!Ordered, Link!Place, Link!NoLater, Link!Cardinality,
               Ordered, Place, NoLater, Cardinality
<1>4. QED
  BY <1>1, <1>3

-----------------------------------------------------------------------------
(* Answers.                                                                *)

LEMMA QueryNumbers ==
  /\ Ranks \subseteq Nat /\ IsFiniteSet(Ranks) /\ Words \subseteq Nat
  /\ MaxLen \in Nat /\ EfSearch \in Nat
  BY QueryAssumptions DEF Query!NumbersAssumption, Query!IsFiniteSet, IsFiniteSet

\* Keywords as they are stored: a capture has none twice, in whatever case.
AreKeywords(kws) ==
  /\ kws \in Seq(Query!Keyword) /\ Len(kws) <= MaxLen
  /\ \A i, j \in DOMAIN kws : Query!Lower(kws[i]) = Query!Lower(kws[j]) => i = j

Row == [id : Ranks, source : Sources, keywords : Seq(Query!Keyword)]

\* The inductive invariant.
QueryInv ==
  /\ rows \in Seq(Row)
  /\ \A i, j \in DOMAIN rows : rows[i].id = rows[j].id => i = j
  /\ \A i \in DOMAIN rows : AreKeywords(rows[i].keywords)

LEMMA NormalizeTyped ==
  ASSUME NEW kws \in Seq(Query!Keyword) PROVE AreKeywords(Query!Normalize(kws))
<1> DEFINE S   == {n \in DOMAIN kws : ~Query!Seen(kws, n)}
           key == [n \in DOMAIN kws |-> n]
           out == Ordered(kws, S, key, MaxLen)
<1>1. Query!Normalize(kws) = out
  BY QueryOrder DEF Query!Normalize
<1>2. DOMAIN kws = 1 .. Len(kws) /\ Len(kws) \in Nat
  OBVIOUS
<1>3. Keyed(S, key)
  <2>1. IsFiniteSet(1 .. Len(kws))
    BY <1>2, FS_Interval
  <2>2. S \in SUBSET (1 .. Len(kws)) /\ S \subseteq Nat /\ \A n \in S : key[n] \in Nat
    BY <1>2
  <2>3. QED
    BY <2>1, <2>2, FS_Subset DEF Keyed
<1>4. ASSUME NEW i \in S, NEW j \in S, Query!Lower(kws[i]) = Query!Lower(kws[j]) PROVE i = j
  <2>1. i \in Nat /\ j \in Nat /\ 1 <= i /\ 1 <= j
    BY <1>2
  <2>2. CASE i < j
    <3>1. i \in 1 .. j - 1
      BY <2>1, <2>2
    <3>2. Query!Seen(kws, j)
      BY <1>4, <3>1 DEF Query!Seen
    <3>3. QED
      BY <3>2
  <2>3. CASE j < i
    <3>1. j \in 1 .. i - 1
      BY <2>1, <2>3
    <3>2. Query!Seen(kws, i)
      BY <1>4, <3>1 DEF Query!Seen
    <3>3. QED
      BY <3>2
  <2>4. QED
    BY <2>1, <2>2, <2>3
<1>5. \A i \in S : kws[i] \in Query!Keyword
  BY <1>2
<1> HIDE DEF S, key
<1>6. PICK at : IsSorted(out, kws, S, key, MaxLen, at)
  BY <1>3, QueryNumbers, OrderedIs
<1> HIDE DEF out
<1> DEFINE m == IF Cardinality(S) < MaxLen THEN Cardinality(S) ELSE MaxLen
<1>7. /\ m \in Nat /\ Len(out) = m /\ DOMAIN out = 1 .. m
      /\ \A p \in 1 .. m : at[p] \in S /\ out[p] = kws[at[p]] /\ Place(S, key, at[p]) = p
  BY <1>6 DEF IsSorted
<1>8. m <= MaxLen
  BY <1>3, Places, QueryNumbers
<1> HIDE DEF m
<1>9. \A i, j \in DOMAIN out : Query!Lower(out[i]) = Query!Lower(out[j]) => i = j
  <2>1. TAKE i, j \in DOMAIN out
  <2>2. HAVE Query!Lower(out[i]) = Query!Lower(out[j])
  <2>3. at[i] = at[j]
    BY <1>4, <1>7, <2>2
  <2>4. QED
    BY <1>7, <2>3
<1>10. out \in Seq(Query!Keyword)
  <2>1. \A p \in 1 .. m : out[p] \in Query!Keyword
    BY <1>5, <1>7
  <2>2. out = [p \in 1 .. m |-> out[p]]
    BY <1>6, <1>1, <1>7 DEF out, Ordered, m
  <2>3. QED
    BY <1>7, <2>1, <2>2
<1>11. QED
  BY <1>1, <1>7, <1>8, <1>9, <1>10 DEF AreKeywords

LEMMA QueryInit == ASSUME Query!Init PROVE QueryInv
  BY DEF Query!Init, QueryInv

LEMMA QueryStep == ASSUME QueryInv, Query!Next PROVE QueryInv'
<1>1. \A kws \in Query!KeywordLists : kws \in Seq(Query!Keyword)
  BY DEF Query!KeywordLists, Query!BoundedSeq, Query!SeqOf
<1>2. DOMAIN rows = 1 .. Len(rows) /\ Len(rows) \in Nat
  BY DEF QueryInv
<1>3. ASSUME NEW id \in Ranks, NEW source \in Sources, NEW kws \in Query!KeywordLists,
             Query!Save(id, source, kws)
      PROVE  QueryInv'
  <2> DEFINE new == [id |-> id, source |-> source, keywords |-> Query!Normalize(kws)]
  <2>1. AreKeywords(Query!Normalize(kws))
    BY <1>1, NormalizeTyped
  <2>2. new \in Row /\ new.id = id /\ AreKeywords(new.keywords)
    BY <2>1 DEF Row, AreKeywords
  <2>3. rows' = Append(rows, new) /\ \A i \in DOMAIN rows : rows[i].id # id
    BY <1>3 DEF Query!Save
  <2> HIDE DEF new
  <2>4. /\ rows' \in Seq(Row) /\ DOMAIN rows' = 1 .. Len(rows) + 1
        /\ rows'[Len(rows) + 1] = new /\ \A i \in DOMAIN rows : rows'[i] = rows[i]
    BY <1>2, <2>2, <2>3 DEF QueryInv
  <2>5. \A i \in DOMAIN rows' : i \in DOMAIN rows \/ i = Len(rows) + 1
    BY <1>2, <2>4
  <2>6. \A i, j \in DOMAIN rows' : rows'[i].id = rows'[j].id => i = j
    BY <2>2, <2>3, <2>4, <2>5 DEF QueryInv
  <2>7. \A i \in DOMAIN rows' : AreKeywords(rows'[i].keywords)
    BY <2>2, <2>4, <2>5 DEF QueryInv
  <2>8. QED
    BY <2>4, <2>6, <2>7 DEF QueryInv, AreKeywords
<1>4. ASSUME NEW i \in DOMAIN rows, Query!Delete(i) PROVE QueryInv'
  <2> DEFINE old(j) == IF j < i THEN j ELSE j + 1
  <2>1. rows' = Without(rows, i)
    BY <1>4 DEF Query!Delete, Query!RemoveAt, Without
  <2>2. rows \in Seq(Row) /\ i \in 1 .. Len(rows)
    BY <1>2 DEF QueryInv
  <2>3. /\ rows' \in Seq(Row) /\ DOMAIN rows' = 1 .. Len(rows) - 1
        /\ \A j \in DOMAIN rows' : rows'[j] = IF j < i THEN rows[j] ELSE rows[j + 1]
    BY <2>1, <2>2, WithoutOne
  <2>4. \A j \in DOMAIN rows' : old(j) \in DOMAIN rows /\ rows'[j] = rows[old(j)]
    BY <1>2, <2>2, <2>3
  <2>5. \A j, k \in DOMAIN rows' : old(j) = old(k) => j = k
    BY <1>2, <2>3
  <2> HIDE DEF old
  <2>6. QED
    BY <2>3, <2>4, <2>5 DEF QueryInv, AreKeywords
<1>5. ASSUME NEW i \in DOMAIN rows, NEW kws \in Query!KeywordLists, Query!Update(i, kws)
      PROVE  QueryInv'
  <2> DEFINE new == [rows[i] EXCEPT !.keywords = Query!Normalize(kws)]
  <2>1. AreKeywords(Query!Normalize(kws))
    BY <1>1, NormalizeTyped
  <2>2. rows[i] \in Row
    BY <1>2 DEF QueryInv
  <2>3. new \in Row /\ new.id = rows[i].id /\ new.keywords = Query!Normalize(kws)
    BY <2>1, <2>2 DEF Row, AreKeywords
  <2>4. rows' = [rows EXCEPT ![i] = new]
    BY <1>5 DEF Query!Update
  <2> HIDE DEF new
  <2>5. /\ rows' \in Seq(Row) /\ DOMAIN rows' = DOMAIN rows
        /\ rows'[i] = new /\ \A j \in DOMAIN rows : j # i => rows'[j] = rows[j]
    BY <1>2, <2>3, <2>4 DEF QueryInv
  <2>6. \A j \in DOMAIN rows : rows'[j].id = rows[j].id
    BY <2>3, <2>5
  <2>7. \A j \in DOMAIN rows : AreKeywords(rows'[j].keywords)
    BY <2>1, <2>3, <2>5 DEF QueryInv
  <2>8. QED
    BY <2>5, <2>6, <2>7 DEF QueryInv, AreKeywords
<1>6. QED
  BY <1>3, <1>4, <1>5 DEF Query!Next

LEMMA RowsKeyed ==
  ASSUME QueryInv, NEW S \in SUBSET DOMAIN rows
  PROVE  /\ Keyed(S, Query!Distance) /\ Keyed(S, Query!Age)
         /\ IsFiniteSet(S) /\ Cardinality(S) \in Nat
         /\ \A i \in S : rows[i].id \in Ranks /\ rows[i].id \in Nat /\ i \in Nat
         /\ \A i \in S : Query!Distance[i] = rows[i].id
<1>1. DOMAIN rows = 1 .. Len(rows) /\ Len(rows) \in Nat
  BY DEF QueryInv
<1>2. IsFiniteSet(S)
  <2>1. IsFiniteSet(1 .. Len(rows))
    BY <1>1, FS_Interval
  <2>2. S \in SUBSET (1 .. Len(rows))
    BY <1>1
  <2>3. QED
    BY <2>1, <2>2, FS_Subset
<1>3. ASSUME NEW i \in S
      PROVE  /\ i \in Nat /\ rows[i].id \in Ranks /\ rows[i].id \in Nat
             /\ Query!Distance[i] = rows[i].id /\ Query!Age[i] \in Nat
  <2>1. i \in 1 .. Len(rows) /\ rows[i] \in Row
    BY <1>1 DEF QueryInv
  <2>2. Query!Distance[i] = rows[i].id /\ Query!Age[i] = Len(rows) - i
    BY DEF Query!Distance, Query!Age
  <2>3. i \in Nat /\ Len(rows) - i \in Nat
    BY <1>1, <2>1
  <2>4. rows[i].id \in Ranks
    BY <2>1 DEF Row
  <2>5. QED
    BY <2>2, <2>3, <2>4, QueryNumbers
<1>4. QED
  BY <1>2, <1>3, FS_CardinalityType DEF Keyed

LEMMA WhereIs ==
  ASSUME QueryInv, NEW f
  PROVE  Query!Where(f) \in SUBSET DOMAIN rows
  BY DEF Query!Where

\* The first k by distance are what was asked for.
LEMMA NearestAreComplete ==
  ASSUME QueryInv, NEW f, NEW k \in Nat, NEW list,
         list = Ordered(rows, Query!Where(f), Query!Distance, k)
  PROVE  Query!Complete(f, k, list)
<1> DEFINE S == Query!Where(f)
           m == IF Cardinality(S) < k THEN Cardinality(S) ELSE k
<1>1. S \in SUBSET DOMAIN rows
  BY WhereIs
<1> HIDE DEF S
<1>2. /\ Keyed(S, Query!Distance) /\ Cardinality(S) \in Nat
      /\ \A i \in S : rows[i].id \in Nat /\ i \in Nat /\ Query!Distance[i] = rows[i].id
  BY <1>1, RowsKeyed
<1>3. PICK at : IsSorted(list, rows, S, Query!Distance, k, at)
  BY <1>2, OrderedIs DEF S
<1>4. /\ m \in Nat /\ Len(list) = m /\ DOMAIN list = 1 .. m
      /\ \A p \in 1 .. m : /\ at[p] \in S /\ list[p] = rows[at[p]]
                           /\ Place(S, Query!Distance, at[p]) = p
      /\ \A i \in S : Place(S, Query!Distance, i) <= m => at[Place(S, Query!Distance, i)] = i
  BY <1>3 DEF IsSorted
<1> HIDE DEF m
<1>5. ASSUME NEW i \in S, rows[i].id \notin Query!Found(list), NEW p \in DOMAIN list
      PROVE  list[p].id < rows[i].id
  <2>1. Place(S, Query!Distance, i) \in 1 .. Cardinality(S)
    BY <1>2, Places
  <2>2. ~(Place(S, Query!Distance, i) <= m)
    <3>1. SUFFICES ASSUME Place(S, Query!Distance, i) <= m PROVE FALSE
      OBVIOUS
    <3>2. Place(S, Query!Distance, i) \in 1 .. m
      BY <1>2, <1>4, <2>1, <3>1
    <3>3. list[Place(S, Query!Distance, i)] = rows[i]
      BY <1>4, <3>1, <3>2
    <3>4. QED
      BY <1>4, <1>5, <3>2, <3>3 DEF Query!Found
  <2>3. p \in 1 .. m /\ at[p] \in S /\ list[p] = rows[at[p]] /\ Place(S, Query!Distance, at[p]) = p
    BY <1>4
  <2>4. at[p] # i
    BY <1>2, <1>4, <2>1, <2>2, <2>3
  <2>5. NoLater(Query!Distance, at[p], i)
    <3>1. SUFFICES ASSUME ~NoLater(Query!Distance, at[p], i) PROVE FALSE
      OBVIOUS
    <3>2. NoLater(Query!Distance, i, at[p])
      BY <1>2, <2>3, <3>1 DEF NoLater
    <3>3. Place(S, Query!Distance, i) < Place(S, Query!Distance, at[p])
      BY <1>2, <2>3, <2>4, <3>2, Places
    <3>4. QED
      BY <1>2, <1>4, <2>1, <2>2, <2>3, <3>3
  <2>6. rows[at[p]].id # rows[i].id
    BY <1>1, <2>3, <2>4 DEF QueryInv
  <2>7. rows[at[p]].id < rows[i].id
    BY <1>2, <2>3, <2>5, <2>6 DEF NoLater
  <2>8. QED
    BY <2>3, <2>7
<1>6. Query!Cardinality(S) = Cardinality(S)
  BY QueryOrder
<1>7. QED
  BY <1>4, <1>5, <1>6 DEF Query!Complete, S, m

\* A search never misses a match for want of rows.
LEMMA SearchesAreComplete == ASSUME QueryInv PROVE Query!NeverUnderReturns
<1>1. Query!All \in Nat
  BY QueryNumbers, QueryOrder, FS_CardinalityType DEF Query!All
<1>2. ASSUME NEW f \in Query!Filter, NEW k \in 1 .. Query!All
      PROVE  /\ Query!Complete(f, k, Query!Sorted(f, k))
             /\ Len(rows) <= EfSearch => Query!Complete(f, k, Query!Indexed(f, k))
  <2>1. k \in Nat
    BY <1>1
  <2>2. Query!Sorted(f, k) = Ordered(rows, Query!Where(f), Query!Distance, k)
    BY QueryOrder DEF Query!Sorted
  <2>3. ASSUME Len(rows) <= EfSearch PROVE Query!Indexed(f, k) = Query!Sorted(f, k)
    <3>1. DOMAIN rows = 1 .. Len(rows) /\ Len(rows) \in Nat
      BY DEF QueryInv
    <3>2. Cardinality(DOMAIN rows) = Len(rows)
      <4>1. Cardinality(1 .. Len(rows)) = Len(rows)
        <5>1. 1 \in Int /\ Len(rows) \in Int /\ ~(1 > Len(rows) /\ Len(rows) # 0)
          BY <3>1
        <5>2. Cardinality(1 .. Len(rows)) = IF 1 > Len(rows) THEN 0 ELSE Len(rows) - 1 + 1
          BY <5>1, FS_Interval
        <5>3. QED
          BY <3>1, <5>2
      <4>2. QED
        BY <3>1, <4>1
    <3>3. \A i \in DOMAIN rows : Place(DOMAIN rows, Query!Distance, i) \in 1 .. Len(rows)
      BY <3>2, RowsKeyed, Places
    <3>4. \A i \in DOMAIN rows : Place(DOMAIN rows, Query!Distance, i) <= EfSearch
      BY <2>3, <3>1, <3>3, QueryNumbers
    <3>5. Query!Nearest(EfSearch) = DOMAIN rows
      BY <3>4, QueryOrder DEF Query!Nearest
    <3>6. Query!Where(f) \cap Query!Nearest(EfSearch) = Query!Where(f)
      BY <3>5, WhereIs
    <3>7. QED
      BY <3>6 DEF Query!Indexed, Query!Sorted
  <2>4. QED
    BY <2>1, <2>2, <2>3, NearestAreComplete
<1>3. QED
  BY <1>2 DEF Query!NeverUnderReturns

\* A set that is mapped to another one by one is no larger.
LEMMA OneByOne ==
  ASSUME NEW S, NEW T, IsFiniteSet(T), NEW f \in [S -> T],
         \A i, j \in S : f[i] = f[j] => i = j
  PROVE  IsFiniteSet(S) /\ Cardinality(S) <= Cardinality(T)
<1>1. f \in Injection(S, T)
  BY DEF Injection, IsInjective
<1>2. QED
  BY <1>1, FS_Injection

\* No more rows than ids, of all of them or of some.
LEMMA RowsOfIds ==
  ASSUME QueryInv, NEW S \in SUBSET DOMAIN rows, NEW ids \in SUBSET Ranks,
         \A i \in S : rows[i].id \in ids
  PROVE  /\ Cardinality(S) <= Cardinality(ids) /\ Cardinality(ids) \in Nat
<1> DEFINE idOf == [i \in S |-> rows[i].id]
<1>1. IsFiniteSet(ids) /\ Cardinality(ids) \in Nat
  BY QueryNumbers, FS_Subset, FS_CardinalityType
<1>2. idOf \in [S -> ids]
  OBVIOUS
<1>3. \A i, j \in S : idOf[i] = idOf[j] => i = j
  BY DEF QueryInv
<1> HIDE DEF idOf
<1>4. QED
  BY <1>1, <1>2, <1>3, OneByOne

LEMMA AllRows ==
  ASSUME QueryInv, NEW S \in SUBSET DOMAIN rows
  PROVE  Cardinality(S) <= Query!All /\ Query!All \in Nat
<1>1. \A i \in S : rows[i].id \in Ranks
  BY RowsKeyed
<1>2. QED
  BY <1>1, RowsOfIds, QueryOrder DEF Query!All

\* The rows that hold a keyword, in whatever case.
Holding(w) == {i \in DOMAIN rows : w \in Query!LowerWords(rows[i])}

\* A capture holds a keyword once.
LEMMA OccurrencesAreRows ==
  ASSUME QueryInv, NEW w \in Words
  PROVE  /\ Query!Cardinality(Query!Occurrences(w)) = Cardinality(Holding(w))
         /\ Query!Occurrences(w) = {} <=> Holding(w) = {}
<1> DEFINE S    == Holding(w)
           Occ  == Query!Occurrences(w)
           at(i) == CHOOSE j \in DOMAIN rows[i].keywords :
                      Query!Lower(rows[i].keywords[j]) = w
           f    == [i \in S |-> <<i, at(i)>>]
<1>1. S \in SUBSET DOMAIN rows
  BY DEF Holding
<1>2. IsFiniteSet(S)
  BY <1>1, RowsKeyed
<1>3. ASSUME NEW i \in DOMAIN rows
      PROVE  /\ DOMAIN rows[i].keywords \subseteq 1 .. MaxLen
             /\ \A j, k \in DOMAIN rows[i].keywords :
                  Query!Lower(rows[i].keywords[j]) = Query!Lower(rows[i].keywords[k]) => j = k
  <2>1. AreKeywords(rows[i].keywords)
    BY DEF QueryInv
  <2>2. /\ DOMAIN rows[i].keywords = 1 .. Len(rows[i].keywords)
        /\ Len(rows[i].keywords) \in Nat /\ Len(rows[i].keywords) <= MaxLen
    BY <2>1 DEF AreKeywords
  <2>3. DOMAIN rows[i].keywords \subseteq 1 .. MaxLen
    BY <2>2, QueryNumbers
  <2>4. QED
    BY <2>1, <2>3 DEF AreKeywords
<1>4. ASSUME NEW i \in S
      PROVE  /\ at(i) \in DOMAIN rows[i].keywords
             /\ Query!Lower(rows[i].keywords[at(i)]) = w
  <2>1. \E j \in DOMAIN rows[i].keywords : Query!Lower(rows[i].keywords[j]) = w
    BY DEF Holding, Query!LowerWords
  <2>2. QED
    BY <2>1
<1>5. \A i, j : <<i, j>> \in Occ <=>
        /\ i \in DOMAIN rows /\ j \in 1 .. MaxLen
        /\ j \in DOMAIN rows[i].keywords /\ Query!Lower(rows[i].keywords[j]) = w
  BY DEF Query!Occurrences
<1>6. \A o \in Occ : o = <<o[1], o[2]>>
  BY DEF Query!Occurrences
<1>7. \A i \in S : <<i, at(i)>> \in Occ
  BY <1>1, <1>3, <1>4, <1>5
<1>8. ASSUME NEW o \in Occ PROVE o[1] \in S /\ o = <<o[1], at(o[1])>>
  <2>1. /\ o[1] \in DOMAIN rows /\ o[2] \in DOMAIN rows[o[1]].keywords
        /\ Query!Lower(rows[o[1]].keywords[o[2]]) = w
    BY <1>5, <1>6
  <2>2. o[1] \in S
    BY <2>1 DEF Holding, Query!LowerWords
  <2>3. at(o[1]) = o[2]
    BY <1>3, <1>4, <2>1, <2>2
  <2>4. QED
    BY <1>6, <2>2, <2>3
<1> HIDE DEF S, Occ, at
<1>9. f \in Bijection(S, Occ)
  <2>1. f \in Injection(S, Occ)
    BY <1>7 DEF Injection, IsInjective
  <2>2. \A o \in Occ : \E i \in S : f[i] = o
    BY <1>8
  <2>3. QED
    BY <2>1, <2>2, <1>7 DEF Bijection, Surjection
<1>10. Cardinality(Occ) = Cardinality(S)
  BY <1>2, <1>9, FS_Bijection DEF ExistsBijection
<1>11. Occ = {} <=> S = {}
  BY <1>7, <1>8
<1>12. QED
  BY <1>10, <1>11, QueryOrder DEF S, Occ

\* What a list finds that is long enough for all its rows.
LEMMA FoundAre ==
  ASSUME QueryInv, NEW S \in SUBSET DOMAIN rows, NEW key, Keyed(S, key),
         NEW n \in Nat, Cardinality(S) <= n
  PROVE  /\ Query!Found(Ordered(rows, S, key, n)) = {rows[i].id : i \in S}
         /\ Len(Ordered(rows, S, key, n)) = Cardinality(S)
<1> DEFINE list == Ordered(rows, S, key, n)
<1>1. PICK at : IsWhole(list, rows, S, at)
  BY NothingCut
<1> HIDE DEF list
<1>2. ASSUME NEW i \in S PROVE rows[i].id \in Query!Found(list)
  <2>1. PICK p \in DOMAIN list : list[p] = rows[i]
    BY <1>1 DEF IsWhole
  <2>2. QED
    BY <2>1 DEF Query!Found
<1>3. ASSUME NEW p \in DOMAIN list PROVE list[p].id \in {rows[i].id : i \in S}
  BY <1>1 DEF IsWhole
<1>4. Query!Found(list) = {rows[i].id : i \in S}
  BY <1>2, <1>3 DEF Query!Found
<1>5. QED
  BY <1>1, <1>4 DEF IsWhole, list

\* A keyword lists as many captures as it counts.
LEMMA KeywordListed ==
  ASSUME QueryInv, NEW w \in Words, NEW f, f = [Query!NoFilter EXCEPT !.words = {w}]
  PROVE  Len(Query!Recent(f, Query!All)) =
           IF w \in DOMAIN Query!ListKeywords THEN Query!ListKeywords[w] ELSE 0
<1>1. f.source = None /\ f.words = {w} /\ f.mode = "or"
  BY DEF Query!NoFilter
<1>2. \A i : Query!Matches(rows[i], f) <=> w \in Query!LowerWords(rows[i])
  BY <1>1 DEF Query!Matches
<1>3. Query!Where(f) = Holding(w)
  BY <1>2 DEF Query!Where, Holding
<1>4. Holding(w) \in SUBSET DOMAIN rows
  BY DEF Holding
<1>5. /\ Keyed(Holding(w), Query!Age) /\ Cardinality(Holding(w)) <= Query!All
      /\ Query!All \in Nat
  BY <1>4, RowsKeyed, AllRows
<1>6. Query!Recent(f, Query!All) = Ordered(rows, Holding(w), Query!Age, Query!All)
  BY <1>3, QueryOrder DEF Query!Recent
<1>7. Len(Query!Recent(f, Query!All)) = Cardinality(Holding(w))
  BY <1>4, <1>5, <1>6, FoundAre
<1>8. CASE Holding(w) = {}
  <2>1. w \notin DOMAIN Query!ListKeywords
    BY <1>8, OccurrencesAreRows DEF Query!ListKeywords
  <2>2. QED
    BY <1>7, <1>8, <2>1, FS_EmptySet
<1>9. CASE Holding(w) # {}
  <2>1. /\ w \in DOMAIN Query!ListKeywords
        /\ Query!ListKeywords[w] = Query!Cardinality(Query!Occurrences(w))
    BY <1>9, OccurrencesAreRows DEF Query!ListKeywords
  <2>2. QED
    BY <1>7, <2>1, OccurrencesAreRows
<1>10. QED
  BY <1>8, <1>9

\* The captures that were asked for by id, as far as they exist and pass.
LEMMA IdsListed ==
  ASSUME QueryInv, NEW ids \in SUBSET Ranks, NEW f
  PROVE  Query!Found(Query!RecentOf(f, ids)) = ids \cap Query!Matching(f)
<1> DEFINE S == {i \in Query!Where(f) : rows[i].id \in ids}
<1>1. S \in SUBSET DOMAIN rows
  BY WhereIs
<1>2. Query!RecentOf(f, ids) = Ordered(rows, S, Query!Age, Cardinality(ids))
  BY QueryOrder DEF Query!RecentOf
<1>3. {rows[i].id : i \in S} = ids \cap Query!Matching(f)
  BY DEF Query!Matching
<1>4. \A i \in S : rows[i].id \in ids
  OBVIOUS
<1> HIDE DEF S
<1>5. /\ Keyed(S, Query!Age) /\ Cardinality(S) <= Cardinality(ids)
      /\ Cardinality(ids) \in Nat
  BY <1>1, <1>4, RowsKeyed, RowsOfIds
<1>6. QED
  BY <1>1, <1>2, <1>3, <1>5, FoundAre

\* What is similar to a capture, the capture itself left out.
LEMMA SimilarListed ==
  ASSUME QueryInv, NEW id \in Query!Found(rows), NEW f
  PROVE  Query!Found(Query!Similar(id, f, Query!All)) = Query!Matching(f) \ {id}
<1> DEFINE S == {i \in Query!Where(f) : rows[i].id # id}
<1>1. S \in SUBSET DOMAIN rows
  BY WhereIs
<1>2. ~ \A i \in DOMAIN rows : rows[i].id # id
  BY DEF Query!Found
<1>3. Query!Similar(id, f, Query!All) = Ordered(rows, S, Query!Distance, Query!All)
  BY <1>2, QueryOrder DEF Query!Similar
<1>4. {rows[i].id : i \in S} = Query!Matching(f) \ {id}
  BY DEF Query!Matching
<1> HIDE DEF S
<1>5. Keyed(S, Query!Distance) /\ Cardinality(S) <= Query!All /\ Query!All \in Nat
  BY <1>1, RowsKeyed, AllRows
<1>6. QED
  BY <1>1, <1>3, <1>4, <1>5, FoundAre

LEMMA AnswersAreExact == ASSUME QueryInv PROVE Query!ListsAreExact
  BY KeywordListed, IdsListed, SimilarListed DEF Query!ListsAreExact

LEMMA QueryInvHolds == ServicesSpec => []QueryInv
<1>1. ServicesInit => QueryInv
  BY QueryInit DEF ServicesInit
<1>2. QueryInv /\ [ServicesNext]_<<part, access, rows, links, graph, audit>> => QueryInv'
  <2> SUFFICES ASSUME QueryInv, [ServicesNext]_<<part, access, rows, links, graph, audit>>
               PROVE  QueryInv'
    OBVIOUS
  <2>1. CASE Query!Next
    BY <2>1, QueryStep
  <2>2. CASE UNCHANGED rows
    BY <2>2 DEF QueryInv, AreKeywords
  <2>3. QED
    BY <2>1, <2>2 DEF ServicesNext
<1>3. QED
  BY <1>1, <1>2, PTL DEF ServicesSpec

\* search_captures, by sorting what passes the filters always, and through the
\* index while the store holds no more captures than the index hands out: as many
\* matches as were asked for and exist, and none that is left out is nearer.
THEOREM SearchesFindAll == ServicesSpec => []NeverUnderReturns
<1>1. QueryInv => NeverUnderReturns
  BY SearchesAreComplete DEF NeverUnderReturns
<1>2. QED
  BY <1>1, QueryInvHolds, PTL

\* list_recent, list_keywords and search by capture_id: a keyword lists as many
\* captures as it counts, ids list what exists of them and passes the filters,
\* and what is similar to a capture leaves out that capture and no other match.
THEOREM AnswersExact == ServicesSpec => []ListsAreExact
<1>1. QueryInv => ListsAreExact
  BY AnswersAreExact DEF ListsAreExact
<1>2. QED
  BY <1>1, QueryInvHolds, PTL

-----------------------------------------------------------------------------
(* Fingerprints.                                                           *)

LEMMA LinkNumbers == Params \subseteq Nat /\ Tracking \subseteq Params
  BY LinkAssumptions DEF Link!ParamsAssumption

\* A link with any number of parameters.
LinkForm == [https : BOOLEAN, www : BOOLEAN, page : Pages, slash : BOOLEAN,
             query : Seq(Link!Param)]

\* The inductive invariant.
LinkInv == first \in LinkForm /\ link \in LinkForm

\* Two parameters have one place in the order only if they are one.
LEMMA KeysTellApart ==
  ASSUME NEW p \in Link!Param, NEW r \in Link!Param
  PROVE  /\ Link!SortKey(p) \in Nat
         /\ Link!SortKey(p) = Link!SortKey(r) => p = r
<1>1. /\ p.rank \in Nat /\ r.rank \in Nat /\ p.slash \in BOOLEAN /\ r.slash \in BOOLEAN
      /\ p = [rank |-> p.rank, slash |-> p.slash] /\ r = [rank |-> r.rank, slash |-> r.slash]
  BY LinkNumbers DEF Link!Param
<1> DEFINE s == IF p.slash THEN 1 ELSE 0
           t == IF r.slash THEN 1 ELSE 0
<1>2. s \in {0, 1} /\ t \in {0, 1} /\ (s = t => p.slash = r.slash)
  BY <1>1
<1>3. Link!SortKey(p) = 2 * p.rank + s /\ Link!SortKey(r) = 2 * r.rank + t
  BY DEF Link!SortKey
<1> HIDE DEF s, t
<1>4. Link!SortKey(p) \in Nat
  BY <1>1, <1>2, <1>3
<1>5. ASSUME Link!SortKey(p) = Link!SortKey(r) PROVE p = r
  <2>1. p.rank = r.rank /\ s = t
    BY <1>1, <1>2, <1>3, <1>5
  <2>2. QED
    BY <1>1, <1>2, <2>1
<1>6. QED
  BY <1>4, <1>5

\* Where a parameter occurs in a query.
At(q, p) == {i \in DOMAIN q : q[i] = p}

LEMMA AtFinite ==
  ASSUME NEW q \in Seq(Link!Param), NEW p
  PROVE  IsFiniteSet(At(q, p)) /\ Cardinality(At(q, p)) \in Nat
<1>1. DOMAIN q = 1 .. Len(q) /\ Len(q) \in Nat
  OBVIOUS
<1>2. IsFiniteSet(1 .. Len(q))
  BY <1>1, FS_Interval
<1>3. At(q, p) \in SUBSET (1 .. Len(q))
  BY <1>1 DEF At
<1>4. QED
  BY <1>2, <1>3, FS_Subset, FS_CardinalityType

\* A query in the order of its parameters.
InOrder(a) ==
  /\ a \in Seq(Link!Param)
  /\ \A i, j \in DOMAIN a : i < j => Link!SortKey(a[i]) <= Link!SortKey(a[j])

\* Sorting drops the tracking parameters and keeps the others as often as they occur.
LEMMA SortedList ==
  ASSUME NEW q \in Seq(Link!Param)
  PROVE  /\ InOrder(Link!Sorted(q))
         /\ \A i \in DOMAIN Link!Sorted(q) : Link!Kept(Link!Sorted(q)[i])
         /\ \A p : Link!Kept(p) =>
              Cardinality(At(Link!Sorted(q), p)) = Cardinality(At(q, p))
<1> DEFINE S   == {i \in DOMAIN q : Link!Kept(q[i])}
           key == [i \in DOMAIN q |-> Link!SortKey(q[i])]
           b   == Ordered(q, S, key, Cardinality(S))
           n   == Cardinality(S)
<1>1. Link!Sorted(q) = b
  BY LinkOrder DEF Link!Sorted
<1>2. DOMAIN q = 1 .. Len(q) /\ Len(q) \in Nat /\ \A i \in DOMAIN q : q[i] \in Link!Param
  OBVIOUS
<1>3. Keyed(S, key)
  <2>1. IsFiniteSet(1 .. Len(q))
    BY <1>2, FS_Interval
  <2>2. S \in SUBSET (1 .. Len(q)) /\ S \subseteq Nat
    BY <1>2
  <2>3. \A i \in S : key[i] \in Nat
    BY <1>2, KeysTellApart
  <2> HIDE DEF S, key
  <2>4. QED
    BY <2>1, <2>2, <2>3, FS_Subset DEF Keyed
<1>4. \A i \in S : i \in DOMAIN q /\ Link!Kept(q[i]) /\ key[i] = Link!SortKey(q[i]) /\ i \in Nat
  BY <1>2
<1>5. \A i \in DOMAIN q : Link!Kept(q[i]) => i \in S
  OBVIOUS
<1> HIDE DEF S, key
<1>6. n \in Nat
  BY <1>3, Places
<1>7. PICK at : IsSorted(b, q, S, key, n, at)
  BY <1>3, <1>6, OrderedIs
<1> HIDE DEF b
<1>8. /\ DOMAIN b = 1 .. n /\ Len(b) = n /\ at \in [1 .. n -> S]
      /\ \A i \in 1 .. n : b[i] = q[at[i]] /\ Place(S, key, at[i]) = i
      /\ \A i \in S : Place(S, key, i) <= n => at[Place(S, key, i)] = i
  <2>1. (IF n < n THEN n ELSE n) = n
    OBVIOUS
  <2>2. QED
    BY <1>7, <2>1 DEF IsSorted
<1>9. \A i \in S : Place(S, key, i) \in 1 .. n /\ at[Place(S, key, i)] = i
  BY <1>3, <1>6, <1>8, Places
<1> HIDE DEF n
<1>10. ASSUME NEW i \in 1 .. n
       PROVE  /\ at[i] \in S /\ b[i] = q[at[i]] /\ b[i] \in Link!Param /\ Link!Kept(b[i])
              /\ key[at[i]] = Link!SortKey(b[i])
  <2>1. at[i] \in S /\ b[i] = q[at[i]]
    BY <1>8
  <2>2. QED
    BY <1>2, <1>4, <2>1
<1>11. b \in Seq(Link!Param)
  <2>1. b = [i \in 1 .. n |-> b[i]]
    BY <1>8 DEF b, Ordered
  <2>2. QED
    BY <1>6, <1>10, <2>1
<1>12. ASSUME NEW i \in 1 .. n, NEW j \in 1 .. n, i < j
       PROVE  Link!SortKey(b[i]) <= Link!SortKey(b[j])
  <2>1. /\ at[i] \in S /\ at[j] \in S /\ Place(S, key, at[i]) = i /\ Place(S, key, at[j]) = j
        /\ i \in Nat /\ j \in Nat
    BY <1>6, <1>8
  <2>2. at[i] # at[j]
    BY <1>12, <2>1
  <2>3. ~NoLater(key, at[j], at[i])
    <3>1. SUFFICES ASSUME NoLater(key, at[j], at[i]) PROVE FALSE
      OBVIOUS
    <3>2. Place(S, key, at[j]) < Place(S, key, at[i])
      BY <1>3, <2>1, <2>2, <3>1, Places
    <3>3. QED
      BY <1>12, <2>1, <3>2
  <2>4. key[at[i]] \in Nat /\ key[at[j]] \in Nat
    BY <1>3, <2>1 DEF Keyed
  <2>5. key[at[i]] <= key[at[j]]
    BY <2>3, <2>4 DEF NoLater
  <2>6. QED
    BY <1>10, <2>5
<1>13. ASSUME NEW p, Link!Kept(p) PROVE Cardinality(At(b, p)) = Cardinality(At(q, p))
  <2> DEFINE f == [i \in At(b, p) |-> at[i]]
  <2>1. \A i \in At(b, p) : i \in 1 .. n /\ at[i] \in At(q, p)
    BY <1>8, <1>10, <1>4 DEF At
  <2>2. \A i, j \in At(b, p) : at[i] = at[j] => i = j
    BY <1>8, <2>1
  <2>3. \A i \in At(q, p) : \E j \in At(b, p) : at[j] = i
    <3>1. TAKE i \in At(q, p)
    <3>2. i \in S
      BY <1>5, <1>13 DEF At
    <3>3. Place(S, key, i) \in 1 .. n /\ at[Place(S, key, i)] = i
      BY <1>9, <3>2
    <3>4. b[Place(S, key, i)] = p
      BY <1>8, <3>3 DEF At
    <3>5. Place(S, key, i) \in At(b, p)
      BY <1>8, <3>3, <3>4 DEF At
    <3>6. QED
      BY <3>3, <3>5
  <2>4. f \in Bijection(At(b, p), At(q, p))
    BY <2>1, <2>2, <2>3 DEF Bijection, Injection, Surjection, IsInjective
  <2>5. IsFiniteSet(At(b, p))
    BY <1>11, AtFinite
  <2> HIDE DEF f
  <2>6. QED
    BY <2>4, <2>5, FS_Bijection DEF ExistsBijection
<1>14. InOrder(b)
  BY <1>8, <1>11, <1>12 DEF InOrder
<1>15. QED
  BY <1>1, <1>8, <1>10, <1>13, <1>14

\* Up to a place where two lists agree, and holding every parameter equally often,
\* neither goes on later or with a later parameter than the other.
SameCounts(a, b) == \A p \in Link!Param : Cardinality(At(a, p)) = Cardinality(At(b, p))

LEMMA GoesOn ==
  ASSUME NEW a, NEW b, InOrder(a), InOrder(b), SameCounts(a, b), NEW m \in DOMAIN a,
         \A i \in 1 .. m - 1 : i \in DOMAIN a /\ i \in DOMAIN b /\ a[i] = b[i]
  PROVE  m \in DOMAIN b /\ Link!SortKey(b[m]) <= Link!SortKey(a[m])
<1>1. /\ DOMAIN a = 1 .. Len(a) /\ Len(a) \in Nat /\ DOMAIN b = 1 .. Len(b) /\ Len(b) \in Nat
      /\ \A i \in DOMAIN a : a[i] \in Link!Param
      /\ \A i \in DOMAIN b : b[i] \in Link!Param
  BY DEF InOrder
<1>2. a[m] \in Link!Param /\ Link!SortKey(a[m]) \in Nat /\ m \in Nat /\ 1 <= m
  BY <1>1, KeysTellApart
<1>3. \A i \in DOMAIN b : Link!SortKey(b[i]) \in Nat /\ i \in Nat /\ 1 <= i /\ i <= Len(b)
  BY <1>1, KeysTellApart
<1> SUFFICES ASSUME ~(m \in DOMAIN b /\ Link!SortKey(b[m]) <= Link!SortKey(a[m])) PROVE FALSE
  OBVIOUS
<1>4. ASSUME NEW i \in At(b, a[m]) PROVE i \in 1 .. m - 1
  <2>1. i \in DOMAIN b /\ b[i] = a[m]
    BY DEF At
  <2>2. SUFFICES ASSUME i >= m PROVE FALSE
    BY <1>2, <1>3, <2>1
  <2>3. m \in DOMAIN b
    BY <1>1, <1>2, <1>3, <2>1, <2>2
  <2>4. Link!SortKey(b[m]) <= Link!SortKey(b[i])
    <3>1. CASE i = m
      BY <1>3, <2>3, <3>1
    <3>2. CASE i # m
      <4>1. m < i
        BY <1>2, <1>3, <2>1, <2>2, <3>2
      <4>2. QED
        BY <2>1, <2>3, <4>1 DEF InOrder
    <3>3. QED
      BY <3>1, <3>2
  <2>5. QED
    BY <2>1, <2>3, <2>4
<1>5. At(b, a[m]) \in SUBSET At(a, a[m])
  BY <1>4 DEF At
<1>6. m \in At(a, a[m]) /\ m \notin At(b, a[m])
  BY <1>2, <1>4 DEF At
<1>7. IsFiniteSet(At(a, a[m]))
  BY AtFinite DEF InOrder
<1>8. Cardinality(At(a, a[m])) = Cardinality(At(b, a[m]))
  BY <1>2 DEF SameCounts
<1>9. QED
  BY <1>5, <1>6, <1>7, <1>8, FS_Subset

\* A list in order is given by how often each parameter is in it.
LEMMA CountsGiveList ==
  ASSUME NEW a, NEW b, InOrder(a), InOrder(b), SameCounts(a, b)
  PROVE  a = b
<1> DEFINE D == {i \in DOMAIN a \cup DOMAIN b :
                   ~(i \in DOMAIN a /\ i \in DOMAIN b /\ a[i] = b[i])}
<1>1. /\ DOMAIN a = 1 .. Len(a) /\ Len(a) \in Nat /\ DOMAIN b = 1 .. Len(b) /\ Len(b) \in Nat
      /\ \A i \in DOMAIN a : a[i] \in Link!Param
      /\ \A i \in DOMAIN b : b[i] \in Link!Param
      /\ a \in Seq(Link!Param) /\ b \in Seq(Link!Param)
  BY DEF InOrder
<1>2. D = {}
  <2>1. SUFFICES ASSUME D # {} PROVE FALSE
    OBVIOUS
  <2>2. D \subseteq Nat
    BY <1>1
  <2>3. PICK m \in D : \A i \in D : m <= i
    <3> HIDE DEF D
    <3>1. QED
      BY <2>1, <2>2, Least
  <2>4. \A i \in 1 .. m - 1 : i \in DOMAIN a /\ i \in DOMAIN b /\ a[i] = b[i]
    <3>1. TAKE i \in 1 .. m - 1
    <3>2. i \in Nat /\ 1 <= i /\ i < m /\ m \in Nat
      BY <2>2, <2>3
    <3>3. i \in DOMAIN a \cup DOMAIN b
      BY <1>1, <2>3, <3>2
    <3>4. i \notin D
      <4> HIDE DEF D
      <4>1. QED
        BY <2>2, <2>3, <3>2
    <3>5. QED
      BY <3>3, <3>4
  <2>5. SameCounts(b, a)
    BY DEF SameCounts
  <2>6. \A i \in 1 .. m - 1 : i \in DOMAIN b /\ i \in DOMAIN a /\ b[i] = a[i]
    BY <2>4
  <2>7. m \in DOMAIN a => m \in DOMAIN b /\ Link!SortKey(b[m]) <= Link!SortKey(a[m])
    BY <2>4, GoesOn
  <2>8. m \in DOMAIN b => m \in DOMAIN a /\ Link!SortKey(a[m]) <= Link!SortKey(b[m])
    BY <2>5, <2>6, GoesOn
  <2>9. m \in DOMAIN a /\ m \in DOMAIN b
    BY <2>3, <2>7, <2>8
  <2>10. a[m] = b[m]
    <3>1. a[m] \in Link!Param /\ b[m] \in Link!Param
      BY <1>1, <2>9
    <3>2. Link!SortKey(a[m]) \in Nat /\ Link!SortKey(b[m]) \in Nat
      BY <3>1, KeysTellApart
    <3>3. Link!SortKey(a[m]) = Link!SortKey(b[m])
      BY <2>7, <2>8, <2>9, <3>2
    <3>4. QED
      BY <3>1, <3>3, KeysTellApart
  <2>11. QED
    BY <2>3, <2>9, <2>10
<1>3. DOMAIN a = DOMAIN b /\ \A i \in DOMAIN a : a[i] = b[i]
  BY <1>2
<1> HIDE DEF D
<1>4. Len(a) = Len(b)
  <2> DEFINE m == Len(a)
             n == Len(b)
  <2>1. m \in Nat /\ n \in Nat /\ \A i : i \in 1 .. m <=> i \in 1 .. n
    BY <1>1, <1>3
  <2> HIDE DEF m, n
  <2>2. ~(m < n) /\ ~(n < m)
    <3>1. m < n => n \in 1 .. n /\ n \notin 1 .. m
      BY <2>1
    <3>2. n < m => m \in 1 .. m /\ m \notin 1 .. n
      BY <2>1
    <3>3. QED
      BY <2>1, <3>1, <3>2
  <2>3. m = n
    BY <2>1, <2>2
  <2>4. QED
    BY <2>3 DEF m, n
<1>5. QED
  BY <1>1, <1>3, <1>4

\* The content of a query is how often each parameter is in it that is kept.
LEMMA ContentIs ==
  ASSUME NEW q \in Seq(Link!Param), NEW r \in Seq(Link!Param)
  PROVE  Link!Content(q) = Link!Content(r) <=>
           \A p \in Link!Param : Link!Kept(p) => Cardinality(At(q, p)) = Cardinality(At(r, p))
<1> DEFINE par(k, s) == [rank |-> k, slash |-> s]
           kept      == Params \ Tracking
<1>1. ASSUME NEW t \in Seq(Link!Param), NEW k \in kept
      PROVE  Link!Content(t)[k] =
               <<Cardinality(At(t, par(k, TRUE))), Cardinality(At(t, par(k, FALSE)))>>
  <2>1. \A i \in DOMAIN t : t[i] \in Link!Param
    OBVIOUS
  <2>2. \A i \in DOMAIN t : (t[i].rank = k /\ t[i].slash) <=> t[i] = par(k, TRUE)
    BY <2>1 DEF Link!Param
  <2>3. \A i \in DOMAIN t : (t[i].rank = k /\ ~t[i].slash) <=> t[i] = par(k, FALSE)
    BY <2>1 DEF Link!Param
  <2>4. {i \in DOMAIN t : t[i].rank = k /\ t[i].slash} = At(t, par(k, TRUE))
    BY <2>2 DEF At
  <2>5. {i \in DOMAIN t : t[i].rank = k /\ ~t[i].slash} = At(t, par(k, FALSE))
    BY <2>3 DEF At
  <2> HIDE DEF par
  <2>6. QED
    BY <2>4, <2>5, LinkOrder DEF Link!Content
<1>2. \A t : Link!Content(t) = [k \in kept |-> Link!Content(t)[k]]
  BY DEF Link!Content
<1>3. \A p \in Link!Param : Link!Kept(p) =>
        p.rank \in kept /\ (p = par(p.rank, TRUE) \/ p = par(p.rank, FALSE))
  BY DEF Link!Param, Link!Kept
<1>4. \A k \in kept, s \in BOOLEAN : par(k, s) \in Link!Param /\ Link!Kept(par(k, s))
  BY DEF Link!Param, Link!Kept
<1> HIDE DEF par, kept
<1>5. ASSUME Link!Content(q) = Link!Content(r), NEW p \in Link!Param, Link!Kept(p)
      PROVE  Cardinality(At(q, p)) = Cardinality(At(r, p))
  <2> DEFINE k == p.rank
  <2>1. k \in kept /\ (p = par(k, TRUE) \/ p = par(k, FALSE))
    BY <1>3, <1>5
  <2>2. <<Cardinality(At(q, par(k, TRUE))), Cardinality(At(q, par(k, FALSE)))>> =
        <<Cardinality(At(r, par(k, TRUE))), Cardinality(At(r, par(k, FALSE)))>>
    BY <1>1, <1>5, <2>1
  <2>3. QED
    BY <2>1, <2>2
<1>6. ASSUME \A p \in Link!Param : Link!Kept(p) => Cardinality(At(q, p)) = Cardinality(At(r, p))
      PROVE  Link!Content(q) = Link!Content(r)
  <2>1. ASSUME NEW k \in kept PROVE Link!Content(q)[k] = Link!Content(r)[k]
    <3>1. /\ Cardinality(At(q, par(k, TRUE))) = Cardinality(At(r, par(k, TRUE)))
          /\ Cardinality(At(q, par(k, FALSE))) = Cardinality(At(r, par(k, FALSE)))
      BY <1>4, <1>6
    <3>2. QED
      BY <1>1, <3>1
  <2>2. QED
    BY <1>2, <2>1
<1>7. QED
  BY <1>5, <1>6

\* Two queries are sorted to one list exactly if their content is the same.
LEMMA SortedByContent ==
  ASSUME NEW q \in Seq(Link!Param), NEW r \in Seq(Link!Param)
  PROVE  Link!Sorted(q) = Link!Sorted(r) <=> Link!Content(q) = Link!Content(r)
<1> DEFINE a == Link!Sorted(q)
           b == Link!Sorted(r)
<1>1. /\ InOrder(a) /\ \A i \in DOMAIN a : Link!Kept(a[i])
      /\ \A p : Link!Kept(p) => Cardinality(At(a, p)) = Cardinality(At(q, p))
  BY SortedList
<1>2. /\ InOrder(b) /\ \A i \in DOMAIN b : Link!Kept(b[i])
      /\ \A p : Link!Kept(p) => Cardinality(At(b, p)) = Cardinality(At(r, p))
  BY SortedList
<1> HIDE DEF a, b
<1>3. ASSUME a = b PROVE Link!Content(q) = Link!Content(r)
  <2>1. \A p \in Link!Param : Link!Kept(p) => Cardinality(At(q, p)) = Cardinality(At(r, p))
    BY <1>1, <1>2, <1>3
  <2>2. QED
    BY <2>1, ContentIs
<1>4. ASSUME Link!Content(q) = Link!Content(r) PROVE a = b
  <2>1. \A p \in Link!Param : Link!Kept(p) => Cardinality(At(q, p)) = Cardinality(At(r, p))
    BY <1>4, ContentIs
  <2>2. ASSUME NEW p \in Link!Param PROVE Cardinality(At(a, p)) = Cardinality(At(b, p))
    <3>1. CASE Link!Kept(p)
      BY <1>1, <1>2, <2>1, <3>1
    <3>2. CASE ~Link!Kept(p)
      <4>1. At(a, p) = {} /\ At(b, p) = {}
        BY <1>1, <1>2, <3>2 DEF At
      <4>2. QED
        BY <4>1
    <3>3. QED
      BY <3>1, <3>2
  <2>3. QED
    BY <1>1, <1>2, <2>2, CountsGiveList DEF SameCounts
<1>5. QED
  BY <1>3, <1>4 DEF a, b

\* The last value of a query with or without its slash.
LEMMA LastSlash ==
  ASSUME NEW u \in LinkForm, u.query # <<>>, NEW s \in BOOLEAN
  PROVE  /\ [u EXCEPT !.query[Len(u.query)].slash = s] \in LinkForm
         /\ [u EXCEPT !.query[Len(u.query)].slash = s].page = u.page
<1> DEFINE n == Len(u.query)
           p == [u.query[n] EXCEPT !.slash = s]
           q == [u.query EXCEPT ![n] = p]
<1>1. u.query \in Seq(Link!Param) /\ n \in DOMAIN u.query
  BY DEF LinkForm
<1>2. u.query[n] \in Link!Param
  BY <1>1
<1>3. p \in Link!Param
  BY <1>2 DEF Link!Param
<1> HIDE DEF p
<1>4. q \in Seq(Link!Param)
  BY <1>1, <1>3
<1>5. [u EXCEPT !.query[Len(u.query)].slash = s] = [u EXCEPT !.query = q]
  BY DEF p
<1> HIDE DEF q
<1>6. [u EXCEPT !.query = q] \in LinkForm /\ [u EXCEPT !.query = q].page = u.page
  BY <1>4 DEF LinkForm
<1>7. QED
  BY <1>5, <1>6

LEMMA StripSlashIs ==
  ASSUME NEW u \in LinkForm
  PROVE  Link!StripSlash(u) \in LinkForm /\ Link!StripSlash(u).page = u.page
<1>1. CASE u.query = <<>>
  <2>1. Link!StripSlash(u) = [u EXCEPT !.slash = FALSE]
    BY <1>1 DEF Link!StripSlash
  <2>2. QED
    BY <2>1 DEF LinkForm
<1>2. CASE u.query # <<>>
  <2>1. Link!StripSlash(u) = [u EXCEPT !.query[Len(u.query)].slash = FALSE]
    BY <1>2 DEF Link!StripSlash
  <2>2. QED
    BY <1>2, <2>1, LastSlash
<1>3. QED
  BY <1>1, <1>2

\* What is stripped is a "/" at the end of the link.
LEMMA StripSlashEnds ==
  ASSUME NEW u \in LinkForm
  PROVE  Link!StripSlash(u) \in Link!Endings(u)
<1>1. CASE u.query = <<>>
  BY <1>1 DEF Link!StripSlash, Link!Endings
<1>2. CASE u.query # <<>>
  BY <1>2 DEF Link!StripSlash, Link!Endings
<1>3. QED
  BY <1>1, <1>2

\* Where a link has no other "/", none is left, and nothing else has changed.
LEMMA NoSlashLeft ==
  ASSUME NEW u \in LinkForm, Link!SlashOnlyAtEnd(u)
  PROVE  LET q == Link!StripSlash(u).query
         IN  /\ Link!StripSlash(u).slash = FALSE
             /\ DOMAIN q = DOMAIN u.query
             /\ \A i \in DOMAIN q : ~q[i].slash /\ q[i].rank = u.query[i].rank
<1> DEFINE n == Len(u.query)
<1>1. /\ u.slash \in BOOLEAN /\ u.query \in Seq(Link!Param)
      /\ \A i \in DOMAIN u.query : u.query[i] \in Link!Param
  BY DEF LinkForm
<1>2. CASE u.query = <<>>
  <2>1. Link!StripSlash(u) = [u EXCEPT !.slash = FALSE]
    BY <1>2 DEF Link!StripSlash
  <2>2. Link!StripSlash(u).slash = FALSE /\ Link!StripSlash(u).query = u.query
    BY <2>1 DEF LinkForm
  <2>3. QED
    BY <1>2, <2>2
<1>3. CASE u.query # <<>>
  <2> DEFINE p == [u.query[n] EXCEPT !.slash = FALSE]
             q == [u.query EXCEPT ![n] = p]
  <2>1. Link!StripSlash(u) = [u EXCEPT !.query = q]
    BY <1>3 DEF Link!StripSlash
  <2>2. n \in DOMAIN u.query
    BY <1>1, <1>3
  <2>3. p.slash = FALSE /\ p.rank = u.query[n].rank
    BY <1>1, <2>2 DEF Link!Param
  <2> HIDE DEF p
  <2>4. /\ DOMAIN q = DOMAIN u.query
        /\ \A i \in DOMAIN q : q[i] = IF i = n THEN p ELSE u.query[i]
    BY <1>1
  <2>5. \A i \in DOMAIN u.query : u.query[i].slash => i = n
    BY DEF Link!SlashOnlyAtEnd
  <2>6. u.slash = FALSE
    BY <1>1, <1>3 DEF Link!SlashOnlyAtEnd
  <2> HIDE DEF q
  <2>7. Link!StripSlash(u).query = q /\ Link!StripSlash(u).slash = FALSE
    BY <2>1, <2>6 DEF LinkForm
  <2> HIDE DEF n
  <2>8. \A i \in DOMAIN q : ~q[i].slash /\ q[i].rank = u.query[i].rank
    BY <2>3, <2>4, <2>5
  <2>9. QED
    BY <2>4, <2>7, <2>8
<1>4. QED
  BY <1>2, <1>3

Occurs(q, r) == {i \in DOMAIN q : q[i].rank = r}

\* The content of such a link is how often each parameter is in it.
LEMMA PlainContent ==
  ASSUME NEW u \in LinkForm, Link!SlashOnlyAtEnd(u), NEW r \in Params \ Tracking
  PROVE  Link!Content(Link!StripSlash(u).query)[r] =
           <<Cardinality({}), Cardinality(Occurs(u.query, r))>>
<1> DEFINE q == Link!StripSlash(u).query
<1>1. /\ DOMAIN q = DOMAIN u.query
      /\ \A i \in DOMAIN q : ~q[i].slash /\ q[i].rank = u.query[i].rank
  BY NoSlashLeft
<1> HIDE DEF q
<1>2. {i \in DOMAIN q : q[i].rank = r /\ q[i].slash} = {}
  BY <1>1
<1>3. {i \in DOMAIN q : q[i].rank = r /\ ~q[i].slash} = Occurs(u.query, r)
  BY <1>1 DEF Occurs
<1>4. Link!Content(q)[r] = <<Cardinality({}), Cardinality(Occurs(u.query, r))>>
  BY <1>2, <1>3, LinkOrder DEF Link!Content
<1>5. QED
  BY <1>4 DEF q

LEMMA FingerprintTells == ASSUME LinkInv PROVE Link!FingerprintIsTheLink
<1> DEFINE s == Link!StripSlash(first)
           t == Link!StripSlash(link)
<1>1. /\ first \in LinkForm /\ link \in LinkForm
      /\ s \in LinkForm /\ t \in LinkForm
      /\ s.page = first.page /\ t.page = link.page
  BY StripSlashIs DEF LinkInv
<1>2. s \in Link!Endings(first) /\ t \in Link!Endings(link)
  BY <1>1, StripSlashEnds
<1>3. /\ Link!Basis(first) = [page |-> s.page, slash |-> s.slash, query |-> Link!Sorted(s.query)]
      /\ Link!Basis(link) = [page |-> t.page, slash |-> t.slash, query |-> Link!Sorted(t.query)]
  BY DEF Link!Basis
<1>4. ASSUME Link!SlashOnlyAtEnd(first), Link!SlashOnlyAtEnd(link),
             Link!SameContent(first, link)
      PROVE  s.slash = t.slash /\ Link!Content(s.query) = Link!Content(t.query)
  <2>1. s.slash = FALSE /\ t.slash = FALSE
    BY <1>1, <1>4, NoSlashLeft
  <2>2. ASSUME NEW r \in Params \ Tracking
        PROVE  Link!Content(s.query)[r] = Link!Content(t.query)[r]
    <3>1. /\ Link!Content(s.query)[r] = <<Cardinality({}), Cardinality(Occurs(first.query, r))>>
          /\ Link!Content(t.query)[r] = <<Cardinality({}), Cardinality(Occurs(link.query, r))>>
      BY <1>1, <1>4, PlainContent
    <3>2. Cardinality(Occurs(first.query, r)) = Cardinality(Occurs(link.query, r))
      BY <1>4, LinkOrder DEF Link!SameContent, Occurs
    <3>3. QED
      BY <3>1, <3>2
  <2> HIDE DEF s, t
  <2>3. Link!Content(s.query) = Link!Content(t.query)
    <3>1. \A q : Link!Content(q) = [r \in Params \ Tracking |-> Link!Content(q)[r]]
      BY DEF Link!Content
    <3>2. QED
      BY <2>2, <3>1
  <2>4. QED
    BY <2>1, <2>3
<1> HIDE DEF s, t
<1>5. Link!Sorted(s.query) = Link!Sorted(t.query) <=> Link!Content(s.query) = Link!Content(t.query)
  <2>1. s.query \in Seq(Link!Param) /\ t.query \in Seq(Link!Param)
    BY <1>1 DEF LinkForm
  <2>2. QED
    BY <2>1, SortedByContent
<1>6. Link!Basis(first) = Link!Basis(link) <=>
        s.page = t.page /\ s.slash = t.slash /\ Link!Sorted(s.query) = Link!Sorted(t.query)
  BY <1>3
<1>7. Link!Basis(first) = Link!Basis(link) => Link!Alike(s, t)
  BY <1>5, <1>6 DEF Link!Alike
<1>8. Link!SameContent(first, link) => s.page = t.page
  BY <1>1 DEF Link!SameContent
<1>9. QED
  BY <1>2, <1>4, <1>5, <1>6, <1>7, <1>8 DEF Link!FingerprintIsTheLink

LEMMA LinkInit == ASSUME Link!Init PROVE LinkInv
<1>1. Link!BoundedSeq(Link!Param, MaxParams) \subseteq Seq(Link!Param)
  BY DEF Link!BoundedSeq, Link!SeqOf
<1>2. first \in Link!Link /\ link = first
  BY DEF Link!Init
<1>3. QED
  BY <1>1, <1>2 DEF LinkInv, LinkForm, Link!Link

\* A link whose query was changed.
LEMMA NewQuery ==
  ASSUME NEW u \in LinkForm, NEW q \in Seq(Link!Param)
  PROVE  [u EXCEPT !.query = q] \in LinkForm
  BY DEF LinkForm

LEMMA LinkStep == ASSUME LinkInv, Link!Next PROVE LinkInv'
<1> SUFFICES link' \in LinkForm
  <2>1. first' = first
    BY DEF Link!Next, Link!Respell, Link!AddSlash, Link!Reorder, Link!AddParam,
           Link!DropParam, Link!OtherPage, Link!To
  <2>2. QED
    BY <2>1 DEF LinkInv, LinkForm, Link!Param
<1>1. link \in LinkForm /\ link.query \in Seq(Link!Param)
  BY DEF LinkInv, LinkForm
<1>2. CASE Link!Respell
  BY <1>1, <1>2 DEF Link!Respell, Link!To, LinkForm
<1>3. CASE Link!AddSlash
  <2>1. CASE link' = [link EXCEPT !.slash = ~@]
    BY <1>1, <2>1 DEF LinkForm
  <2>2. CASE link.query # <<>> /\ link' = [link EXCEPT !.query[Len(link.query)].slash = ~@]
    <3> DEFINE n == Len(link.query)
    <3>1. link.query[n].slash \in BOOLEAN
      <4>1. n \in DOMAIN link.query
        BY <1>1, <2>2
      <4>2. link.query[n] \in Link!Param
        BY <1>1, <4>1
      <4>3. QED
        BY <4>2 DEF Link!Param
    <3>2. link' = [link EXCEPT !.query[n].slash = ~link.query[n].slash]
      BY <2>2
    <3>3. QED
      BY <1>1, <2>2, <3>1, <3>2, LastSlash
  <2>3. QED
    BY <1>3, <2>1, <2>2 DEF Link!AddSlash, Link!To
<1>4. CASE Link!Reorder
  <2>1. link' = [link EXCEPT !.query = Link!Reverse(link.query)]
    BY <1>4 DEF Link!Reorder, Link!To
  <2>2. Link!Reverse(link.query) \in Seq(Link!Param)
    <3>1. \A i \in 1 .. Len(link.query) : link.query[Len(link.query) - i + 1] \in Link!Param
      BY <1>1
    <3>2. QED
      BY <1>1, <3>1 DEF Link!Reverse
  <2>3. QED
    BY <1>1, <2>1, <2>2, NewQuery
<1>5. CASE \E p \in Link!Param : Link!AddParam(p)
  <2>1. PICK p \in Link!Param : link' = [link EXCEPT !.query = Append(link.query, p)]
    BY <1>5 DEF Link!AddParam, Link!To
  <2>2. Append(link.query, p) \in Seq(Link!Param)
    BY <1>1
  <2>3. QED
    BY <1>1, <2>1, <2>2, NewQuery
<1>6. CASE \E i \in DOMAIN link.query : Link!DropParam(i)
  <2>1. PICK i \in DOMAIN link.query : link' = [link EXCEPT !.query = Without(link.query, i)]
    BY <1>6 DEF Link!DropParam, Link!To, Without
  <2>2. Without(link.query, i) \in Seq(Link!Param)
    <3>1. i \in 1 .. Len(link.query)
      BY <1>1
    <3>2. QED
      BY <1>1, <3>1, WithoutOne
  <2>3. QED
    BY <1>1, <2>1, <2>2, NewQuery
<1>7. CASE \E p \in Pages : Link!OtherPage(p)
  BY <1>1, <1>7 DEF Link!OtherPage, Link!To, LinkForm
<1>8. QED
  BY <1>2, <1>3, <1>4, <1>5, <1>6, <1>7 DEF Link!Next

LEMMA LinkInvHolds == ServicesSpec => []LinkInv
<1>1. ServicesInit => LinkInv
  BY LinkInit DEF ServicesInit
<1>2. LinkInv /\ [ServicesNext]_<<part, access, rows, links, graph, audit>> => LinkInv'
  <2> SUFFICES ASSUME LinkInv, [ServicesNext]_<<part, access, rows, links, graph, audit>>
               PROVE  LinkInv'
    OBVIOUS
  <2>1. CASE Link!Next
    BY <2>1, LinkStep
  <2>2. CASE UNCHANGED links
    BY <2>2 DEF LinkInv, LinkForm, Link!Param, links
  <2>3. QED
    BY <2>1, <2>2 DEF ServicesNext
<1>3. QED
  BY <1>1, <1>2, PTL DEF ServicesSpec

\* content_fingerprint: however a link is respelled, with any number of
\* parameters, what has the fingerprint of the link first saved is written like
\* it but for a "/" at the end, and a link to the same content has it unless one
\* of the two has a "/" elsewhere.
THEOREM FingerprintsTell == ServicesSpec => []FingerprintIsTheLink
<1>1. LinkInv => FingerprintIsTheLink
  BY FingerprintTells DEF FingerprintIsTheLink
<1>2. QED
  BY <1>1, LinkInvHolds, PTL

=============================================================================
