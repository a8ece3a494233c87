------------------------------ MODULE OAuthShim ------------------------------
(***************************************************************************)
(* openbrain-mcp's OAuth shim: dynamic client registration, authorization  *)
(* codes bound to a PKCE challenge, and the token endpoint, as handlers    *)
(* over the tables of OAuthState.  Each handler awaits only its request body and then *)
(* runs to its end on the event loop, so a handler is one step; a request  *)
(* that is refused before it touches the state is no step at all.          *)
(***************************************************************************)
EXTENDS OAuthState, FiniteSets

AllowedAssumption == AllowedUris \subseteq Uris
NumbersAssumption == MaxClients \in Nat /\ TTL \in Nat /\ MaxTime \in Nat

Entry == [client: ClientIds, uri: Uris, challenge: Verifiers, expires: Nat]
Request == [code: Codes, client: ClientIds, uri: Uris, verifier: Verifiers,
            wellFormed: BOOLEAN]

history == <<issued, granted, last>>
vars    == <<clients, codes, now, issued, granted, last>>

Registered == {i \in ClientIds : clients[i] # {}}

Init ==
  /\ clients = [i \in ClientIds |-> {}]
  /\ codes   = [c \in Codes |-> None]
  /\ now     = 0
  /\ issued  = [c \in Codes |-> None]
  /\ granted = [c \in Codes |-> 0]
  /\ last    = None
-----------------------------------------------------------------------------
Room == Cardinality(Registered) < MaxClients

Acceptable(uris) == uris # {} /\ uris \subseteq AllowedUris

\* An id of before a restart may be drawn again: it is gone from the memory.
Register(i, uris) ==
  /\ Acceptable(uris)
  /\ Room
  /\ i \notin Registered
  /\ clients' = [clients EXCEPT ![i] = uris]
  /\ UNCHANGED <<codes, now, history>>

Authorize(i, uri, verifier, c) ==
  /\ uri \in clients[i]
  /\ issued[c] = None
  /\ LET entry == [client |-> i, uri |-> uri, challenge |-> verifier,
                   expires |-> now + TTL]
     IN  /\ codes'  = [codes EXCEPT ![c] = entry]
         /\ issued' = [issued EXCEPT ![c] = entry]
  /\ UNCHANGED <<clients, now, granted, last>>

\* mutated form: expiry is not looked at
NeverExpires(entry, req) ==
  /\ entry # None
  /\ entry.client = req.client
  /\ entry.uri = req.uri
  /\ entry.challenge = req.verifier

\* the checks that follow the pop, the last of them _verify_pkce
Valid(entry, req) ==
  /\ entry # None
  /\ entry.expires >= now
  /\ entry.client = req.client
  /\ entry.uri = req.uri
  /\ entry.challenge = req.verifier

\* mutated form: `_auth_codes.get` instead of `.pop`
Get(c) == UNCHANGED codes

\* `_auth_codes.pop(code, None)`
Pop(c) == codes' = [codes EXCEPT ![c] = None]

\* every field is a plain string and the grant type is authorization_code
PassesChecks(req) == req.wellFormed

Token(req) ==
  /\ PassesChecks(req)
  /\ Pop(req.code)
  /\ IF Valid(codes[req.code], req)
       THEN /\ granted' = [granted EXCEPT ![req.code] = @ + 1]
            /\ last' = [req |-> req, at |-> now]
       ELSE UNCHANGED <<granted, last>>
  /\ UNCHANGED <<clients, now, issued>>

\* The process is restarted: clients and codes were never written down.
Restart ==
  /\ clients' = [i \in ClientIds |-> {}]
  /\ codes'   = [c \in Codes |-> None]
  /\ UNCHANGED <<now, history>>

Tick ==
  /\ now < MaxTime
  /\ now' = now + 1
  /\ UNCHANGED <<clients, codes, history>>

Next ==
  \/ \E i \in ClientIds, uris \in SUBSET Uris : Register(i, uris)
  \/ \E i \in ClientIds, u \in Uris, v \in Verifiers, c \in Codes :
       Authorize(i, u, v, c)
  \/ \E req \in Request : Token(req)
  \/ Restart
  \/ Tick

Spec == Init /\ [][Next]_vars
-----------------------------------------------------------------------------
\* Every variable has its type, and the table of clients is bounded although
\* registration needs no authentication and is never undone.
TypeOK ==
  /\ Cardinality(Registered) <= MaxClients
  /\ clients \in [ClientIds -> SUBSET AllowedUris]
  /\ codes   \in [Codes -> Entry \cup {None}]
  /\ issued  \in [Codes -> Entry \cup {None}]
  /\ now     \in 0..MaxTime
  /\ granted \in [Codes -> Nat]
  /\ last    \in [req: Request, at: 0..MaxTime] \cup {None}

=============================================================================
