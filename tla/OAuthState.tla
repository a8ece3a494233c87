------------------------------ MODULE OAuthState ------------------------------
(***************************************************************************)
(* The state of openbrain-mcp's OAuth shim, all of it in memory, and what  *)
(* is promised of it.  OAuthShim says how it changes.                      *)
(*                                                                         *)
(* A PKCE challenge is represented by the verifier it is the hash of.      *)
(***************************************************************************)
EXTENDS Naturals

CONSTANTS
  ClientIds,    \* bound: the ids that token_urlsafe may draw
  Codes,        \* bound: the codes that token_urlsafe may draw
  Verifiers, Uris,
  AllowedUris,  \* ALLOWED_REDIRECT_URIS
  MaxClients,   \* MAX_REGISTERED_CLIENTS
  TTL,          \* CODE_TTL_SECONDS
  MaxTime,      \* bound: how far the clock runs
  None

VARIABLES
  clients,  \* _clients: the registered ids, with their redirect_uris
  codes,    \* _auth_codes: code -> entry, or None
  now,      \* time.time()
  issued,   \* history: the entry a code was issued with, or None
  granted,  \* history: how often a code was traded for the token
  last      \* history: the latest token request that was granted, and when

-----------------------------------------------------------------------------
\* "pop, not get: makes the code single-use": replays, wrong guesses, expiry
\* and restarts included, a code is traded for the token at most once.
CodesAreSingleUse == \A c \in Codes : granted[c] <= 1

\* The token goes out only for the client, callback and verifier the code was
\* issued for, and while the code lives, the last second included.
GrantsAreBound ==
  last # None =>
    LET entry == issued[last.req.code]
    IN  /\ entry # None
        /\ entry.client = last.req.client
        /\ entry.uri = last.req.uri /\ entry.uri \in AllowedUris
        /\ entry.challenge = last.req.verifier
        /\ last.at <= entry.expires

=============================================================================
