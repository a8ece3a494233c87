------------------------- MODULE ContentFingerprint -------------------------
(***************************************************************************)
(* openbrain-mcp/app/fingerprint.py: the key by which `save` recognises a  *)
(* capture it already has.  The same link comes in many spellings (shared  *)
(* with and without a tracking token, with http or https, ...); the code   *)
(* hashes a normalised spelling.  SHA-256 is taken to be injective, and    *)
(* case is left out: the whole link is lowercased before anything else.    *)
(*                                                                         *)
(* A query parameter is a number (its rank in Python's sort of (key,       *)
(* value) pairs) and whether its value ends in "/".                        *)
(***************************************************************************)
EXTENDS Naturals, Sequences, FiniteSets, SequencesExt, Ordering

CONSTANTS
  Pages,       \* host and path, without scheme, "www." and trailing "/"
  Params,      \* query parameters, as ranks
  Tracking,    \* those whose key is in _TRACKING_PARAMS
  MaxParams    \* bound: parameters of a link

ParamsAssumption == Params \subseteq Nat /\ Tracking \subseteq Params

VARIABLES
  first,  \* the link as it was saved first
  link    \* the link as it is forwarded now

vars == <<first, link>>

Param == [rank : Params, slash : BOOLEAN]
Link  == [https : BOOLEAN, www : BOOLEAN, page : Pages, slash : BOOLEAN,
          query : BoundedSeq(Param, MaxParams)]

-----------------------------------------------------------------------------
(* _normalize_url                                                          *)

\* mutated form: every tracking parameter is kept
KeepsTracking(p) == TRUE

\* `k not in _TRACKING_PARAMS`
Kept(p) == p.rank \notin Tracking

\* The pairs are compared by rank, and "v" comes before "v/".
SortKey(p) == 2 * p.rank + (IF p.slash THEN 1 ELSE 0)

\* sorted(...) of the pairs that are kept
Sorted(q) ==
  LET kept == {i \in DOMAIN q : Kept(q[i])}
  IN  Ordered(q, kept, [i \in DOMAIN q |-> SortKey(q[i])], Cardinality(kept))

\* u.rstrip("/"), taken of the whole string: the slash of a path that is
\* followed by a query is not at the end, that of the last value is.
StripSlash(u) ==
  IF u.query = <<>> THEN [u EXCEPT !.slash = FALSE]
  ELSE [u EXCEPT !.query[Len(u.query)].slash = FALSE]

\* The normalised basis: no scheme, no "www.", what is left of path and query.
Basis(u) ==
  LET s == StripSlash(u)
  IN  [page  |-> s.page, slash |-> s.slash,
       query |-> Sorted(s.query)]

-----------------------------------------------------------------------------
(* What senders do to a link.                                              *)

Init ==
  /\ first \in {u \in Link : u.https /\ ~u.www}
  /\ link = first

To(u) == link' = u /\ UNCHANGED first

Respell ==
  \/ To([link EXCEPT !.https = ~@])
  \/ To([link EXCEPT !.www = ~@])

AddSlash ==
  \/ To([link EXCEPT !.slash = ~@])
  \/ /\ link.query # <<>>
     /\ To([link EXCEPT !.query[Len(link.query)].slash = ~@])

AddParam(p) ==
  /\ Len(link.query) < MaxParams
  /\ To([link EXCEPT !.query = Append(@, p)])

DropParam(i) ==
  To([link EXCEPT !.query = SubSeq(@, 1, i - 1) \o SubSeq(@, i + 1, Len(@))])

Reorder == To([link EXCEPT !.query = Reverse(@)])

OtherPage(p) == To([link EXCEPT !.page = p])

Next ==
  \/ Respell \/ AddSlash \/ Reorder
  \/ \E p \in Param : AddParam(p)
  \/ \E i \in DOMAIN link.query : DropParam(i)
  \/ \E p \in Pages : OtherPage(p)

Spec == Init /\ [][Next]_vars

-----------------------------------------------------------------------------
(* Properties.  They speak of links as they are written, not of what the   *)
(* code makes of them.                                                     *)

Bears(p) == p.rank \notin Tracking

\* How often each content-bearing parameter is in a query, by rank and ending.
Content(q) ==
  [r \in Params \ Tracking |->
     <<Cardinality({i \in DOMAIN q : q[i].rank = r /\ q[i].slash}),
       Cardinality({i \in DOMAIN q : q[i].rank = r /\ ~q[i].slash})>>]

\* Written alike but for scheme, "www.", tracking parameters and the order.
Alike(u, v) ==
  /\ u.page = v.page
  /\ u.slash = v.slash
  /\ Content(u.query) = Content(v.query)

\* A link with and without a "/" as its last character.
Endings(u) ==
  {IF u.query = <<>> THEN [u EXCEPT !.slash = ends]
   ELSE [u EXCEPT !.query[Len(u.query)].slash = ends] : ends \in BOOLEAN}

\* No path and no value ends in "/" but the one that ends the link.
SlashOnlyAtEnd(u) ==
  /\ u.slash => u.query = <<>>
  /\ \A i \in DOMAIN u.query : u.query[i].slash => i = Len(u.query)

\* The same page with the same parameters, slashes not looked at.
SameContent(u, v) ==
  /\ u.page = v.page
  /\ \A r \in Params \ Tracking :
       Cardinality({i \in DOMAIN u.query : u.query[i].rank = r}) =
       Cardinality({i \in DOMAIN v.query : v.query[i].rank = r})

\* Stripping must not make two contents collide: links of one fingerprint are
\* written alike, but for one "/" at the very end of each.  And "same link ->
\* same fingerprint -> deduped on save": links to the same content are taken
\* for one however they are respelled, as long as neither has a "/" in front
\* of its query or inside it.
FingerprintIsTheLink ==
  /\ Basis(first) = Basis(link)
       => \E u \in Endings(first), v \in Endings(link) : Alike(u, v)
  /\ SlashOnlyAtEnd(first) /\ SlashOnlyAtEnd(link) /\ SameContent(first, link)
       => Basis(first) = Basis(link)

\* Shared with another tracking token, and the same in all else.
AnotherShare(u, v) ==
  /\ u.page = v.page
  /\ u.slash = v.slash
  /\ SelectSeq(u.query, Bears) = SelectSeq(v.query, Bears)

\* The docstring of content_fingerprint, without that proviso: "the same content
\* forwarded twice on WhatsApp still dedupes even though each share link carries
\* a different tracking token".
SharedLinkDedupes == AnotherShare(first, link) => Basis(first) = Basis(link)

=============================================================================
