---------------------------- MODULE CaptureQuery ----------------------------
(***************************************************************************)
(* What openbrain-mcp answers about its captures: search (by similarity),  *)
(* list_recent (by date) and list_keywords, with the filters the first two *)
(* share, over the keywords that save and update store                     *)
(* (store.py, keywords.py).                                                *)
(*                                                                         *)
(* PostgreSQL may answer a search by sorting every row that passes the     *)
(* filters, or through the HNSW index of 001_init.sql, which hands it the  *)
(* EfSearch nearest rows and lets it filter those (pgvector's default).    *)
(* The index is taken to find the nearest rows exactly.                    *)
(***************************************************************************)
EXTENDS Naturals, Sequences, FiniteSets, SequencesExt, Ordering

CONSTANTS
  Ids,         \* bound: capture ids, as the ranks of their distance to the query
  Sources,
  Words,       \* keywords up to case, as numbers
  MaxLen,      \* max_len of normalize_keywords (8 in the code)
  MaxKeywords, \* bound: keywords of one request
  EfSearch,    \* hnsw.ef_search (40 by default)
  None

NumbersAssumption ==
  /\ Ids \subseteq Nat /\ IsFiniteSet(Ids)
  /\ Words \subseteq Nat /\ MaxLen \in Nat /\ EfSearch \in Nat

VARIABLE captures  \* the rows, in the order of created_at

vars == captures

\* A keyword is a word in one of two spellings, all blanks trimmed.
Keyword == [word : Words, upper : BOOLEAN]
KeywordLists == BoundedSeq(Keyword, MaxKeywords)
Lower(kw) == kw.word

\* source None matches all; words are lowercased; mode is "and" or "or"
Filter == [source : Sources \cup {None}, words : SUBSET Words, mode : {"and", "or"}]
NoFilter == [source |-> None, words |-> {}, mode |-> "or"]

-----------------------------------------------------------------------------
(* normalize_keywords                                                      *)

\* `low in seen`
Seen(kws, n) == \E m \in 1 .. n - 1 : Lower(kws[m]) = Lower(kws[n])

\* drop what was seen, keep the first spelling, cap the length
Normalize(kws) ==
  Ordered(kws, {n \in DOMAIN kws : ~Seen(kws, n)}, [n \in DOMAIN kws |-> n], MaxLen)

-----------------------------------------------------------------------------
(* The read-only tools.                                                    *)

LowerWords(c) == {Lower(c.keywords[i]) : i \in DOMAIN c.keywords}

\* _build_filter_clause: the clauses are joined by AND
Matches(c, f) ==
  /\ f.source # None => c.source = f.source
  /\ f.words # {} => IF f.mode = "and" THEN f.words \subseteq LowerWords(c)
                     ELSE f.words \cap LowerWords(c) # {}

Where(f) == {i \in DOMAIN captures : Matches(captures[i], f)}

\* ORDER BY embedding <=> ..., and ORDER BY created_at DESC
Distance == [i \in DOMAIN captures |-> captures[i].id]
Age      == [i \in DOMAIN captures |-> Len(captures) - i]

\* The n nearest rows of the table.
Nearest(n) == {i \in DOMAIN captures : Place(DOMAIN captures, Distance, i) <= n}

\* mutated form: the filters are applied to the k rows that were fetched
FilteredAfterwards(f, k) == Ordered(captures, Where(f) \cap Nearest(k), Distance, k)

\* SELECT ... WHERE ... ORDER BY embedding <=> ... LIMIT k, by sorting
Sorted(f, k) == Ordered(captures, Where(f), Distance, k)

\* the same query through the index
Indexed(f, k) == Ordered(captures, Where(f) \cap Nearest(EfSearch), Distance, k)

\* search_captures with capture_id: the row's own embedding, itself excluded
Similar(id, f, k) ==
  IF \A i \in DOMAIN captures : captures[i].id # id THEN None
  ELSE Ordered(captures, {i \in Where(f) : captures[i].id # id}, Distance, k)

\* fetch_recent: the newest n
Recent(f, n) == Ordered(captures, Where(f), Age, n)

\* mutated form: a request for ids keeps the page size of a plain one
FirstOfIds(f, ids) ==
  Ordered(captures, {i \in Where(f) : captures[i].id \in ids}, Age, 1)

\* fetch_recent with ids: n is their number
RecentOf(f, ids) ==
  Ordered(captures, {i \in Where(f) : captures[i].id \in ids}, Age, Cardinality(ids))

\* list_keywords: one row per occurrence, grouped by lower(keyword)
Occurrences(w) ==
  {o \in (DOMAIN captures) \X (1 .. MaxLen) :
     LET kws == captures[o[1]].keywords
     IN  o[2] \in DOMAIN kws /\ Lower(kws[o[2]]) = w}
ListKeywords == [w \in {w \in Words : Occurrences(w) # {}} |->
                   Cardinality(Occurrences(w))]

-----------------------------------------------------------------------------
(* The tools that write, as far as these answers depend on them.           *)

Init == captures = <<>>

Save(id, source, kws) ==
  /\ \A i \in DOMAIN captures : captures[i].id # id
  /\ captures' = Append(captures, [id |-> id, source |-> source,
                                   keywords |-> Normalize(kws)])

Update(i, kws) ==
  /\ captures' = [captures EXCEPT ![i].keywords = Normalize(kws)]

Delete(i) ==
  /\ captures' = RemoveAt(captures, i)

Next ==
  \/ \E id \in Ids, source \in Sources, kws \in KeywordLists : Save(id, source, kws)
  \/ \E i \in DOMAIN captures :
       Delete(i) \/ \E kws \in KeywordLists : Update(i, kws)

Spec == Init /\ [][Next]_vars

-----------------------------------------------------------------------------
(* Properties.                                                             *)

Found(rows) == {rows[i].id : i \in DOMAIN rows}
Matching(f) == {captures[i].id : i \in Where(f)}
All         == Cardinality(Ids)

\* Every capture has an id of its own and at most MaxLen keywords, which differ
\* by more than case.
TypeOK ==
  /\ \A i, j \in DOMAIN captures : captures[i].id = captures[j].id => i = j
  /\ \A i \in DOMAIN captures :
       LET kws == captures[i].keywords
       IN  /\ Len(kws) <= MaxLen
           /\ Cardinality({Lower(kws[j]) : j \in DOMAIN kws}) = Len(kws)

\* As many of the matching captures as there are, up to k, and none that is
\* left out is nearer than one of them.
Complete(f, k, rows) ==
  /\ Len(rows) = IF Cardinality(Where(f)) < k THEN Cardinality(Where(f)) ELSE k
  /\ \A i \in Where(f) : captures[i].id \notin Found(rows)
       => \A j \in DOMAIN rows : rows[j].id < captures[i].id

\* "a narrow filter combined with a small k cannot silently under-return
\* matches that exist further down the ranked list": true of the sorted answer
\* always, and of the answer by way of the index only while the store holds no
\* more captures than the index hands out.
NeverUnderReturns ==
  \A f \in Filter, k \in 1 .. All :
    /\ Complete(f, k, Sorted(f, k))
    /\ Len(captures) <= EfSearch => Complete(f, k, Indexed(f, k))

\* A list is what was asked for: filtered by a keyword that list_keywords
\* counts, it is as long as that count, if the limit allows, in whatever case
\* the captures spell the keyword; a list of ids is
\* exactly the captures that still exist and pass the filters; and a capture is
\* never similar to itself.
ListsAreExact ==
  /\ \A w \in Words :
       LET rows == Recent([NoFilter EXCEPT !.words = {w}], All)
       IN  Len(rows) = IF w \in DOMAIN ListKeywords THEN ListKeywords[w] ELSE 0
  /\ \A ids \in SUBSET Ids, f \in Filter :
       Found(RecentOf(f, ids)) = ids \cap Matching(f)
  /\ \A id \in Found(captures), f \in Filter :
       Found(Similar(id, f, All)) = Matching(f) \ {id}

=============================================================================
