-------------------------- MODULE ExternalCostsProofs --------------------------
(***************************************************************************)
(* The cost grid for any number of windows, rows, amounts and rates: the   *)
(* types, the flag, the ids and the wholeness of a batch.  What the loop   *)
(* of save_rows does to a table is shown first, by induction over its      *)
(* turns; the library's induction theorems take an operator, so induction  *)
(* is used in the form of sets.                                            *)
(***************************************************************************)
EXTENDS ExternalCosts, FiniteSetTheorems, SequenceTheorems,
  WellFoundedInduction, TLAPS

-----------------------------------------------------------------------------
(* Induction over the numbers of a set                                     *)

\* A set of numbers that is not empty has a least element.
LEMMA Least ==
  ASSUME NEW T, T \subseteq Nat, T # {}
  PROVE  \E m \in T : \A n \in T : ~(n < m)
<1>1. PICK m \in T : \A n \in T : <<n, m>> \notin OpToRel(<, Nat)
  BY NatLessThanWellFounded, WFMin, Zenon
<1>2. QED
  BY <1>1 DEF OpToRel

\* Induction: a set with 0 and with the successor of each of its numbers.
LEMMA SetInduction ==
  ASSUME NEW T, 0 \in T, \A n \in Nat : n \in T => n + 1 \in T
  PROVE  Nat \subseteq T
<1>1. SUFFICES ASSUME Nat \ T # {} PROVE FALSE
  OBVIOUS
<1>2. PICK m \in Nat \ T : \A n \in Nat \ T : ~(n < m)
  BY <1>1, Least
<1>3. m # 0 /\ m - 1 \in Nat /\ m - 1 < m
  BY <1>2
<1>4. m - 1 \in T
  BY <1>2, <1>3
<1>5. (m - 1) + 1 = m
  BY <1>2
<1>6. QED
  BY <1>2, <1>3, <1>4, <1>5

-----------------------------------------------------------------------------
(* One turn of the loop                                                    *)

\* The rows a table may hold when `last` is the greatest id given out.
RowUpTo(last) == [id: 1..last, amount: 0..MaxAmount \cup {None},
                  currency: Currencies, flag: BOOLEAN, bad: {FALSE}]

AnyRow == [id: Nat, amount: 0..MaxAmount \cup {None},
           currency: Currencies, flag: BOOLEAN, bad: {FALSE}]

\* A row of a table is a row, and stays one when ids have been given out since.
LEMMA RowUpToGrows ==
  ASSUME NEW last \in Nat
  PROVE  /\ RowUpTo(last) \subseteq AnyRow
         /\ \A more \in Nat : last <= more => RowUpTo(last) \subseteq RowUpTo(more)
<1>1. 1..last \subseteq Nat
  OBVIOUS
<1>2. RowUpTo(last) \subseteq AnyRow
  BY <1>1 DEF RowUpTo, AnyRow
<1>3. ASSUME NEW more \in Nat, last <= more
      PROVE  RowUpTo(last) \subseteq RowUpTo(more)
  <2>1. 1..last \subseteq 1..more
    BY <1>3
  <2>2. QED
    BY <2>1 DEF RowUpTo
<1>4. QED
  BY <1>2, <1>3

\* A valid row of a payload, once it has an id, is a row of a table.
LEMMA FieldsTyped ==
  ASSUME NEW row \in GridRow, ~row.bad, NEW last \in Nat, NEW id \in 1..last
  PROVE  /\ Fields(row, id) \in RowUpTo(last) /\ Fields(row, id).id = id
         /\ Fields(row, id).amount = row.amount /\ Fields(row, id).flag = row.flag
<1>1. /\ row.amount \in 0..MaxAmount \cup {None} /\ row.currency \in Currencies
      /\ row.flag \in BOOLEAN /\ row.bad \in BOOLEAN
  BY DEF GridRow
<1>2. row.bad = FALSE
  BY <1>1
<1>3. QED
  BY <1>1, <1>2 DEF Fields, RowUpTo

Unique(rows) == \A r, s \in rows : r.id = s.id => r = s

OneFlagOf(rows) == \A r, s \in rows : r.flag /\ s.flag => r = s

States == [rows : SUBSET AnyRow, last : Nat, id : Nat \cup {None}]

Sound(state) ==
  /\ state \in States
  /\ state.rows \subseteq RowUpTo(state.last)
  /\ Unique(state.rows)

SameIds(rows, others) == \A r \in rows : \E s \in others : s.id = r.id

LEMMA IdsTyped ==
  ASSUME NEW state, Sound(state), NEW r \in state.rows
  PROVE  r.id \in Nat \ {0} /\ r.id <= state.last /\ state.last \in Nat
<1>1. r.id \in 1..state.last /\ state.last \in Nat
  BY DEF Sound, RowUpTo, States
<1>2. QED
  BY <1>1

\* What one row of a payload does: of the other rows it may clear the flag.
Turn(state, row, next) ==
  /\ next.last = state.last + (IF row.id = None THEN 1 ELSE 0)
  /\ SameIds(state.rows, next.rows)
  /\ \A s \in next.rows :
       \/ s.id # row.id /\ \E r \in state.rows : r.id = s.id /\ r.amount = s.amount
       \/ s.id = row.id /\ s.amount = row.amount /\ \E r \in state.rows : r.id = s.id
       \/ row.id = None /\ s.id = next.last

\* The write leaves a second flagged row only beside the row just written.
FlagBeside(next) ==
  \A r, s \in next.rows : r.id # next.id /\ s.id # next.id /\ r.flag /\ s.flag => r = s

\* Inserting a row gives it a fresh id.
LEMMA InsertSound ==
  ASSUME NEW state, Sound(state), OneFlagOf(state.rows),
         NEW row \in GridRow, ~row.bad, row.id = None
  PROVE  LET next == InsertRow(state, row)
         IN  /\ Sound(next) /\ Turn(state, row, next) /\ FlagBeside(next)
             /\ ~row.flag => OneFlagOf(next.rows)
<1> DEFINE next == InsertRow(state, row)
           new  == Fields(row, state.last + 1)
<1>1. /\ next.rows = state.rows \cup {new} /\ next.last = state.last + 1
      /\ next.id = state.last + 1 /\ state.last \in Nat
  BY DEF InsertRow, Sound, States
<1>2. new \in RowUpTo(next.last) /\ new.id = next.last /\ new.flag = row.flag
  BY <1>1, FieldsTyped
<1> HIDE DEF new
<1>3. \A r \in state.rows : r \in RowUpTo(next.last) /\ r.id # new.id
  <2>1. RowUpTo(state.last) \subseteq RowUpTo(next.last)
    BY <1>1, RowUpToGrows
  <2>2. \A r \in state.rows : r.id <= state.last /\ r.id \in Nat
    BY <1>1, IdsTyped
  <2>3. QED
    BY <1>1, <1>2, <2>1, <2>2 DEF Sound
<1>4. next \in States
  <2>1. next.rows \subseteq AnyRow
    BY <1>1, <1>2, <1>3, RowUpToGrows
  <2>2. next = [rows |-> next.rows, last |-> next.last, id |-> next.id]
    BY DEF InsertRow
  <2> HIDE DEF next
  <2>3. QED
    BY <1>1, <2>1, <2>2 DEF States
<1>5. Sound(next)
  BY <1>1, <1>2, <1>3, <1>4 DEF Sound, Unique
<1>6. Turn(state, row, next)
  <2>1. \A s \in state.rows : s.id # row.id
    BY <1>1, IdsTyped, NumbersAssumption
  <2>2. QED
    BY <1>1, <1>2, <2>1 DEF Turn, SameIds
<1>7. FlagBeside(next) /\ (~row.flag => OneFlagOf(next.rows))
  BY <1>1, <1>2 DEF FlagBeside, OneFlagOf
<1>8. QED
  BY <1>5, <1>6, <1>7

\* Updating a row touches the row of that id, if it still exists.
LEMMA UpdateSound ==
  ASSUME NEW state, Sound(state), OneFlagOf(state.rows),
         NEW row \in GridRow, ~row.bad, row.id # None
  PROVE  LET next == UpdateRow(state, row)
         IN  /\ Sound(next) /\ Turn(state, row, next) /\ FlagBeside(next)
             /\ ~row.flag => OneFlagOf(next.rows)
<1> DEFINE next == UpdateRow(state, row)
           Written(r) == IF r.id = row.id THEN Fields(row, r.id) ELSE r
<1>1. /\ next.rows = {Written(r) : r \in state.rows} /\ next.last = state.last
      /\ next.id = row.id /\ state.last \in Nat /\ row.id \in Nat
  BY NumbersAssumption DEF UpdateRow, Sound, States, GridRow
<1>2. \A r \in state.rows :
        /\ Written(r) \in RowUpTo(state.last) /\ Written(r).id = r.id
        /\ r.id # row.id => Written(r) = r
        /\ r.id = row.id => Written(r).amount = row.amount /\ Written(r).flag = row.flag
  <2> SUFFICES ASSUME NEW r \in state.rows
               PROVE  /\ Written(r) \in RowUpTo(state.last) /\ Written(r).id = r.id
                      /\ r.id # row.id => Written(r) = r
                      /\ r.id = row.id =>
                           Written(r).amount = row.amount /\ Written(r).flag = row.flag
    OBVIOUS
  <2>1. r \in RowUpTo(state.last) /\ r.id \in 1..state.last
    BY DEF Sound, RowUpTo
  <2>2. CASE r.id = row.id
    <3>1. Written(r) = Fields(row, r.id)
      BY <2>2
    <3>2. QED
      BY <1>1, <2>1, <2>2, <3>1, FieldsTyped
  <2>3. CASE r.id # row.id
    BY <2>1, <2>3
  <2>4. QED
    BY <2>2, <2>3
<1>3. next \in States
  <2>1. next.rows \subseteq RowUpTo(state.last)
    BY <1>1, <1>2
  <2>2. next = [rows |-> next.rows, last |-> state.last, id |-> row.id]
    BY <1>1 DEF UpdateRow
  <2>3. RowUpTo(state.last) \subseteq AnyRow
    BY <1>1, RowUpToGrows
  <2> HIDE DEF next
  <2>4. QED
    BY <1>1, <2>1, <2>2, <2>3 DEF States
<1> HIDE DEF next, Written
<1>4. Sound(next)
  BY <1>1, <1>2, <1>3 DEF Sound, Unique
<1>5. Turn(state, row, next)
  BY <1>1, <1>2 DEF Turn, SameIds
<1>6. FlagBeside(next)
  BY <1>1, <1>2 DEF FlagBeside, OneFlagOf
<1>7. ~row.flag => OneFlagOf(next.rows)
  BY <1>1, <1>2 DEF OneFlagOf
<1>8. QED
  BY <1>4, <1>5, <1>6, <1>7 DEF next

\* A turn of the loop keeps the table sound and at most one row flagged.
LEMMA SaveRowSound ==
  ASSUME NEW state, Sound(state), OneFlagOf(state.rows),
         NEW row \in GridRow, ~row.bad
  PROVE  LET next == SaveRow(state, row)
         IN  Sound(next) /\ Turn(state, row, next) /\ OneFlagOf(next.rows)
<1> DEFINE written == IF row.id = None THEN InsertRow(state, row)
                                       ELSE UpdateRow(state, row)
           next    == SaveRow(state, row)
           Cleared(r) == IF r.id = written.id THEN r ELSE [r EXCEPT !.flag = FALSE]
<1>1. /\ Sound(written) /\ Turn(state, row, written) /\ FlagBeside(written)
      /\ ~row.flag => OneFlagOf(written.rows)
  BY InsertSound, UpdateSound
<1>2. CASE ~row.flag
  BY <1>1, <1>2 DEF SaveRow
<1>3. CASE row.flag
  <2>1. next = [written EXCEPT !.rows = ClearOthers(written.rows, written.id)]
    BY <1>3 DEF SaveRow
  <2> HIDE DEF written, next
  <2>2. /\ next.rows = {Cleared(r) : r \in written.rows}
        /\ next.last = written.last /\ next.id = written.id
        /\ next = [rows |-> next.rows, last |-> written.last, id |-> written.id]
    BY <1>1, <2>1 DEF ClearOthers, Sound, States
  <2>3. \A r \in written.rows :
          /\ Cleared(r) \in RowUpTo(written.last)
          /\ Cleared(r).id = r.id /\ Cleared(r).amount = r.amount
          /\ Cleared(r).flag => Cleared(r).id = written.id
    BY <1>1 DEF Sound, RowUpTo
  <2> HIDE DEF Cleared
  <2>4. next \in States
    <3>1. next.rows \subseteq RowUpTo(written.last)
      BY <2>2, <2>3
    <3>2. RowUpTo(written.last) \subseteq AnyRow
      BY <1>1, RowUpToGrows DEF Sound, States
    <3>3. written.last \in Nat /\ written.id \in Nat \cup {None}
      BY <1>1 DEF Sound, States
    <3>4. QED
      BY <2>2, <3>1, <3>2, <3>3 DEF States
  <2>5. Unique(next.rows)
    BY <1>1, <2>2, <2>3 DEF Sound, Unique
  <2>6. Sound(next)
    BY <2>2, <2>3, <2>4, <2>5 DEF Sound
  <2>7. OneFlagOf(next.rows)
    BY <2>2, <2>3, <2>5 DEF OneFlagOf, Unique
  <2>8. Turn(state, row, next)
    <3>1. SameIds(state.rows, next.rows)
      BY <1>1, <2>2, <2>3 DEF Turn, SameIds
    <3>2. QED
      BY <1>1, <2>2, <2>3, <3>1 DEF Turn
  <2>9. QED
    BY <2>6, <2>7, <2>8 DEF next
<1>4. QED
  BY <1>2, <1>3

-----------------------------------------------------------------------------
(* The loop                                                                *)

\* The function of the loop's turns: f[i] is the state after i rows.
IsLoop(f, start, rows, n) ==
  f = [i \in 0..n |-> IF i = 0 THEN start ELSE SaveRow(f[i - 1], rows[i])]

\* The recursive definition of SaveEach defines something.
LEMMA LoopExists ==
  ASSUME NEW start, NEW rows, NEW n \in Nat
  PROVE  \E f : IsLoop(f, start, rows, n)
<1> DEFINE T == {k \in Nat : \E f : IsLoop(f, start, rows, k)}
<1>1. 0 \in T
  <2>1. IsLoop([i \in 0..0 |-> start], start, rows, 0)
    BY DEF IsLoop
  <2>2. QED
    BY <2>1
<1>2. ASSUME NEW k \in Nat, k \in T PROVE k + 1 \in T
  <2>1. PICK f : IsLoop(f, start, rows, k)
    BY <1>2
  <2> DEFINE g == [i \in 0..k + 1 |->
                     IF i = k + 1 THEN SaveRow(f[k], rows[k + 1]) ELSE f[i]]
  <2>2. ASSUME NEW i \in 0..k + 1
        PROVE  g[i] = IF i = 0 THEN start ELSE SaveRow(g[i - 1], rows[i])
    <3>1. CASE i = 0
      <4>1. g[i] = f[0] /\ 0 \in 0..k
        BY <3>1
      <4>2. QED
        BY <2>1, <3>1, <4>1 DEF IsLoop
    <3>2. CASE i \in 1..k
      <4>1. i \in 0..k /\ i - 1 \in 0..k + 1 /\ i - 1 # k + 1 /\ i # k + 1 /\ i # 0
        BY <3>2
      <4>2. g[i] = f[i] /\ g[i - 1] = f[i - 1]
        BY <4>1
      <4>3. f[i] = SaveRow(f[i - 1], rows[i])
        BY <2>1, <4>1 DEF IsLoop
      <4>4. QED
        BY <4>1, <4>2, <4>3
    <3>3. CASE i = k + 1
      <4>1. i - 1 = k /\ i # 0 /\ k \in 0..k + 1 /\ k # k + 1
        BY <3>3
      <4>2. g[i] = SaveRow(f[k], rows[i]) /\ g[k] = f[k]
        BY <3>3, <4>1
      <4>3. QED
        BY <4>1, <4>2
    <3>4. QED
      BY <3>1, <3>2, <3>3
  <2>3. IsLoop(g, start, rows, k + 1)
    <3>1. g = [i \in 0..k + 1 |-> g[i]]
      OBVIOUS
    <3> HIDE DEF g
    <3>2. QED
      BY <2>2, <3>1 DEF IsLoop
  <2>4. QED
    BY <2>3
<1>3. Nat \subseteq T
  <2> HIDE DEF T
  <2>1. QED
    BY <1>1, <1>2, SetInduction
<1>4. QED
  BY <1>3

\* SaveEach is the state after the last turn of the loop.
LEMMA SaveEachLoops ==
  ASSUME NEW start, NEW rows, Len(rows) \in Nat
  PROVE  \E f : IsLoop(f, start, rows, Len(rows)) /\ SaveEach(start, rows) = f[Len(rows)]
<1> DEFINE after == CHOOSE f : IsLoop(f, start, rows, Len(rows))
<1>1. IsLoop(after, start, rows, Len(rows))
  BY LoopExists, Zenon
<1>2. SaveEach(start, rows) = after[Len(rows)]
  BY Zenon DEF SaveEach, IsLoop
<1>3. QED
  BY <1>1, <1>2, Zenon

\* The rows of a window: none of them twice, none with an id yet to be given out.
OnScreen(rows, last) ==
  /\ rows \in Seq(GridRow)
  /\ \A i, j \in DOMAIN rows : rows[i].id = rows[j].id /\ rows[i].id # None => i = j
  /\ \A i \in DOMAIN rows : rows[i].id # None => rows[i].id <= last

Payload(rows, last) == OnScreen(rows, last) /\ Validated(rows)

News(rows, n) == {i \in 1..n : rows[i].id = None}

\* What the first n turns of the loop have done to the table.
Done(start, rows, n, state) ==
  /\ Sound(state) /\ OneFlagOf(state.rows)
  /\ state.last = start.last + Cardinality(News(rows, n))
  /\ SameIds(start.rows, state.rows)
  /\ \A s \in state.rows : s.id > start.last \/ \E r \in start.rows : r.id = s.id
  /\ \A i \in 1..n, s \in state.rows : rows[i].id = s.id => rows[i].amount = s.amount

\* The new rows of a payload, counted one row on.
LEMMA CountNews ==
  ASSUME NEW rows, NEW n \in Nat
  PROVE  /\ Cardinality(News(rows, n)) \in Nat
         /\ Cardinality(News(rows, 0)) = 0
         /\ Cardinality(News(rows, n + 1)) =
              Cardinality(News(rows, n)) + (IF rows[n + 1].id = None THEN 1 ELSE 0)
<1>1. IsFiniteSet(News(rows, n))
  <2>1. IsFiniteSet(1..n) /\ News(rows, n) \in SUBSET (1..n)
    BY FS_Interval DEF News
  <2>2. QED
    BY <2>1, FS_Subset
<1>2. News(rows, 0) = {}
  BY DEF News
<1>3. n + 1 \notin News(rows, n)
  BY DEF News
<1>4. News(rows, n + 1) =
        IF rows[n + 1].id = None THEN News(rows, n) \cup {n + 1} ELSE News(rows, n)
  BY DEF News
<1>5. Cardinality(News(rows, n)) \in Nat /\ Cardinality(News(rows, 0)) = 0
  BY <1>1, <1>2, FS_EmptySet, FS_CardinalityType
<1>6. CASE rows[n + 1].id = None
  <2>1. News(rows, n + 1) = News(rows, n) \cup {n + 1}
    BY <1>4, <1>6
  <2>2. Cardinality(News(rows, n) \cup {n + 1}) = Cardinality(News(rows, n)) + 1
    BY <1>1, <1>3, FS_AddElement
  <2>3. QED
    BY <1>5, <1>6, <2>1, <2>2
<1>7. CASE rows[n + 1].id # None
  <2>1. News(rows, n + 1) = News(rows, n)
    BY <1>4, <1>7
  <2>2. QED
    BY <1>5, <1>7, <2>1
<1>8. QED
  BY <1>6, <1>7

\* One more turn.
LEMMA OneMore ==
  ASSUME NEW start, Sound(start), NEW rows, Payload(rows, start.last),
         NEW n \in Nat, n + 1 <= Len(rows),
         NEW state, Done(start, rows, n, state)
  PROVE  Done(start, rows, n + 1, SaveRow(state, rows[n + 1]))
<1> DEFINE row  == rows[n + 1]
           next == SaveRow(state, row)
<1>1. /\ n + 1 \in DOMAIN rows /\ row \in GridRow /\ ~row.bad
      /\ \A i \in 1..n : i \in DOMAIN rows /\ i # n + 1
  BY DEF Payload, OnScreen, Validated
<1>2. Sound(next) /\ Turn(state, row, next) /\ OneFlagOf(next.rows)
  BY <1>1, SaveRowSound DEF Done
<1> HIDE DEF next
<1>3. /\ start.last \in Nat /\ state.last \in Nat /\ next.last \in Nat
      /\ state.last >= start.last
  BY <1>2, CountNews DEF Done, Sound, States
<1>4. next.last = start.last + Cardinality(News(rows, n + 1))
  <2> DEFINE c == Cardinality(News(rows, n))
             d == Cardinality(News(rows, n + 1))
             e == IF row.id = None THEN 1 ELSE 0
  <2>1. d = c + e /\ c \in Nat /\ e \in Nat
    BY CountNews
  <2>2. state.last = start.last + c
    BY DEF Done
  <2>3. next.last = state.last + e
    BY <1>2 DEF Turn
  <2> HIDE DEF c, d, e
  <2>4. next.last = start.last + d
    BY <1>3, <2>1, <2>2, <2>3
  <2>5. QED
    BY <2>4 DEF d
<1>5. SameIds(start.rows, next.rows)
  BY <1>2 DEF Done, Turn, SameIds
<1>6. \A s \in next.rows : s.id > start.last \/ \E r \in start.rows : r.id = s.id
  <2>1. SUFFICES ASSUME NEW s \in next.rows
                 PROVE  s.id > start.last \/ \E r \in start.rows : r.id = s.id
    OBVIOUS
  <2>2. CASE \E r \in state.rows : r.id = s.id
    BY <2>2 DEF Done
  <2>3. CASE row.id = None /\ s.id = next.last
    BY <1>2, <1>3, <2>3 DEF Turn
  <2>4. QED
    BY <1>2, <2>2, <2>3 DEF Turn
<1>7. \A i \in 1..n + 1, s \in next.rows : rows[i].id = s.id => rows[i].amount = s.amount
  <2>1. SUFFICES ASSUME NEW i \in 1..n + 1, NEW s \in next.rows, rows[i].id = s.id
                 PROVE  rows[i].amount = s.amount
    OBVIOUS
  <2>2. s.id \in Nat /\ s.id # None
    BY <1>2, IdsTyped, NumbersAssumption
  <2>3. CASE i = n + 1
    BY <1>2, <2>1, <2>2, <2>3 DEF Turn
  <2>4. CASE i \in 1..n
    <3>1. row.id # s.id
      BY <1>1, <2>1, <2>2, <2>4 DEF Payload, OnScreen
    <3>2. s.id <= start.last
      BY <1>1, <2>1, <2>2, <2>4 DEF Payload, OnScreen
    <3>3. ~(row.id = None /\ s.id = next.last)
      BY <1>2, <1>3, <3>2, <2>2 DEF Turn
    <3>4. \E r \in state.rows : r.id = s.id /\ r.amount = s.amount
      BY <1>2, <3>1, <3>3 DEF Turn
    <3>5. QED
      BY <2>1, <2>4, <3>4 DEF Done
  <2>5. QED
    BY <2>3, <2>4
<1>8. QED
  BY <1>2, <1>4, <1>5, <1>6, <1>7 DEF Done, next

\* save_rows' loop, from any sound table and for any payload.
LEMMA SaveEachSound ==
  ASSUME NEW start, Sound(start), OneFlagOf(start.rows),
         NEW rows, Payload(rows, start.last)
  PROVE  Done(start, rows, Len(rows), SaveEach(start, rows))
<1>1. Len(rows) \in Nat
  BY DEF Payload, OnScreen
<1>2. PICK f : IsLoop(f, start, rows, Len(rows)) /\ SaveEach(start, rows) = f[Len(rows)]
  BY <1>1, SaveEachLoops
<1> DEFINE T == {n \in Nat : n <= Len(rows) => Done(start, rows, n, f[n])}
<1>3. 0 \in T
  <2>1. f[0] = start
    BY <1>1, <1>2 DEF IsLoop
  <2>2. start.last = start.last + Cardinality(News(rows, 0))
    BY CountNews DEF Sound, States
  <2>3. QED
    BY <2>1, <2>2 DEF Done, SameIds
<1>4. ASSUME NEW n \in Nat, n \in T PROVE n + 1 \in T
  <2>1. SUFFICES ASSUME n + 1 <= Len(rows) PROVE Done(start, rows, n + 1, f[n + 1])
    OBVIOUS
  <2>2. n <= Len(rows) /\ n + 1 \in 0..Len(rows) /\ n + 1 # 0 /\ (n + 1) - 1 = n
    BY <1>1, <2>1
  <2>3. f[n + 1] = SaveRow(f[n], rows[n + 1])
    BY <1>2, <2>2 DEF IsLoop
  <2>4. QED
    BY <1>4, <2>1, <2>2, <2>3, OneMore
<1>5. Nat \subseteq T
  <2> HIDE DEF T
  <2>1. QED
    BY <1>3, <1>4, SetInduction
<1>6. QED
  BY <1>1, <1>2, <1>5

-----------------------------------------------------------------------------
(* The rows a window loads and edits                                       *)

Increasing(rows) == \A i, j \in DOMAIN rows : i < j => rows[i].id < rows[j].id

\* A table is finite and can be listed in the order of its ids.
LEMMA Listed ==
  ASSUME NEW last \in Nat, NEW rows, rows \subseteq RowUpTo(last), Unique(rows)
  PROVE  /\ IsFiniteSet(rows)
         /\ \E f \in [1..Cardinality(rows) -> rows] : Increasing(f)
<1> DEFINE List(R) == /\ IsFiniteSet(R)
                      /\ \E f \in [1..Cardinality(R) -> R] : Increasing(f)
           Tables(k) == {R \in SUBSET RowUpTo(k) : Unique(R)}
           T == {k \in Nat : \A R \in Tables(k) : List(R)}
<1>1. 0 \in T
  <2>1. RowUpTo(0) = {}
    <3>1. 1..0 = {}
      OBVIOUS
    <3>2. QED
      BY <3>1 DEF RowUpTo
  <2>2. List({})
    <3>1. [i \in {} |-> 0] \in [1..0 -> {}] /\ Increasing([i \in {} |-> 0])
      BY DEF Increasing
    <3>2. QED
      BY <3>1, FS_EmptySet
  <2> HIDE DEF List
  <2>3. QED
    BY <2>1, <2>2
<1>2. ASSUME NEW k \in Nat, k \in T PROVE k + 1 \in T
  <2>1. SUFFICES ASSUME NEW R \in Tables(k + 1) PROVE List(R)
    OBVIOUS
  <2>2. \A r \in R : r \in RowUpTo(k + 1) /\ r.id \in 1..k + 1
    BY DEF RowUpTo
  <2>3. \A r \in R : r.id # k + 1 => r \in RowUpTo(k)
    <3>1. \A i \in 1..k + 1 : i # k + 1 => i \in 1..k
      OBVIOUS
    <3>2. \A r \in R : r.id # k + 1 => r \in RowUpTo(k + 1) /\ r.id \in 1..k
      BY <2>2, <3>1
    <3>3. QED
      BY <3>2 DEF RowUpTo
  <2>4. CASE \A r \in R : r.id # k + 1
    BY <1>2, <2>3, <2>4
  <2>5. CASE \E r \in R : r.id = k + 1
    <3>1. PICK r \in R : r.id = k + 1
      BY <2>5
    <3> DEFINE S == R \ {r}
    <3>2. S \in Tables(k)
      BY <2>3, <3>1 DEF Unique
    <3>3. List(S)
      BY <1>2, <3>2
    <3>4. PICK f \in [1..Cardinality(S) -> S] : Increasing(f)
      BY <3>3
    <3> DEFINE n == Cardinality(S)
               g == [i \in 1..n + 1 |-> IF i = n + 1 THEN r ELSE f[i]]
    <3>5. R = S \cup {r} /\ n \in Nat /\ IsFiniteSet(R) /\ Cardinality(R) = n + 1
      <4>1. R = S \cup {r} /\ r \notin S /\ IsFiniteSet(S)
        BY <3>3
      <4>2. QED
        BY <4>1, FS_AddElement, FS_CardinalityType
    <3>6. \A i \in 1..n : f[i] \in R /\ f[i].id \in Nat /\ f[i].id < k + 1
      <4>1. \A s \in S : s \in R /\ s.id \in 1..k
        BY <3>2 DEF RowUpTo
      <4>2. f \in [1..n -> S]
        BY <3>4
      <4> HIDE DEF S, n
      <4>3. \A i \in 1..k : i \in Nat /\ i < k + 1
        OBVIOUS
      <4>4. QED
        BY <4>1, <4>2, <4>3
    <3> HIDE DEF S, n
    <3>7. g \in [1..n + 1 -> R]
      BY <3>5, <3>6
    <3>8. Increasing(g)
      <4>1. SUFFICES ASSUME NEW i \in 1..n + 1, NEW j \in 1..n + 1, i < j
                     PROVE  g[i].id < g[j].id
        BY DEF Increasing
      <4>2. i \in 1..n /\ g[i] = f[i]
        BY <3>5, <4>1
      <4>3. CASE j = n + 1
        BY <3>1, <3>6, <4>2, <4>3
      <4>4. CASE j \in 1..n
        <5>1. g[j] = f[j] /\ f \in [1..n -> S]
          BY <3>4, <3>5, <4>4 DEF n
        <5>2. QED
          BY <3>4, <4>1, <4>2, <4>4, <5>1 DEF Increasing
      <4>5. QED
        BY <3>5, <4>3, <4>4
    <3>9. QED
      BY <3>5, <3>7, <3>8
  <2>6. QED
    BY <2>4, <2>5
<1>3. Nat \subseteq T
  <2> HIDE DEF T
  <2>1. QED
    BY <1>1, <1>2, SetInduction
<1>4. QED
  BY <1>3

\* The table and the ids given out, as every step finds them.
TableSound ==
  /\ lastId \in 0..MaxId /\ table \subseteq RowUpTo(lastId) /\ Unique(table)
  /\ AtMostOneFlag

\* A loaded grid lists each row of the table once.
LEMMA LoadedOnScreen ==
  ASSUME TableSound
  PROVE  OnScreen(LoadedRows, lastId)
<1> DEFINE n == Cardinality(table)
<1>1. lastId \in Nat /\ lastId <= MaxId
  BY NumbersAssumption DEF TableSound
<1>2. LoadedRows \in [1..n -> table] /\ Increasing(LoadedRows)
  <2>1. \E f \in [1..n -> table] : Increasing(f)
    BY <1>1, Listed DEF TableSound
  <2>2. LoadedRows = CHOOSE f \in [1..n -> table] : Increasing(f)
    BY DEF LoadedRows, Increasing
  <2> HIDE DEF n
  <2>3. QED
    BY <2>1, <2>2
<1>3. n \in Nat
  BY <1>1, Listed, FS_CardinalityType DEF TableSound
<1> HIDE DEF n
<1>4. \A r \in table : r \in GridRow /\ r.id \in Nat /\ r.id <= lastId
  <2>1. SUFFICES ASSUME NEW r \in table
                 PROVE  r \in GridRow /\ r.id \in Nat /\ r.id <= lastId
    OBVIOUS
  <2>2. r \in RowUpTo(lastId)
    BY DEF TableSound
  <2>3. 1..lastId \subseteq 1..MaxId /\ \A j \in 1..lastId : j \in Nat /\ j <= lastId
    BY <1>1, NumbersAssumption
  <2>4. QED
    BY <2>2, <2>3 DEF RowUpTo, GridRow
<1>5. LoadedRows \in Seq(GridRow) /\ DOMAIN LoadedRows = 1..n
  <2>1. LoadedRows \in [1..n -> GridRow]
    BY <1>2, <1>4
  <2>2. QED
    BY <1>3, <2>1
<1>6. \A i, j \in 1..n : LoadedRows[i].id = LoadedRows[j].id => i = j
  <2>1. SUFFICES ASSUME NEW i \in 1..n, NEW j \in 1..n, i < j
                 PROVE  LoadedRows[i].id # LoadedRows[j].id
    BY <1>3
  <2>2. LoadedRows[i].id < LoadedRows[j].id
    BY <1>2, <2>1 DEF Increasing
  <2>3. LoadedRows[i].id \in Nat /\ LoadedRows[j].id \in Nat
    BY <1>2, <1>4
  <2>4. QED
    BY <2>2, <2>3
<1>7. \A i \in 1..n : LoadedRows[i].id <= lastId
  BY <1>2, <1>4
<1>8. QED
  BY <1>5, <1>6, <1>7 DEF OnScreen

\* An edit that leaves the id alone keeps a grid as it should be.
LEMMA PatchedOnScreen ==
  ASSUME NEW rows, NEW last, OnScreen(rows, last), NEW i \in DOMAIN rows,
         NEW row \in GridRow, row.id = rows[i].id
  PROVE  OnScreen([rows EXCEPT ![i] = row], last)
<1> DEFINE new == [rows EXCEPT ![i] = row]
<1>1. new \in Seq(GridRow) /\ DOMAIN new = DOMAIN rows
  BY DEF OnScreen
<1>2. \A j \in DOMAIN rows : new[j].id = rows[j].id
  OBVIOUS
<1> HIDE DEF new
<1>3. OnScreen(new, last)
  BY <1>1, <1>2 DEF OnScreen
<1>4. QED
  BY <1>3 DEF new

\* So does a blank row at the end, and a row that goes.
LEMMA AppendedOnScreen ==
  ASSUME NEW rows, NEW last, OnScreen(rows, last)
  PROVE  OnScreen(Append(rows, BlankRow), last)
<1> DEFINE new == Append(rows, BlankRow)
<1>1. BlankRow \in GridRow /\ BlankRow.id = None
  BY NumbersAssumption DEF BlankRow, GridRow
<1>2. rows \in Seq(GridRow) /\ new \in Seq(GridRow) /\ Len(new) = Len(rows) + 1
  BY <1>1 DEF OnScreen
<1>3. \A j \in DOMAIN new : \/ j \in DOMAIN rows /\ new[j] = rows[j]
                            \/ new[j].id = None
  BY <1>1, <1>2
<1> HIDE DEF new
<1>4. OnScreen(new, last)
  BY <1>2, <1>3 DEF OnScreen
<1>5. QED
  BY <1>4 DEF new

LEMMA RemovedOnScreen ==
  ASSUME NEW rows, NEW last, OnScreen(rows, last), NEW i \in DOMAIN rows
  PROVE  OnScreen(RemoveAt(rows, i), last)
<1> DEFINE new == RemoveAt(rows, i)
           head == SubSeq(rows, 1, i - 1)
           tail == SubSeq(rows, i + 1, Len(rows))
           from(j) == IF j < i THEN j ELSE j + 1
<1>1. rows \in Seq(GridRow) /\ Len(rows) \in Nat /\ i \in 1..Len(rows)
  BY DEF OnScreen
<1>2. /\ head \in Seq(GridRow) /\ Len(head) = i - 1
      /\ \A j \in 1..i - 1 : head[j] = rows[j]
  BY <1>1
<1>3. /\ tail \in Seq(GridRow) /\ Len(tail) = Len(rows) - i
      /\ \A j \in 1..Len(rows) - i : tail[j] = rows[i + j]
  BY <1>1
<1> HIDE DEF head, tail
<1>4. /\ new \in Seq(GridRow) /\ Len(new) = Len(rows) - 1
      /\ \A j \in 1..Len(rows) - 1 : new[j] = rows[from(j)]
  <2>1. new = head \o tail
    BY DEF RemoveAt, head, tail
  <2>2. (i - 1) + (Len(rows) - i) = Len(rows) - 1
    BY <1>1
  <2>3. new \in Seq(GridRow) /\ Len(new) = Len(rows) - 1
    <3>1. /\ head \o tail \in Seq(GridRow)
          /\ Len(head \o tail) = Len(head) + Len(tail)
      BY <1>2, <1>3, ConcatProperties
    <3>2. QED
      BY <1>2, <1>3, <2>1, <2>2, <3>1
  <2>4. ASSUME NEW j \in 1..Len(rows) - 1 PROVE new[j] = rows[from(j)]
    <3>1. CASE j < i
      BY <1>1, <1>2, <1>3, <2>1, <3>1
    <3>2. CASE ~(j < i)
      <4>1. new[j] = tail[j - (i - 1)]
        <5>1. Len(head) \in Nat /\ Len(tail) \in Nat /\ Len(head) < j
          BY <1>1, <1>2, <1>3, <3>2
        <5>2. j \in 1..Len(head) + Len(tail)
          BY <1>2, <1>3, <2>2
        <5>3. (head \o tail)[j] = tail[j - Len(head)]
          BY <1>2, <1>3, <5>1, <5>2, ConcatProperties
        <5>4. QED
          BY <1>2, <2>1, <5>3
      <4>2. j - (i - 1) \in 1..Len(rows) - i /\ i + (j - (i - 1)) = j + 1
        BY <1>1, <3>2
      <4>3. QED
        BY <1>3, <3>2, <4>1, <4>2
    <3>3. QED
      BY <3>1, <3>2
  <2>5. QED
    BY <2>3, <2>4
<1> HIDE DEF new
<1>5. /\ \A j \in 1..Len(rows) - 1 : from(j) \in DOMAIN rows
      /\ \A j, k \in 1..Len(rows) - 1 : from(j) = from(k) => j = k
  BY <1>1
<1> HIDE DEF from
<1>6. DOMAIN new = 1..Len(rows) - 1
  BY <1>4
<1>7. OnScreen(new, last)
  <2>1. \A j, k \in DOMAIN new : new[j].id = new[k].id /\ new[j].id # None => j = k
    <3>1. SUFFICES ASSUME NEW j \in 1..Len(rows) - 1, NEW k \in 1..Len(rows) - 1,
                          new[j].id = new[k].id, new[j].id # None
                   PROVE  j = k
      BY <1>6
    <3>2. rows[from(j)].id = rows[from(k)].id /\ rows[from(j)].id # None
      BY <1>4, <3>1
    <3>3. from(j) = from(k)
      BY <1>5, <3>2 DEF OnScreen
    <3>4. QED
      BY <1>5, <3>3
  <2>2. \A j \in DOMAIN new : new[j].id # None => new[j].id <= last
    BY <1>4, <1>5, <1>6 DEF OnScreen
  <2>3. QED
    BY <1>4, <2>1, <2>2 DEF OnScreen
<1>8. QED
  BY <1>7 DEF new

-----------------------------------------------------------------------------
(* The invariant                                                           *)

\* No window shows or sends a row twice, or an id not yet given out.
ScreensSound ==
  \A w \in Windows : OnScreen(grid[w], lastId) /\ OnScreen(batch[w], lastId)

IInv == TypeOK /\ TableSound /\ ScreensSound

LEMMA GridIds ==
  ASSUME NEW rows \in Seq(GridRow), NEW i \in DOMAIN rows
  PROVE  rows[i].id \in 1..MaxId \cup {None} /\ (rows[i].id # None => rows[i].id \in Nat)
<1>1. rows[i] \in GridRow
  OBVIOUS
<1>2. rows[i].id \in 1..MaxId \cup {None}
  BY <1>1 DEF GridRow
<1>3. QED
  BY <1>2

\* The ids given out only grow, and what is on a screen stays as it should be.
LEMMA ScreenGrows ==
  ASSUME NEW rows, NEW last \in Nat, NEW more \in Nat, last <= more,
         OnScreen(rows, last)
  PROVE  OnScreen(rows, more)
<1>1. \A i \in DOMAIN rows : rows[i].id # None => rows[i].id \in Nat
  BY GridIds, NumbersAssumption DEF OnScreen
<1>2. QED
  BY <1>1 DEF OnScreen

\* A sound table is of the type of its columns.
LEMMA TableTyped ==
  ASSUME NEW last \in 0..MaxId, NEW rows, rows \subseteq RowUpTo(last)
  PROVE  rows \subseteq Row
<1>1. RowUpTo(last) \subseteq RowUpTo(MaxId)
  BY RowUpToGrows, NumbersAssumption
<1>2. RowUpTo(MaxId) = Row
  BY DEF RowUpTo, Row
<1>3. QED
  BY <1>1, <1>2

LEMMA InitSound == Init => IInv
<1>1. SUFFICES ASSUME Init PROVE IInv
  OBVIOUS
<1>2. <<>> \in Seq(GridRow) /\ OnScreen(<<>>, 0)
  BY DEF OnScreen
<1>3. QED
  BY <1>1, <1>2, NumbersAssumption
     DEF Init, IInv, TypeOK, TableSound, ScreensSound, Unique, AtMostOneFlag

\* An edit of a grid.
LEMMA PatchStep ==
  ASSUME IInv, NEW w \in Windows, NEW i \in DOMAIN grid[w],
         NEW row \in GridRow, row.id = grid[w][i].id, Patch(w, i, row)
  PROVE  IInv'
<1>1. grid' = [grid EXCEPT ![w] = [grid[w] EXCEPT ![i] = row]]
  BY DEF Patch, IInv, TypeOK
<1>2. OnScreen([grid[w] EXCEPT ![i] = row], lastId)
  BY PatchedOnScreen DEF IInv, ScreensSound
<1> DEFINE new == [grid[w] EXCEPT ![i] = row]
<1> HIDE DEF new
<1>3. UNCHANGED <<db, shown, call>> /\ dirty' = [dirty EXCEPT ![w] = TRUE]
  BY DEF Patch
<1>4. TableSound'
  BY <1>3 DEF IInv, TableSound, AtMostOneFlag, db
<1>5. new \in Seq(GridRow) /\ OnScreen(new, lastId)
  BY <1>2 DEF OnScreen, new
<1>6. TypeOK'
  BY <1>1, <1>3, <1>5 DEF IInv, TypeOK, db, call, new
<1>7. ScreensSound'
  BY <1>1, <1>3, <1>5 DEF IInv, TypeOK, ScreensSound, db, call, new
<1>8. QED
  BY <1>4, <1>6, <1>7 DEF IInv

LEMMA EditStep ==
  ASSUME IInv, NEW w \in Windows, NEW i \in DOMAIN grid[w], Edit(w, i)
  PROVE  IInv'
<1> DEFINE row == grid[w][i]
<1>1. row \in GridRow
  BY DEF IInv, TypeOK
<1>2. ASSUME NEW c \in Currencies, NEW a \in 0..MaxAmount \cup {None}
      PROVE  SetAmount(row, c, a) \in GridRow /\ SetAmount(row, c, a).id = row.id
  BY <1>1 DEF SetAmount, GridRow
<1>3. CASE \E c \in Currencies, a \in Amounts : TypeAmount(w, i, c, a)
  BY <1>2, <1>3, PatchStep, NumbersAssumption DEF TypeAmount
<1>4. CASE \E c \in Currencies : PassThrough(w, i, c)
  BY <1>2, <1>4, PatchStep DEF PassThrough
<1>5. CASE EditField(w, i)
  <2>1. [row EXCEPT !.bad = ~@] \in GridRow /\ [row EXCEPT !.bad = ~@].id = row.id
    BY <1>1 DEF GridRow
  <2>2. QED
    BY <1>5, <2>1, PatchStep DEF EditField
<1>6. CASE ToggleFlag(w, i)
  <2>1. [row EXCEPT !.flag = ~@] \in GridRow /\ [row EXCEPT !.flag = ~@].id = row.id
    BY <1>1 DEF GridRow
  <2>2. QED
    BY <1>6, <2>1, PatchStep DEF ToggleFlag
<1>7. QED
  BY <1>3, <1>4, <1>5, <1>6 DEF Edit

\* The steps of a window that do not touch the table.
LEMMA WindowStep ==
  ASSUME IInv, NEW w \in Windows,
         \/ AddRow(w) \/ Load(w) \/ Save(w) \/ CallFails(w)
         \/ \E i \in DOMAIN grid[w] : Delete(w, i)
         \/ \E r \in Rates \cup {None} : SetRate(w, r)
  PROVE  IInv' /\ UNCHANGED <<table, lastId>>
<1>1. UNCHANGED <<table, lastId>>
  BY DEF AddRow, Load, Save, CallFails, Delete, SetRate, db
<1>2. TableSound'
  BY <1>1 DEF IInv, TableSound, AtMostOneFlag
<1>3. OnScreen(<<>>, lastId) /\ <<>> \in Seq(GridRow)
  BY DEF OnScreen
<1>4. \E g \in Seq(GridRow) :
        /\ OnScreen(g, lastId)
        /\ grid' = [grid EXCEPT ![w] = g]
  <2>1. \A v \in Windows : OnScreen(grid[v], lastId) /\ grid[v] \in Seq(GridRow)
    BY DEF IInv, ScreensSound, TypeOK
  <2>2. CASE grid' = grid
    <3>1. grid' = [grid EXCEPT ![w] = grid[w]]
      BY <2>2 DEF IInv, TypeOK
    <3>2. QED
      BY <2>1, <3>1
  <2>3. CASE AddRow(w)
    <3>1. grid' = [grid EXCEPT ![w] = Append(grid[w], BlankRow)]
      BY <2>3 DEF AddRow
    <3>2. OnScreen(Append(grid[w], BlankRow), lastId)
      BY <2>1, AppendedOnScreen
    <3>3. QED
      BY <3>1, <3>2 DEF OnScreen
  <2>4. CASE Load(w)
    <3>1. OnScreen(LoadedRows, lastId) /\ grid' = [grid EXCEPT ![w] = LoadedRows]
      BY <2>4, LoadedOnScreen DEF Load, IInv
    <3>2. QED
      BY <3>1 DEF OnScreen
  <2>5. ASSUME NEW i \in DOMAIN grid[w], grid' = [grid EXCEPT ![w] = RemoveAt(@, i)]
        PROVE  \E g \in Seq(GridRow) :
                 OnScreen(g, lastId) /\ grid' = [grid EXCEPT ![w] = g]
    <3>1. OnScreen(RemoveAt(grid[w], i), lastId)
      BY <2>1, RemovedOnScreen
    <3>2. QED
      BY <2>5, <3>1 DEF OnScreen
  <2>6. QED
    BY <2>2, <2>3, <2>4, <2>5 DEF Save, CallFails, Delete, SetRate
<1>5. \E b \in Seq(GridRow) :
        /\ OnScreen(b, lastId)
        /\ batch' = [batch EXCEPT ![w] = b]
  <2>1. CASE batch' = batch
    <3>1. batch' = [batch EXCEPT ![w] = batch[w]]
      BY <2>1 DEF IInv, TypeOK
    <3>2. QED
      BY <3>1 DEF IInv, ScreensSound, TypeOK
  <2>2. CASE Save(w)
    BY <2>2 DEF Save, IInv, ScreensSound, TypeOK
  <2>3. CASE CallFails(w)
    BY <1>3, <2>3 DEF CallFails
  <2>4. QED
    BY <2>1, <2>2, <2>3 DEF AddRow, Load, Delete, SetRate, call
<1>6. ScreensSound'
  BY <1>1, <1>4, <1>5 DEF IInv, ScreensSound, TypeOK
<1>7. /\ dirty' \in [Windows -> BOOLEAN] /\ rate' \in Rates \cup {None}
      /\ shown' \in [Windows -> Rates \cup {None}]
      /\ phase' \in [Windows -> {"idle", "load", "put", "delete"}]
  <2>1. CASE AddRow(w) \/ Load(w) \/ Save(w)
    BY <2>1 DEF IInv, TypeOK, AddRow, Load, Save, Goto, db, call
  <2>2. CASE CallFails(w) \/ \E i \in DOMAIN grid[w] : Delete(w, i)
    BY <2>2 DEF IInv, TypeOK, CallFails, Delete, Goto, db
  <2>3. CASE \E r \in Rates \cup {None} : SetRate(w, r)
    BY <2>3 DEF IInv, TypeOK, SetRate, Goto
  <2>4. QED
    BY <2>1, <2>2, <2>3
<1>8. target' \in [Windows -> 1..MaxId \cup {None}]
  <2>1. \A i \in DOMAIN grid[w] : grid[w][i].id \in 1..MaxId \cup {None}
    BY GridIds DEF IInv, TypeOK
  <2>2. QED
    BY <2>1 DEF IInv, TypeOK, AddRow, Load, Save, CallFails, Delete, SetRate, call
<1>9. TypeOK'
  BY <1>1, <1>4, <1>5, <1>7, <1>8 DEF IInv, TypeOK
<1>10. QED
  BY <1>1, <1>2, <1>6, <1>9 DEF IInv

\* What RowsGoOnlyByDelete and BatchIsWhole ask of a step.
GoesByDelete ==
  /\ \A r \in table :
       \/ \E s \in table' : s.id = r.id
       \/ \E w \in Windows : phase[w] = "delete" /\ target[w] = r.id
  /\ \A s \in table' : s.id > lastId \/ \E r \in table : r.id = s.id

TakenWhole(w) ==
  /\ \A i \in DOMAIN batch[w], s \in table' :
       batch[w][i].id = s.id => batch[w][i].amount = s.amount
  /\ lastId' - lastId = Cardinality(NewRows(batch[w]))

Wholeness ==
  \A w \in Windows :
    phase[w] = "put" /\ phase'[w] # "put" /\ <<table, lastId>> # <<table', lastId'>>
      => TakenWhole(w)

\* A PUT: the table that save_rows leaves behind.
LEMMA SaveRowsStep ==
  ASSUME IInv, NEW w \in Windows, Validated(batch[w]), SaveRows(batch[w]),
         lastId + Cardinality(NewRows(batch[w])) <= MaxId
  PROVE  TableSound' /\ lastId' >= lastId /\ GoesByDelete /\ TakenWhole(w)
<1> DEFINE start == [rows |-> table, last |-> lastId, id |-> None]
           rows  == batch[w]
           end   == SaveEach(start, rows)
<1>1. table' = end.rows /\ lastId' = end.last
  BY DEF SaveRows
<1>2. lastId \in Nat /\ lastId <= MaxId /\ rows \in Seq(GridRow) /\ Len(rows) \in Nat
  BY NumbersAssumption DEF IInv, TypeOK
<1>3. Sound(start) /\ OneFlagOf(start.rows)
  <2>1. table \subseteq AnyRow
    BY <1>2, RowUpToGrows DEF IInv, TableSound
  <2>2. QED
    BY <1>2, <2>1 DEF IInv, TableSound, Sound, States, OneFlagOf, AtMostOneFlag
<1>4. Payload(rows, start.last)
  BY DEF Payload, IInv, ScreensSound
<1>5. Done(start, rows, Len(rows), end)
  BY <1>3, <1>4, SaveEachSound
<1>6. DOMAIN rows = 1..Len(rows) /\ NewRows(rows) = News(rows, Len(rows))
  BY <1>2 DEF NewRows, News
<1>7. start.rows = table /\ start.last = lastId
  OBVIOUS
<1> HIDE DEF start, end, rows
<1>8. /\ lastId' = lastId + Cardinality(News(rows, Len(rows)))
      /\ Cardinality(News(rows, Len(rows))) \in Nat
      /\ lastId' \in 0..MaxId /\ lastId' >= lastId
  <2>1. /\ lastId' = lastId + Cardinality(News(rows, Len(rows)))
        /\ Cardinality(News(rows, Len(rows))) \in Nat
    BY <1>1, <1>2, <1>5, <1>7, CountNews DEF Done
  <2>2. lastId + Cardinality(News(rows, Len(rows))) <= MaxId
    BY <1>6 DEF rows
  <2>3. QED
    BY <1>2, <2>1, <2>2, NumbersAssumption
<1>9. TableSound'
  BY <1>1, <1>5, <1>8 DEF Done, Sound, TableSound, OneFlagOf, AtMostOneFlag
<1>10. GoesByDelete
  BY <1>1, <1>5, <1>7 DEF Done, SameIds, GoesByDelete
<1>11. TakenWhole(w)
  <2>1. lastId' - lastId = Cardinality(NewRows(rows))
    BY <1>2, <1>6, <1>8
  <2>2. \A i \in DOMAIN rows, s \in table' :
          rows[i].id = s.id => rows[i].amount = s.amount
    BY <1>1, <1>5, <1>6 DEF Done
  <2>3. QED
    BY <2>1, <2>2 DEF TakenWhole, rows
<1>12. QED
  BY <1>8, <1>9, <1>10, <1>11

LEMMA PutStep ==
  ASSUME IInv, NEW w \in Windows, Put(w)
  PROVE  IInv' /\ GoesByDelete /\ Wholeness
<1>1. /\ phase[w] = "put" /\ \E p \in {"load", "idle"} : phase' = [phase EXCEPT ![w] = p]
      /\ batch' = [batch EXCEPT ![w] = <<>>]
      /\ UNCHANGED <<rate, grid, dirty, shown, target>>
  BY DEF Put, Goto
<1>2. /\ TableSound' /\ lastId' >= lastId /\ GoesByDelete
      /\ TakenWhole(w) \/ UNCHANGED <<table, lastId>>
  <2>1. CASE UNCHANGED <<table, lastId>>
    BY <2>1, NumbersAssumption DEF IInv, TypeOK, TableSound, AtMostOneFlag, GoesByDelete
  <2>2. CASE /\ Validated(batch[w]) /\ SaveRows(batch[w])
             /\ lastId + Cardinality(NewRows(batch[w])) <= MaxId
    BY <2>2, SaveRowsStep
  <2>3. QED
    BY <2>1, <2>2 DEF Put
<1>3. ScreensSound'
  <2>1. lastId \in Nat /\ lastId' \in Nat
    BY <1>2, NumbersAssumption DEF IInv, TypeOK, TableSound
  <2>2. OnScreen(<<>>, lastId')
    BY DEF OnScreen
  <2>3. \A v \in Windows : OnScreen(grid[v], lastId') /\ OnScreen(batch[v], lastId')
    BY <1>2, <2>1, ScreenGrows DEF IInv, ScreensSound
  <2>4. QED
    BY <1>1, <2>2, <2>3 DEF ScreensSound, IInv, TypeOK
<1>4. TypeOK'
  <2>1. table' \subseteq Row
    BY <1>2, TableTyped DEF TableSound
  <2>2. lastId' \in 0..MaxId
    BY <1>2 DEF TableSound
  <2>3. batch' \in [Windows -> Seq(GridRow)]
    BY <1>1 DEF IInv, TypeOK
  <2>4. phase' \in [Windows -> {"idle", "load", "put", "delete"}]
    BY <1>1 DEF IInv, TypeOK
  <2>5. QED
    BY <1>1, <2>1, <2>2, <2>3, <2>4 DEF IInv, TypeOK
<1>5. Wholeness
  BY <1>1, <1>2 DEF Wholeness, IInv, TypeOK
<1>6. QED
  BY <1>2, <1>3, <1>4, <1>5 DEF IInv

LEMMA DeleteRowStep ==
  ASSUME IInv, NEW w \in Windows, DeleteRow(w)
  PROVE  IInv' /\ GoesByDelete /\ Wholeness
<1>1. /\ phase[w] = "delete" /\ \E p \in {"load", "idle"} : phase' = [phase EXCEPT ![w] = p]
      /\ table' = {r \in table : r.id # target[w]}
      /\ target' = [target EXCEPT ![w] = None]
      /\ UNCHANGED <<lastId, rate, grid, dirty, shown, batch>>
  BY DEF DeleteRow, Goto
<1>2. TableSound' /\ table' \subseteq table
  BY <1>1 DEF IInv, TableSound, Unique, AtMostOneFlag
<1>3. TypeOK'
  BY <1>1, <1>2 DEF IInv, TypeOK
<1>4. ScreensSound'
  BY <1>1 DEF IInv, ScreensSound
<1>5. GoesByDelete
  BY <1>1 DEF GoesByDelete
<1>6. Wholeness
  BY <1>1 DEF Wholeness, IInv, TypeOK
<1>7. QED
  BY <1>2, <1>3, <1>4, <1>5, <1>6 DEF IInv

\* Every step, and a step that changes nothing.
LEMMA NextSound ==
  ASSUME IInv, [Next]_vars
  PROVE  IInv' /\ GoesByDelete /\ Wholeness
<1>1. ASSUME UNCHANGED <<table, lastId>> PROVE GoesByDelete /\ Wholeness
  BY <1>1 DEF GoesByDelete, Wholeness
<1>2. CASE UNCHANGED vars
  <2>1. IInv'
    BY <1>2 DEF IInv, TypeOK, TableSound, ScreensSound, AtMostOneFlag, vars
  <2>2. QED
    BY <1>1, <1>2, <2>1 DEF vars
<1>3. ASSUME NEW w \in Windows, NEW i \in DOMAIN grid[w], Edit(w, i)
      PROVE  IInv' /\ UNCHANGED <<table, lastId>>
  <2>1. UNCHANGED <<table, lastId>>
    BY <1>3 DEF Edit, TypeAmount, PassThrough, EditField, ToggleFlag, Patch, db
  <2>2. QED
    BY <1>3, <2>1, EditStep
<1>4. ASSUME NEW w \in Windows,
             \/ AddRow(w) \/ Load(w) \/ Save(w) \/ CallFails(w)
             \/ \E i \in DOMAIN grid[w] : Delete(w, i)
             \/ \E r \in Rates \cup {None} : SetRate(w, r)
      PROVE  IInv' /\ UNCHANGED <<table, lastId>>
  BY <1>4, WindowStep
<1>5. QED
  BY <1>1, <1>2, <1>3, <1>4, PutStep, DeleteRowStep DEF Next

LEMMA Inductive == Spec => []IInv
<1>1. IInv /\ [Next]_vars => IInv'
  BY NextSound
<1>2. QED
  BY InitSound, <1>1, PTL DEF Spec

-----------------------------------------------------------------------------
(* The theorems                                                            *)

\* The tables, the grids and the calls are of their types: in particular no row
\* that _validate refuses is ever stored.
THEOREM TypeCorrect == Spec => []TypeOK
<1>1. IInv => TypeOK
  BY DEF IInv
<1>2. QED
  BY Inductive, <1>1, PTL

\* Whoever saves, and however many rows of a batch are flagged, at most one row
\* of external_costs carries the flag.
THEOREM FlagIsUnique == Spec => []AtMostOneFlag
<1>1. IInv => AtMostOneFlag
  BY DEF IInv, TableSound
<1>2. QED
  BY Inductive, <1>1, PTL

\* save_rows never takes a row away or brings one back: a row goes by a DELETE
\* of its id, and a row that appears has a fresh id.
THEOREM SavesOnlyUpsert == Spec => RowsGoOnlyByDelete
<1>1. IInv /\ [Next]_vars => [GoesByDelete]_vars
  BY NextSound
<1>2. QED
  BY Inductive, <1>1, PTL DEF Spec, RowsGoOnlyByDelete, GoesByDelete

\* A PUT that changes the table has taken over the whole of its batch.
THEOREM BatchesAreWhole == Spec => BatchIsWhole
<1>1. IInv /\ [Next]_vars => [Wholeness]_vars
  BY NextSound
<1>2. QED
  BY Inductive, <1>1, PTL DEF Spec, BatchIsWhole, Wholeness, TakenWhole

=============================================================================
