--------------------------- MODULE CostFiguresProofs ---------------------------
(***************************************************************************)
(* The figures of the cost page for any number of bots, sessions, external *)
(* rows, calls and ticks.  The header's total is fleet-wide, an unmarked   *)
(* one is whole, and an invoice is compared with thirty days; the bars of  *)
(* the chart are the spending; and what cost_merge.py makes of the bots'   *)
(* panels is what one database with all their rows would show.             *)
(***************************************************************************)
EXTENDS CostFigures, Integers, FiniteSetTheorems, FunctionTheorems, WellFoundedInduction,
  TLAPS

-----------------------------------------------------------------------------
(* Sums of natural numbers, as sizes of sets.                              *)

\* A set of numbers that is not empty has a least element.
LEMMA Least ==
  ASSUME NEW T, T \subseteq Nat, T # {}
  PROVE  \E m \in T : \A n \in T : m <= n
<1>1. PICK m \in T : \A n \in T : <<n, m>> \notin OpToRel(<, Nat)
  BY NatLessThanWellFounded, WFMin, Zenon
<1>2. \A n \in T : ~(n < m)
  BY <1>1 DEF OpToRel
<1>3. QED
  BY <1>2

\* What is left of a sum when the figure it takes first is taken away.
Pick(s) == CHOOSE c \in s : TRUE
Unfolded(h, f, s) == IF s = {} THEN 0 ELSE f[Pick(s)] + h[s \ {Pick(s)}]
IsTotal(h, f, S) == h = [s \in SUBSET S |-> Unfolded(h, f, s)]

LEMMA PickIn == ASSUME NEW s, s # {} PROVE Pick(s) \in s
  BY DEF Pick

LEMMA SumUnfolds ==
  ASSUME NEW f, NEW C, C = DOMAIN f
  PROVE  Summary!AddedUp(f) = (CHOOSE h : IsTotal(h, f, C))[C]
  BY Zenon DEF Summary!AddedUp, Summary!MapThenSumSet, Summary!MapThenFoldSet,
               IsTotal, Unfolded, Pick

\* Counting what has a label, label by label, counts everything that has one.
LEMMA SumIsSize ==
  ASSUME NEW B, IsFiniteSet(B), NEW C, IsFiniteSet(C),
         NEW label, \A b \in B : label[b] \in C,
         NEW f, DOMAIN f = C, \A c \in C : f[c] = Cardinality({b \in B : label[b] = c})
  PROVE  Summary!AddedUp(f) = Cardinality(B)
<1> DEFINE Part(s) == {b \in B : label[b] \in s}
           g == [s \in SUBSET C |-> Cardinality(Part(s))]
           h == CHOOSE i : IsTotal(i, f, C)
<1>1. ASSUME NEW s \in SUBSET C, s # {}
      PROVE  Cardinality(Part(s)) = f[Pick(s)] + Cardinality(Part(s \ {Pick(s)}))
  <2> DEFINE One  == {b \in B : label[b] = Pick(s)}
             Rest == Part(s \ {Pick(s)})
  <2>1. Pick(s) \in s
    BY <1>1, PickIn
  <2>2. Part(s) = One \cup Rest /\ One \cap Rest = {}
    BY <2>1
  <2>3. IsFiniteSet(One) /\ IsFiniteSet(Rest)
    BY FS_Subset
  <2>4. /\ Cardinality(One \cup Rest) =
             Cardinality(One) + Cardinality(Rest) - Cardinality(One \cap Rest)
        /\ Cardinality(One) \in Nat /\ Cardinality(Rest) \in Nat
    BY <2>3, FS_Union, FS_CardinalityType
  <2>5. Cardinality(One \cap Rest) = 0
    BY <2>2, FS_EmptySet
  <2>6. f[Pick(s)] = Cardinality(One)
    BY <2>1
  <2> HIDE DEF One, Rest
  <2>7. Cardinality(One \cup Rest) = f[Pick(s)] + Cardinality(Rest)
    BY <2>4, <2>5, <2>6
  <2>8. QED
    BY <2>2, <2>7 DEF Rest
<1>2. Part({}) = {}
  OBVIOUS
<1>3. ASSUME NEW s \in SUBSET C PROVE g[s] = Unfolded(g, f, s)
  <2>1. CASE s = {}
    BY <2>1, <1>2, FS_EmptySet DEF Unfolded
  <2>2. CASE s # {}
    <3>1. s \ {Pick(s)} \in SUBSET C
      OBVIOUS
    <3>2. g[s] = Cardinality(Part(s)) /\ g[s \ {Pick(s)}] = Cardinality(Part(s \ {Pick(s)}))
      BY <3>1
    <3> HIDE DEF g, Part
    <3>3. QED
      BY <2>2, <3>2, <1>1 DEF Unfolded
  <2>3. QED
    BY <2>1, <2>2
<1> HIDE DEF Part
<1>4. IsTotal(g, f, C)
  <2>1. g = [s \in SUBSET C |-> g[s]]
    OBVIOUS
  <2> HIDE DEF g
  <2>2. QED
    BY <1>3, <2>1 DEF IsTotal
<1>5. IsTotal(h, f, C)
  <2> HIDE DEF g
  <2>1. QED
    BY <1>4
<1>6. ASSUME NEW s \in SUBSET C PROVE h[s] = Unfolded(h, f, s)
  <2> HIDE DEF h
  <2>1. QED
    BY <1>5 DEF IsTotal
<1> HIDE DEF g, h
<1>7. \A s \in SUBSET C : IsFiniteSet(s) /\ Cardinality(s) \in Nat
  BY FS_Subset, FS_CardinalityType
<1>8. \A s \in SUBSET C : h[s] = g[s]
  <2> DEFINE Wrong == {s \in SUBSET C : h[s] # g[s]}
             Sizes == {Cardinality(s) : s \in Wrong}
  <2>1. SUFFICES ASSUME Wrong # {} PROVE FALSE
    OBVIOUS
  <2>2. Sizes \subseteq Nat /\ Sizes # {}
    BY <2>1, <1>7
  <2>3. PICK s \in Wrong : \A t \in Wrong : Cardinality(s) <= Cardinality(t)
    <3>1. PICK m \in Sizes : \A n \in Sizes : m <= n
      <4> HIDE DEF Sizes
      <4>1. QED
        BY <2>2, Least
    <3>2. QED
      BY <3>1
  <2>4. CASE s = {}
    BY <2>3, <2>4, <1>3, <1>6 DEF Unfolded
  <2>5. CASE s # {}
    <3>1. Pick(s) \in s /\ s \in SUBSET C
      BY <2>3, <2>5, PickIn
    <3>2. Cardinality(s \ {Pick(s)}) = Cardinality(s) - 1 /\ Cardinality(s) \in Nat
      BY <3>1, <1>7, FS_RemoveElement
    <3>3. s \ {Pick(s)} \notin Wrong
      BY <2>3, <3>2
    <3>4. h[s \ {Pick(s)}] = g[s \ {Pick(s)}]
      BY <3>1, <3>3
    <3>5. h[s] = g[s]
      BY <3>1, <3>4, <2>5, <1>3, <1>6 DEF Unfolded
    <3>6. QED
      BY <2>3, <3>5
  <2>6. QED
    BY <2>4, <2>5
<1>9. h[C] = Cardinality(B)
  <2>1. Part(C) = B
    BY DEF Part
  <2>2. QED
    BY <1>8, <2>1 DEF g
<1>10. QED
  BY <1>9, SumUnfolds DEF h

\* A figure as a stack of units; stacks of different figures are apart.
Stack(f) == {o \in (DOMAIN f) \X Nat : 1 <= o[2] /\ o[2] <= f[o[1]]}
Layer(f, c) == {c} \X (1 .. f[c])

LEMMA LayerSize ==
  ASSUME NEW C, NEW f \in [C -> Nat], NEW c \in C
  PROVE  IsFiniteSet(Layer(f, c)) /\ Cardinality(Layer(f, c)) = f[c]
<1>1. f[c] \in Nat
  OBVIOUS
<1>2. IsFiniteSet(1 .. f[c]) /\ Cardinality(1 .. f[c]) = f[c]
  BY <1>1, FS_Interval
<1>3. IsFiniteSet({c}) /\ Cardinality({c}) = 1
  BY FS_Singleton
<1>4. IsFiniteSet(Layer(f, c)) /\ Cardinality(Layer(f, c)) = 1 * f[c]
  BY <1>2, <1>3, FS_Product DEF Layer
<1>5. QED
  BY <1>1, <1>4

LEMMA StackFinite ==
  ASSUME NEW C, IsFiniteSet(C), NEW f \in [C -> Nat]
  PROVE  IsFiniteSet(Stack(f))
<1> DEFINE layer == [c \in C |-> Layer(f, c)]
           Layers == {layer[c] : c \in C}
<1>1. layer \in Surjection(C, Layers)
  BY Fun_IsSurj
<1>2. IsFiniteSet(Layers)
  BY <1>1, FS_Surjection
<1>3. \A L \in Layers : IsFiniteSet(L)
  BY LayerSize
<1>4. IsFiniteSet(UNION Layers)
  <2> HIDE DEF Layers
  <2>1. QED
    BY <1>2, <1>3, FS_UNION
<1>5. Stack(f) \subseteq UNION Layers
  BY DEF Stack, Layer
<1>6. QED
  BY <1>4, <1>5, FS_Subset

LEMMA SumIsStack ==
  ASSUME NEW C, IsFiniteSet(C), NEW f \in [C -> Nat]
  PROVE  /\ Summary!AddedUp(f) = Cardinality(Stack(f))
         /\ Summary!AddedUp(f) \in Nat
<1> DEFINE label == [o \in Stack(f) |-> o[1]]
<1>1. IsFiniteSet(Stack(f))
  BY StackFinite
<1>2. \A o \in Stack(f) : label[o] \in C
  BY DEF Stack
<1>3. ASSUME NEW c \in C PROVE f[c] = Cardinality({o \in Stack(f) : label[o] = c})
  <2>1. {o \in Stack(f) : label[o] = c} = Layer(f, c)
    BY DEF Stack, Layer
  <2>2. QED
    BY <2>1, LayerSize
<1> HIDE DEF label
<1>4. Summary!AddedUp(f) = Cardinality(Stack(f))
  BY <1>1, <1>2, <1>3, SumIsSize
<1>5. QED
  BY <1>1, <1>4, FS_CardinalityType

LEMMA SumOfNone == ASSUME NEW f \in [{} -> Nat] PROVE Summary!AddedUp(f) = 0
<1>1. Stack(f) = {}
  BY DEF Stack
<1>2. QED
  BY <1>1, SumIsStack, FS_EmptySet

LEMMA SumOfOneMore ==
  ASSUME NEW C, IsFiniteSet(C), NEW f \in [C -> Nat], NEW c, c \notin C,
         NEW g \in [C \cup {c} -> Nat], \A d \in C : g[d] = f[d]
  PROVE  Summary!AddedUp(g) = Summary!AddedUp(f) + g[c]
<1>1. IsFiniteSet(C \cup {c})
  BY FS_AddElement
<1>2. /\ Summary!AddedUp(g) = Cardinality(Stack(g))
      /\ Summary!AddedUp(f) = Cardinality(Stack(f)) /\ Summary!AddedUp(f) \in Nat
  BY <1>1, SumIsStack
<1>3. IsFiniteSet(Stack(f))
  BY StackFinite
<1>4. IsFiniteSet(Layer(g, c)) /\ Cardinality(Layer(g, c)) = g[c]
  BY LayerSize
<1>5. Stack(g) = Stack(f) \cup Layer(g, c) /\ Stack(f) \cap Layer(g, c) = {}
  BY DEF Stack, Layer
<1>6. Cardinality(Stack(f) \cup Layer(g, c)) =
        Cardinality(Stack(f)) + g[c] - Cardinality(Stack(f) \cap Layer(g, c))
  BY <1>3, <1>4, FS_Union
<1>7. Cardinality(Stack(f) \cap Layer(g, c)) = 0
  BY <1>5, FS_EmptySet
<1>8. g[c] \in Nat
  OBVIOUS
<1>9. QED
  BY <1>2, <1>5, <1>6, <1>7, <1>8

LEMMA SumOfZeros ==
  ASSUME NEW C, IsFiniteSet(C), NEW f \in [C -> Nat], Summary!AddedUp(f) = 0
  PROVE  \A c \in C : f[c] = 0
<1>1. Stack(f) = {}
  BY SumIsStack, StackFinite, FS_EmptySet
<1>2. ASSUME NEW c \in C, f[c] # 0 PROVE FALSE
  <2>1. <<c, 1>> \in Stack(f)
    BY <1>2 DEF Stack
  <2>2. QED
    BY <1>1, <2>1
<1>3. QED
  BY <1>2

\* The chart adds up in the same way.
LEMMA ChartSums == ASSUME NEW f PROVE Chart!AddedUp(f) = Summary!AddedUp(f)
<1>1. Chart!AddedUp(f) = (CHOOSE h : IsTotal(h, f, DOMAIN f))[DOMAIN f]
  BY Zenon DEF Chart!AddedUp, Chart!MapThenSumSet, Chart!MapThenFoldSet, IsTotal, Unfolded, Pick
<1>2. QED
  BY <1>1, SumUnfolds

LEMMA Tagged ==
  ASSUME NEW S, IsFiniteSet(S), NEW i
  PROVE  IsFiniteSet(S \X {i}) /\ Cardinality(S \X {i}) = Cardinality(S)
<1>1. IsFiniteSet({i}) /\ Cardinality({i}) = 1
  BY FS_Singleton
<1>2. IsFiniteSet(S \X {i}) /\ Cardinality(S \X {i}) = Cardinality(S) * 1
  BY <1>1, FS_Product
<1>3. Cardinality(S) \in Nat
  BY FS_CardinalityType
<1>4. QED
  BY <1>2, <1>3

\* Term by term.
LEMMA SumOfSums ==
  ASSUME NEW C, IsFiniteSet(C), NEW f \in [C -> Nat], NEW g \in [C -> Nat],
         NEW h, DOMAIN h = C, \A c \in C : h[c] = f[c] + g[c]
  PROVE  Summary!AddedUp(h) = Summary!AddedUp(f) + Summary!AddedUp(g)
<1> DEFINE Left  == Stack(f) \X {0}
           Right == Stack(g) \X {1}
           B     == Left \cup Right
           label == [o \in B |-> o[1][1]]
<1>1. /\ IsFiniteSet(Stack(f)) /\ Summary!AddedUp(f) = Cardinality(Stack(f))
      /\ IsFiniteSet(Stack(g)) /\ Summary!AddedUp(g) = Cardinality(Stack(g))
      /\ Summary!AddedUp(f) \in Nat /\ Summary!AddedUp(g) \in Nat
  BY StackFinite, SumIsStack
<1>3. /\ IsFiniteSet(Left) /\ Cardinality(Left) = Summary!AddedUp(f)
      /\ IsFiniteSet(Right) /\ Cardinality(Right) = Summary!AddedUp(g)
  BY <1>1, Tagged
<1>4. Left \cap Right = {}
  OBVIOUS
<1>5. IsFiniteSet(B) /\ Cardinality(B) = Summary!AddedUp(f) + Summary!AddedUp(g)
  <2> HIDE DEF Left, Right
  <2>1. IsFiniteSet(B) /\ Cardinality(B) =
          Cardinality(Left) + Cardinality(Right) - Cardinality(Left \cap Right)
    BY <1>3, FS_Union
  <2>2. Cardinality(Left \cap Right) = 0
    BY <1>4, FS_EmptySet
  <2>3. QED
    BY <1>1, <1>3, <2>1, <2>2
<1>6. \A o \in B : label[o] \in C
  BY DEF Stack
<1>7. ASSUME NEW c \in C PROVE h[c] = Cardinality({o \in B : label[o] = c})
  <2> DEFINE L == Layer(f, c) \X {0}
             R == Layer(g, c) \X {1}
  <2>1. {o \in B : label[o] = c} = L \cup R
    BY DEF Stack, Layer
  <2>2. /\ IsFiniteSet(Layer(f, c)) /\ Cardinality(Layer(f, c)) = f[c]
        /\ IsFiniteSet(Layer(g, c)) /\ Cardinality(Layer(g, c)) = g[c]
    BY LayerSize
  <2>3. /\ IsFiniteSet(L) /\ Cardinality(L) = f[c]
        /\ IsFiniteSet(R) /\ Cardinality(R) = g[c]
    BY <2>2, Tagged
  <2>4. L \cap R = {}
    OBVIOUS
  <2> HIDE DEF L, R
  <2>5. Cardinality(L \cup R) = Cardinality(L) + Cardinality(R) - Cardinality(L \cap R)
    BY <2>3, FS_Union
  <2>6. Cardinality(L \cap R) = 0
    BY <2>4, FS_EmptySet
  <2>7. f[c] \in Nat /\ g[c] \in Nat
    OBVIOUS
  <2>8. Cardinality(L \cup R) = f[c] + g[c]
    BY <2>3, <2>5, <2>6, <2>7
  <2>9. QED
    BY <2>1, <2>8
<1> HIDE DEF B, label
<1>9. Summary!AddedUp(h) = Cardinality(B)
  BY <1>5, <1>6, <1>7, SumIsSize
<1>10. QED
  BY <1>5, <1>9

\* A sum does not depend on what its terms are called.
LEMMA SumRenamed ==
  ASSUME NEW C, IsFiniteSet(C), NEW f \in [C -> Nat],
         NEW D, IsFiniteSet(D), NEW g \in [D -> Nat], NEW to,
         \A c \in C : f[c] > 0 => to[c] \in D /\ g[to[c]] = f[c],
         \A c, d \in C : f[c] > 0 /\ f[d] > 0 /\ to[c] = to[d] => c = d,
         \A d \in D : g[d] > 0 => \E c \in C : f[c] > 0 /\ to[c] = d
  PROVE  Summary!AddedUp(f) = Summary!AddedUp(g)
<1> DEFINE label == [o \in Stack(f) |-> to[o[1]]]
<1>1. \A o \in Stack(f) : o[1] \in C /\ f[o[1]] > 0 /\ o[2] \in 1 .. f[o[1]]
  BY DEF Stack
<1>2. \A o \in Stack(f) : label[o] \in D
  BY <1>1
<1>3. ASSUME NEW d \in D PROVE g[d] = Cardinality({o \in Stack(f) : label[o] = d})
  <2>1. CASE g[d] = 0
    <3>1. {o \in Stack(f) : label[o] = d} = {}
      BY <1>1, <2>1
    <3>2. QED
      BY <2>1, <3>1, FS_EmptySet
  <2>2. CASE g[d] > 0
    <3>1. PICK c \in C : f[c] > 0 /\ to[c] = d
      BY <2>2
    <3>2. {o \in Stack(f) : label[o] = d} = Layer(f, c)
      <4>1. ASSUME NEW o \in Stack(f), label[o] = d PROVE o \in Layer(f, c)
        <5>1. o[1] = c
          BY <1>1, <3>1, <4>1
        <5>2. QED
          BY <5>1 DEF Stack, Layer
      <4>2. Layer(f, c) \subseteq Stack(f) /\ \A o \in Layer(f, c) : o[1] = c
        BY DEF Stack, Layer
      <4>3. QED
        BY <3>1, <4>1, <4>2
    <3>3. Cardinality(Layer(f, c)) = f[c] /\ g[d] = f[c]
      BY <3>1, LayerSize
    <3>4. QED
      BY <3>2, <3>3
  <2>3. QED
    BY <2>1, <2>2
<1>4. DOMAIN g = D
  OBVIOUS
<1>5. IsFiniteSet(Stack(f)) /\ Summary!AddedUp(f) = Cardinality(Stack(f))
  BY StackFinite, SumIsStack
<1> HIDE DEF label
<1>6. Summary!AddedUp(g) = Cardinality(Stack(f))
  BY <1>2, <1>3, <1>4, <1>5, SumIsSize
<1>7. QED
  BY <1>5, <1>6

\* The image of a finite set.
LEMMA ImageFinite ==
  ASSUME NEW f, IsFiniteSet(DOMAIN f) PROVE IsFiniteSet({f[x] : x \in DOMAIN f})
<1> DEFINE g == [x \in DOMAIN f |-> f[x]]
           S == {f[x] : x \in DOMAIN f}
<1>1. g \in Surjection(DOMAIN f, S)
  BY DEF Surjection
<1>2. QED
  BY <1>1, FS_Surjection

-----------------------------------------------------------------------------
(* The header tiles.                                                       *)

Figure == [cost : Nat, free : Nat]
UsageOf == [Profiles -> [Summary!Ranges -> Figure]]

Moment == [usage |-> figures, table |-> table, rate |-> rate]

\* A summary: figures of some bots, each bot's as they were at a moment of its
\* own.
IsSummary(s, days, moments) ==
  /\ s.kept \subseteq Profiles
  /\ \E at \in [s.kept -> moments] :
       /\ s.cost = Summary!AddedUp([b \in s.kept |-> at[b].usage[b][days].cost])
       /\ s.free = Summary!AddedUp([b \in s.kept |-> at[b].usage[b][days].free])

\* The moments of the request: the present is one of them.
Moments(moments) == \A x \in moments : x.usage \in UsageOf /\ x.rate \in {None, 2}
PastInv == Moment \in past /\ Moments(past)

\* The summary that runs.
RunInv ==
  /\ todo \subseteq Profiles
  /\ sum.kept \cap todo = {}
  /\ IsSummary(sum, Summary!Window, past)

AfterFleet == {"rate", "rows", "flagged", "month", "done"}

\* The reads that are finished: each result was so at a moment of the request.
GotInv ==
  /\ DOMAIN got = {"selected", "fleet", "rate", "rows", "flagged", "month"}
  /\ step = "fleet" => ask.profile # All
  /\ step \in AfterFleet /\ ask.profile = All => got.selected = got.fleet
  /\ step \in AfterFleet => IsSummary(got.fleet, ask.days, past)
  /\ step \in AfterFleet \ {"rate"} => \E x \in past : got.rate = x.rate
  /\ step \in AfterFleet \ {"rate", "rows"} => \E x \in past : got.rows = x.table
  /\ step \in {"month", "done"} /\ got.flagged # None =>
       \E x \in past : got.flagged \in Summary!Flagged(x.table)
  /\ step = "month" => ask.days # 30
  /\ step = "done" /\ got.flagged # None =>
       IF ask.days = 30 THEN got.month = got.fleet
       ELSE IsSummary(got.month, 30, past) /\ got.month.kept # {}

SummaryInv ==
  /\ ask \in [days : Summary!Ranges, profile : Profiles \cup {All}]
  /\ step \in AfterFleet \cup {"selected", "fleet", "failed"}
  /\ PastInv /\ RunInv /\ GotInv

LEMMA ProfilesFinite == IsFiniteSet(Profiles) /\ \A P \in SUBSET Profiles : IsFiniteSet(P)
<1>1. IsFiniteSet(Profiles)
  BY SummaryAssumptions DEF Summary!BotsAssumption, Summary!IsFiniteSet, IsFiniteSet
<1>2. QED
  BY <1>1, FS_Subset

LEMMA FigureTyped ==
  ASSUME NEW moments, Moments(moments), NEW bots \in SUBSET Profiles,
         NEW at \in [bots -> moments], NEW days \in Summary!Ranges
  PROVE  /\ [b \in bots |-> at[b].usage[b][days].cost] \in [bots -> Nat]
         /\ [b \in bots |-> at[b].usage[b][days].free] \in [bots -> Nat]
<1>1. ASSUME NEW b \in bots
      PROVE  at[b].usage[b][days].cost \in Nat /\ at[b].usage[b][days].free \in Nat
  <2>1. at[b].usage \in UsageOf /\ b \in Profiles
    BY DEF Moments
  <2>2. at[b].usage[b][days] \in Figure
    BY <2>1 DEF UsageOf
  <2>3. QED
    BY <2>2 DEF Figure
<1>2. QED
  BY <1>1

LEMMA NothingRead == ASSUME NEW days, NEW moments PROVE IsSummary(Summary!Nothing, days, moments)
<1> DEFINE at == [b \in {} |-> 0]
           cost == [b \in {} |-> at[b].usage[b][days].cost]
           free == [b \in {} |-> at[b].usage[b][days].free]
<1>1. cost \in [{} -> Nat] /\ free \in [{} -> Nat]
  OBVIOUS
<1> HIDE DEF cost, free
<1>2. Summary!AddedUp(cost) = 0 /\ Summary!AddedUp(free) = 0
  BY <1>1, SumOfNone
<1>3. at \in [{} -> moments]
  OBVIOUS
<1> HIDE DEF at
<1>4. QED
  BY <1>2, <1>3 DEF IsSummary, Summary!Nothing, cost, free

\* Moments only come to be added.
LEMMA SummaryLasts ==
  ASSUME NEW s, NEW days, NEW moments, NEW later, moments \subseteq later,
         IsSummary(s, days, moments)
  PROVE  IsSummary(s, days, later)
<1>1. [s.kept -> moments] \subseteq [s.kept -> later]
  OBVIOUS
<1>2. QED
  BY <1>1 DEF IsSummary

\* One bot more, as it is at one of the moments.
LEMMA ReadOneMore ==
  ASSUME NEW s, NEW days \in Summary!Ranges, NEW moments, Moments(moments),
         IsSummary(s, days, moments),
         NEW m \in moments, NEW c \in Profiles, c \notin s.kept
  PROVE  IsSummary([cost |-> s.cost + m.usage[c][days].cost,
                    free |-> s.free + m.usage[c][days].free,
                    kept |-> s.kept \cup {c}], days, moments)
<1>1. PICK at \in [s.kept -> moments] :
        /\ s.cost = Summary!AddedUp([b \in s.kept |-> at[b].usage[b][days].cost])
        /\ s.free = Summary!AddedUp([b \in s.kept |-> at[b].usage[b][days].free])
  BY DEF IsSummary
<1> DEFINE kept == s.kept \cup {c}
           then == [b \in kept |-> IF b = c THEN m ELSE at[b]]
           Cost(bots, t) == [b \in bots |-> t[b].usage[b][days].cost]
           Free(bots, t) == [b \in bots |-> t[b].usage[b][days].free]
<1>2. s.kept \in SUBSET Profiles /\ kept \in SUBSET Profiles
  BY DEF IsSummary
<1>3. then \in [kept -> moments]
  OBVIOUS
<1>4. /\ Cost(s.kept, at) \in [s.kept -> Nat] /\ Free(s.kept, at) \in [s.kept -> Nat]
      /\ Cost(kept, then) \in [kept -> Nat] /\ Free(kept, then) \in [kept -> Nat]
  <2> HIDE DEF then, kept
  <2>1. QED
    BY <1>2, <1>3, FigureTyped
<1>5. /\ \A b \in s.kept : /\ Cost(kept, then)[b] = Cost(s.kept, at)[b]
                           /\ Free(kept, then)[b] = Free(s.kept, at)[b]
      /\ Cost(kept, then)[c] = m.usage[c][days].cost
      /\ Free(kept, then)[c] = m.usage[c][days].free
  OBVIOUS
<1>6. IsFiniteSet(s.kept)
  BY <1>2, ProfilesFinite
<1> HIDE DEF Cost, Free, then
<1>7. /\ Summary!AddedUp(Cost(kept, then)) =
             Summary!AddedUp(Cost(s.kept, at)) + m.usage[c][days].cost
      /\ Summary!AddedUp(Free(kept, then)) =
             Summary!AddedUp(Free(s.kept, at)) + m.usage[c][days].free
  <2>1. Summary!AddedUp(Cost(kept, then)) =
          Summary!AddedUp(Cost(s.kept, at)) + Cost(kept, then)[c]
    <3> DEFINE f == Cost(s.kept, at)
               g == Cost(kept, then)
    <3>1. f \in [s.kept -> Nat] /\ g \in [s.kept \cup {c} -> Nat]
      BY <1>4
    <3>2. \A b \in s.kept : g[b] = f[b]
      BY <1>5
    <3> HIDE DEF f, g
    <3>3. Summary!AddedUp(g) = Summary!AddedUp(f) + g[c]
      BY <3>1, <3>2, <1>6, SumOfOneMore
    <3>4. QED
      BY <3>3 DEF f, g
  <2>2. Summary!AddedUp(Free(kept, then)) =
          Summary!AddedUp(Free(s.kept, at)) + Free(kept, then)[c]
    <3> DEFINE f == Free(s.kept, at)
               g == Free(kept, then)
    <3>1. f \in [s.kept -> Nat] /\ g \in [s.kept \cup {c} -> Nat]
      BY <1>4
    <3>2. \A b \in s.kept : g[b] = f[b]
      BY <1>5
    <3> HIDE DEF f, g
    <3>3. Summary!AddedUp(g) = Summary!AddedUp(f) + g[c]
      BY <3>1, <3>2, <1>6, SumOfOneMore
    <3>4. QED
      BY <3>3 DEF f, g
  <2>3. QED
    BY <1>5, <2>1, <2>2
<1>8. /\ s.cost + m.usage[c][days].cost = Summary!AddedUp(Cost(kept, then))
      /\ s.free + m.usage[c][days].free = Summary!AddedUp(Free(kept, then))
  BY <1>1, <1>7 DEF Cost, Free
<1> HIDE DEF kept
<1>9. QED
  BY <1>2, <1>3, <1>8 DEF IsSummary, Cost, Free, kept

-----------------------------------------------------------------------------
(* The handler.                                                            *)

LEMMA SummaryInit == ASSUME Summary!Init PROVE SummaryInv
<1>1. figures \in UsageOf
  BY DEF Summary!Init, UsageOf, Figure
<1>2. past = {Moment} /\ rate \in {None, 2}
  BY DEF Summary!Init, Moment
<1>3. Moment.usage = figures /\ Moment.rate = rate
  BY DEF Moment
<1>4. PastInv
  BY <1>1, <1>2, <1>3 DEF PastInv, Moments
<1>5. sum = Summary!Nothing /\ sum.kept = {} /\ step = "selected"
  BY DEF Summary!Init, Summary!Nothing
<1>6. ask \in [days : Summary!Ranges, profile : Profiles \cup {All}]
  BY DEF Summary!Init
<1>7. todo \subseteq Profiles
  BY <1>6 DEF Summary!Init
<1>8. RunInv
  BY <1>5, <1>7, NothingRead DEF RunInv
<1>9. DOMAIN got = {"selected", "fleet", "rate", "rows", "flagged", "month"}
  BY DEF Summary!Init
<1>10. GotInv
  BY <1>5, <1>9 DEF GotInv, AfterFleet
<1>11. QED
  BY <1>4, <1>5, <1>6, <1>8, <1>10 DEF SummaryInv

LEMMA WindowTyped == ASSUME SummaryInv PROVE Summary!Window \in Summary!Ranges
  BY DEF SummaryInv, Summary!Window, Summary!Ranges

LEMMA ReadBotStep == ASSUME SummaryInv, Summary!ReadBot PROVE SummaryInv'
<1> DEFINE c == Summary!Min(todo)
<1>1. c \in todo /\ c \in Profiles /\ c \notin sum.kept
  <2>1. todo \subseteq Nat /\ todo # {}
    BY SummaryAssumptions DEF SummaryInv, RunInv, Summary!ReadBot, Summary!BotsAssumption
  <2>2. \E x \in todo : \A y \in todo : x <= y
    BY <2>1, Least
  <2>3. c \in todo
    BY <2>2 DEF Summary!Min
  <2>4. QED
    BY <2>3 DEF SummaryInv, RunInv
<1> HIDE DEF c
<1>2. /\ todo' = todo \ {c}
      /\ \/ sum' = [cost |-> sum.cost + figures[c][Summary!Window].cost,
                    free |-> sum.free + figures[c][Summary!Window].free,
                    kept |-> sum.kept \cup {c}]
         \/ UNCHANGED sum
      /\ UNCHANGED <<figures, table, rate, ask, step, got, past>>
  BY DEF Summary!ReadBot, Summary!world, c
<1>3. Summary!Window' = Summary!Window
  BY <1>2 DEF Summary!Window
<1>4. PastInv' /\ GotInv'
  BY <1>2 DEF SummaryInv, PastInv, Moment, GotInv
<1>5. RunInv'
  <2>1. CASE UNCHANGED sum
    BY <1>2, <1>3, <2>1 DEF SummaryInv, RunInv
  <2>2. CASE sum' = [cost |-> sum.cost + figures[c][Summary!Window].cost,
                     free |-> sum.free + figures[c][Summary!Window].free,
                     kept |-> sum.kept \cup {c}]
    <3>1. Moment.usage = figures /\ Moment \in past /\ Moments(past)
      BY DEF Moment, SummaryInv, PastInv
    <3>2. IsSummary(sum, Summary!Window, past)
      BY DEF SummaryInv, RunInv
    <3>3. IsSummary(sum', Summary!Window, past)
      BY <1>1, <2>2, <3>1, <3>2, WindowTyped, ReadOneMore
    <3>4. sum'.kept \cap todo' = {} /\ todo' \subseteq Profiles
      BY <1>2, <2>2 DEF SummaryInv, RunInv
    <3>5. QED
      BY <1>2, <1>3, <3>3, <3>4 DEF RunInv
  <2>3. QED
    BY <1>2, <2>1, <2>2
<1>6. QED
  BY <1>2, <1>4, <1>5 DEF SummaryInv

\* A new read begins with nothing.
LEMMA GotoRuns ==
  ASSUME NEW next, Summary!Goto(next) PROVE RunInv' /\ step' = next
<1>1. todo' \subseteq Profiles /\ sum' = Summary!Nothing /\ sum'.kept = {} /\ step' = next
  BY DEF Summary!Goto, Summary!Nothing
<1>2. QED
  BY <1>1, NothingRead DEF RunInv

LEMMA ReadUsageStep == ASSUME SummaryInv, Summary!ReadUsage PROVE SummaryInv'
<1>1. /\ step \in {"selected", "fleet", "month"}
      /\ UNCHANGED <<figures, table, rate, ask, past>>
  BY DEF Summary!ReadUsage, Summary!world
<1>2. PastInv'
  BY <1>1 DEF SummaryInv, PastInv, Moment
<1>3. IsSummary(sum, Summary!Window, past)
  BY DEF SummaryInv, RunInv
<1>4. DOMAIN got = {"selected", "fleet", "rate", "rows", "flagged", "month"}
  BY DEF SummaryInv, GotInv
<1>5. CASE sum.kept = {}
  <2>1. Summary!Goto("failed") /\ UNCHANGED got
    BY <1>5 DEF Summary!ReadUsage
  <2>2. RunInv' /\ step' = "failed"
    BY <2>1, GotoRuns
  <2>3. GotInv'
    BY <1>1, <1>4, <2>1, <2>2 DEF GotInv, AfterFleet
  <2>4. QED
    BY <1>1, <1>2, <2>2, <2>3 DEF SummaryInv
<1>6. CASE sum.kept # {} /\ step = "selected"
  <2>1. /\ got' = [got EXCEPT !.selected = sum, !.fleet = Summary!Fleet]
        /\ Summary!Goto(IF ask.profile = All THEN "rate" ELSE "fleet")
    BY <1>6 DEF Summary!ReadUsage
  <2>2. RunInv' /\ step' = IF ask.profile = All THEN "rate" ELSE "fleet"
    BY <2>1, GotoRuns
  <2>3. ask.profile = All => got'.fleet = sum /\ got'.selected = sum
    BY <1>4, <2>1 DEF Summary!Fleet
  <2>4. DOMAIN got' = {"selected", "fleet", "rate", "rows", "flagged", "month"}
    BY <1>4, <2>1
  <2>5. Summary!Window = ask.days
    BY <1>6 DEF Summary!Window
  <2>6. CASE ask.profile = All
    <3>1. step' = "rate" /\ got'.selected = got'.fleet
      BY <2>2, <2>3, <2>6
    <3>2. IsSummary(got'.fleet, ask.days, past)
      BY <1>3, <2>3, <2>5, <2>6
    <3>3. GotInv'
      BY <1>1, <2>4, <3>1, <3>2 DEF GotInv, AfterFleet
    <3>4. QED
      BY <1>1, <1>2, <2>2, <3>1, <3>3 DEF SummaryInv, AfterFleet
  <2>7. CASE ask.profile # All
    <3>1. step' = "fleet"
      BY <2>2, <2>7
    <3>2. GotInv'
      BY <1>1, <2>4, <2>7, <3>1 DEF GotInv, AfterFleet
    <3>3. QED
      BY <1>1, <1>2, <2>2, <3>1, <3>2 DEF SummaryInv, AfterFleet
  <2>8. QED
    BY <2>6, <2>7
<1>7. CASE sum.kept # {} /\ step = "fleet"
  <2>1. got' = [got EXCEPT !.fleet = Summary!Fleet] /\ Summary!Goto("rate")
    BY <1>7 DEF Summary!ReadUsage
  <2>2. RunInv' /\ step' = "rate"
    BY <2>1, GotoRuns
  <2>3. got'.fleet = sum /\ got'.selected = got.selected
    BY <1>4, <1>7, <2>1 DEF Summary!Fleet
  <2>4. DOMAIN got' = {"selected", "fleet", "rate", "rows", "flagged", "month"}
    BY <1>4, <2>1
  <2>5. Summary!Window = ask.days /\ ask.profile # All
    BY <1>7 DEF Summary!Window, SummaryInv, GotInv
  <2>6. GotInv'
    BY <1>1, <1>3, <2>2, <2>3, <2>4, <2>5 DEF GotInv, AfterFleet
  <2>7. QED
    BY <1>1, <1>2, <2>2, <2>6 DEF SummaryInv, AfterFleet
<1>8. CASE sum.kept # {} /\ step = "month"
  <2>1. got' = [got EXCEPT !.month = sum] /\ Summary!Goto("done")
    BY <1>8 DEF Summary!ReadUsage
  <2>2. RunInv' /\ step' = "done"
    BY <2>1, GotoRuns
  <2>3. /\ got'.month = sum /\ got'.selected = got.selected /\ got'.fleet = got.fleet
        /\ got'.rate = got.rate /\ got'.rows = got.rows /\ got'.flagged = got.flagged
    BY <1>4, <2>1
  <2>4. DOMAIN got' = {"selected", "fleet", "rate", "rows", "flagged", "month"}
    BY <1>4, <2>1
  <2>5. Summary!Window = 30 /\ ask.days # 30
    BY <1>8 DEF Summary!Window, SummaryInv, GotInv
  <2>6. /\ ask.profile = All => got.selected = got.fleet
        /\ IsSummary(got.fleet, ask.days, past)
        /\ \E x \in past : got.rate = x.rate
        /\ \E x \in past : got.rows = x.table
        /\ got.flagged # None => \E x \in past : got.flagged \in Summary!Flagged(x.table)
    BY <1>8 DEF SummaryInv, GotInv, AfterFleet
  <2>7. IsSummary(got'.month, 30, past) /\ got'.month.kept # {}
    BY <1>3, <1>8, <2>3, <2>5
  <2>8. IsSummary(got'.fleet, ask.days, past)
    BY <2>3, <2>6
  <2>9. GotInv'
    BY <1>1, <2>2, <2>3, <2>4, <2>5, <2>6, <2>7, <2>8 DEF GotInv, AfterFleet
  <2>10. QED
    BY <1>1, <1>2, <2>2, <2>9 DEF SummaryInv, AfterFleet
<1>9. QED
  BY <1>1, <1>5, <1>6, <1>7, <1>8

LEMMA ReadRateStep == ASSUME SummaryInv, Summary!ReadRate PROVE SummaryInv'
<1>1. step = "rate" /\ UNCHANGED <<figures, table, rate, ask, past>>
  BY DEF Summary!ReadRate, Summary!world
<1>2. got' = [got EXCEPT !.rate = rate] /\ Summary!Goto("rows")
  BY DEF Summary!ReadRate
<1>3. PastInv'
  BY <1>1 DEF SummaryInv, PastInv, Moment
<1>4. RunInv' /\ step' = "rows"
  BY <1>2, GotoRuns
<1>5. /\ DOMAIN got = {"selected", "fleet", "rate", "rows", "flagged", "month"}
      /\ ask.profile = All => got.selected = got.fleet
      /\ IsSummary(got.fleet, ask.days, past)
  BY <1>1 DEF SummaryInv, GotInv, AfterFleet
<1>6. /\ DOMAIN got' = {"selected", "fleet", "rate", "rows", "flagged", "month"}
      /\ got'.selected = got.selected /\ got'.fleet = got.fleet /\ got'.rate = rate
  BY <1>2, <1>5
<1>7. \E x \in past : got'.rate = x.rate
  BY <1>6 DEF SummaryInv, PastInv, Moment
<1>8. IsSummary(got'.fleet, ask.days, past)
  BY <1>5, <1>6
<1>9. GotInv'
  BY <1>1, <1>4, <1>5, <1>6, <1>7, <1>8 DEF GotInv, AfterFleet
<1>10. QED
  BY <1>1, <1>3, <1>4, <1>9 DEF SummaryInv, AfterFleet

LEMMA ReadRowsStep == ASSUME SummaryInv, Summary!ReadRows PROVE SummaryInv'
<1>1. step = "rows" /\ UNCHANGED <<figures, table, rate, ask, past>>
  BY DEF Summary!ReadRows, Summary!world
<1>2. got' = [got EXCEPT !.rows = table] /\ Summary!Goto("flagged")
  BY DEF Summary!ReadRows
<1>3. PastInv'
  BY <1>1 DEF SummaryInv, PastInv, Moment
<1>4. RunInv' /\ step' = "flagged"
  BY <1>2, GotoRuns
<1>5. /\ DOMAIN got = {"selected", "fleet", "rate", "rows", "flagged", "month"}
      /\ ask.profile = All => got.selected = got.fleet
      /\ IsSummary(got.fleet, ask.days, past)
      /\ \E x \in past : got.rate = x.rate
  BY <1>1 DEF SummaryInv, GotInv, AfterFleet
<1>6. /\ DOMAIN got' = {"selected", "fleet", "rate", "rows", "flagged", "month"}
      /\ got'.selected = got.selected /\ got'.fleet = got.fleet
      /\ got'.rate = got.rate /\ got'.rows = table
  BY <1>2, <1>5
<1>7. \E x \in past : got'.rows = x.table
  BY <1>6 DEF SummaryInv, PastInv, Moment
<1>8. IsSummary(got'.fleet, ask.days, past)
  BY <1>5, <1>6
<1>9. GotInv'
  BY <1>1, <1>4, <1>5, <1>6, <1>7, <1>8 DEF GotInv, AfterFleet
<1>10. QED
  BY <1>1, <1>3, <1>4, <1>9 DEF SummaryInv, AfterFleet

\* The flagged row is read from the table once more; the month is read anew
\* unless it is the range at hand.
LEMMA ReadFlaggedStep == ASSUME SummaryInv, Summary!ReadFlagged PROVE SummaryInv'
<1> DEFINE row == IF Summary!Flagged(table) = {} THEN None
                  ELSE CHOOSE r \in Summary!Flagged(table) : TRUE
<1>1. step = "flagged" /\ UNCHANGED <<figures, table, rate, ask, past>>
  BY DEF Summary!ReadFlagged, Summary!world
<1>2. /\ got' = [got EXCEPT !.flagged = row, !.month = got.fleet]
      /\ Summary!Goto(IF row = None \/ ask.days = 30 THEN "done" ELSE "month")
  BY DEF Summary!ReadFlagged, Summary!Reuse
<1>3. row # None => row \in Summary!Flagged(table)
  OBVIOUS
<1> HIDE DEF row
<1>4. PastInv'
  BY <1>1 DEF SummaryInv, PastInv, Moment
<1>5. RunInv' /\ step' = IF row = None \/ ask.days = 30 THEN "done" ELSE "month"
  BY <1>2, GotoRuns
<1>6. /\ DOMAIN got = {"selected", "fleet", "rate", "rows", "flagged", "month"}
      /\ ask.profile = All => got.selected = got.fleet
      /\ IsSummary(got.fleet, ask.days, past)
      /\ \E x \in past : got.rate = x.rate
      /\ \E x \in past : got.rows = x.table
  BY <1>1 DEF SummaryInv, GotInv, AfterFleet
<1>7. DOMAIN got' = {"selected", "fleet", "rate", "rows", "flagged", "month"}
  BY <1>2, <1>6
<1>8. got'.selected = got.selected /\ got'.fleet = got.fleet
  BY <1>2, <1>6
<1>9. got'.rate = got.rate /\ got'.rows = got.rows
  BY <1>2, <1>6
<1>10. got'.flagged = row /\ got'.month = got'.fleet
  BY <1>2, <1>6
<1>11. row # None => \E x \in past : row \in Summary!Flagged(x.table)
  <2>1. Moment \in past /\ Moment.table = table
    BY DEF SummaryInv, PastInv, Moment
  <2>2. QED
    BY <1>3, <2>1
<1>12. IsSummary(got'.fleet, ask.days, past)
  BY <1>6, <1>8
<1>13. GotInv'
  BY <1>1, <1>5, <1>6, <1>7, <1>8, <1>9, <1>10, <1>11, <1>12 DEF GotInv, AfterFleet
<1>14. QED
  BY <1>1, <1>4, <1>5, <1>13 DEF SummaryInv, AfterFleet

-----------------------------------------------------------------------------
(* The world.                                                              *)

\* What changes between the reads adds a moment and takes none back.
LEMMA WorldKeeps ==
  ASSUME SummaryInv, figures' \in UsageOf, rate' \in {None, 2},
         past' = past \cup {Moment'}, UNCHANGED <<ask, step, todo, sum, got>>
  PROVE  SummaryInv'
<1>1. past \subseteq past'
  OBVIOUS
<1>2. PastInv'
  <2>1. Moment'.usage = figures' /\ Moment'.rate = rate'
    BY DEF Moment
  <2>2. QED
    BY <2>1 DEF SummaryInv, PastInv, Moments
<1>3. Summary!Window' = Summary!Window
  BY DEF Summary!Window
<1>4. RunInv'
  <2>1. IsSummary(sum, Summary!Window, past')
    BY <1>1, SummaryLasts DEF SummaryInv, RunInv
  <2>2. QED
    BY <1>3, <2>1 DEF SummaryInv, RunInv
<1>5. GotInv'
  <2>1. step \in AfterFleet => IsSummary(got.fleet, ask.days, past')
    BY <1>1, SummaryLasts DEF SummaryInv, GotInv
  <2>2. step = "done" /\ got.flagged # None /\ ask.days # 30 => IsSummary(got.month, 30, past')
    BY <1>1, SummaryLasts DEF SummaryInv, GotInv
  <2>3. /\ step \in AfterFleet \ {"rate"} => \E x \in past' : got.rate = x.rate
        /\ step \in AfterFleet \ {"rate", "rows"} => \E x \in past' : got.rows = x.table
        /\ step \in {"month", "done"} /\ got.flagged # None =>
             \E x \in past' : got.flagged \in Summary!Flagged(x.table)
    BY <1>1 DEF SummaryInv, GotInv
  <2>4. GotInv
    BY DEF SummaryInv
  <2>5. QED
    BY <2>1, <2>2, <2>3, <2>4 DEF GotInv
<1>6. QED
  BY <1>2, <1>4, <1>5 DEF SummaryInv

LEMMA UnpricedTyped ==
  ASSUME figures \in UsageOf, NEW b \in Profiles, Summary!SpendUnpriced(b)
  PROVE  figures' \in UsageOf
<1> DEFINE after == [d \in Summary!Ranges |->
                       [cost |-> figures[b][d].cost, free |-> figures[b][d].free + 1]]
<1>1. figures' = [figures EXCEPT ![b] = after]
  BY DEF Summary!SpendUnpriced
<1>2. ASSUME NEW d \in Summary!Ranges PROVE after[d] \in Figure
  <2>1. figures[b][d] \in Figure
    BY DEF UsageOf
  <2>2. QED
    BY <2>1 DEF Figure
<1>3. after \in [Summary!Ranges -> Figure]
  BY <1>2
<1> HIDE DEF after
<1>4. QED
  BY <1>1, <1>3 DEF UsageOf

LEMMA SmallerOfTwo == ASSUME NEW n \in Nat, NEW m \in Nat PROVE m - Summary!Min({n, m}) \in Nat
<1>1. CASE n <= m
  <2>1. Summary!Min({n, m}) = n
    BY <1>1 DEF Summary!Min
  <2>2. QED
    BY <1>1, <2>1
<1>2. CASE ~(n <= m)
  <2>1. Summary!Min({n, m}) = m
    BY <1>2 DEF Summary!Min
  <2>2. QED
    BY <2>1
<1>3. QED
  BY <1>1, <1>2

LEMMA SpendTyped ==
  ASSUME figures \in UsageOf, NEW b \in Profiles, NEW n \in 0 .. 1, Summary!Spend(b, n)
  PROVE  figures' \in UsageOf
<1> DEFINE after == [d \in Summary!Ranges |->
                       [cost |-> figures[b][d].cost + 1,
                        free |-> figures[b][d].free - Summary!Min({n, figures[b][d].free})]]
<1>1. figures' = [figures EXCEPT ![b] = after]
  BY DEF Summary!Spend
<1>2. ASSUME NEW d \in Summary!Ranges PROVE after[d] \in Figure
  <2>1. figures[b][d] \in Figure
    BY DEF UsageOf
  <2>2. figures[b][d].cost \in Nat /\ figures[b][d].free \in Nat
    BY <2>1 DEF Figure
  <2>3. figures[b][d].cost + 1 \in Nat
    BY <2>2
  <2>4. figures[b][d].free - Summary!Min({n, figures[b][d].free}) \in Nat
    BY <2>2, SmallerOfTwo
  <2>5. QED
    BY <2>3, <2>4 DEF Figure
<1>3. after \in [Summary!Ranges -> Figure]
  BY <1>2
<1> HIDE DEF after
<1>4. QED
  BY <1>1, <1>3 DEF UsageOf

LEMMA AgeTyped ==
  ASSUME figures \in UsageOf, NEW b \in Profiles, Summary!Age(b) PROVE figures' \in UsageOf
<1>1. figures' = [figures EXCEPT ![b] = [figures[b] EXCEPT ![7] = [cost |-> 0, free |-> 0]]]
  BY DEF Summary!Age
<1>2. [cost |-> 0, free |-> 0] \in Figure
  BY DEF Figure
<1>3. QED
  BY <1>1, <1>2 DEF UsageOf

LEMMA WorldStep == ASSUME SummaryInv, Summary!World PROVE SummaryInv'
<1>1. /\ past' = past \cup {Moment'} /\ UNCHANGED <<ask, step, todo, sum, got>>
  BY DEF Summary!World, Summary!handler, Moment
<1>2. figures \in UsageOf /\ rate \in {None, 2}
  BY DEF SummaryInv, PastInv, Moments, Moment
<1>3. CASE \E b \in Profiles : Summary!Age(b)
  BY <1>1, <1>2, <1>3, AgeTyped, WorldKeeps DEF Summary!Age
<1>4. CASE \E b \in Profiles : \E n \in 0 .. 1 : Summary!Spend(b, n)
  BY <1>1, <1>2, <1>4, SpendTyped, WorldKeeps DEF Summary!Spend
<1>5. CASE \E row \in ExternalRows : Summary!Save(row) \/ Summary!Delete(row)
  BY <1>1, <1>2, <1>5, WorldKeeps DEF Summary!Save, Summary!Delete
<1>6. CASE Summary!SetRate
  BY <1>1, <1>2, <1>6, WorldKeeps DEF Summary!SetRate
<1>7. CASE \E b \in Profiles : Summary!SpendUnpriced(b)
  BY <1>1, <1>2, <1>7, UnpricedTyped, WorldKeeps DEF Summary!SpendUnpriced
<1>8. QED
  BY <1>3, <1>4, <1>5, <1>6, <1>7 DEF Summary!World

\* The other parts stand still.
LEMMA SummarySteps == Spec => [](part = "summary" => SummaryInv)
<1> DEFINE Inv == part = "summary" => SummaryInv
<1>1. Init => Inv
  BY SummaryInit DEF Init
<1>2. Inv /\ [Next]_vars => Inv'
  <2>1. SUFFICES ASSUME Inv, [Next]_vars, part' = "summary" PROVE SummaryInv'
    OBVIOUS
  <2>2. CASE part = "summary" /\ Summary!Next
    <3>1. SummaryInv
      BY <2>1, <2>2
    <3>2. QED
      BY <2>2, <3>1, ReadBotStep, ReadUsageStep, ReadRateStep, ReadRowsStep, ReadFlaggedStep,
         WorldStep DEF Summary!Next, Summary!Handler
  <2>3. CASE UNCHANGED <<part, summary>>
    <3>1. SummaryInv
      BY <2>1, <2>3
    <3>2. UNCHANGED <<figures, table, rate, ask, step, todo, sum, got, past>>
      BY <2>3 DEF summary
    <3>3. QED
      BY <3>1, <3>2 DEF SummaryInv, PastInv, Moment, RunInv, GotInv, Summary!Window
  <2>4. QED
    BY <2>1, <2>2, <2>3 DEF Next, vars
<1>3. QED
  BY <1>1, <1>2, PTL DEF Spec

-----------------------------------------------------------------------------
(* The tiles.                                                              *)

\* The figures of a summary are a sum over the bots it kept, each at a moment of
\* the request.
LEMMA CostOfSummary ==
  ASSUME NEW s, NEW days, IsSummary(s, days, past) PROVE s.cost \in Summary!Costs(s.kept, days)
  BY DEF IsSummary, Summary!Costs

LEMMA TotalAddsUp == ASSUME SummaryInv PROVE Summary!TotalIsFleetWide
<1>1. SUFFICES ASSUME step = "done"
               PROVE  \E x, y \in past :
                        /\ got.rate = y.rate
                        /\ Summary!Total \in {c + Summary!Monthly(x.table, y.rate) :
                                              c \in Summary!Costs(got.fleet.kept, ask.days)}
  BY DEF Summary!TotalIsFleetWide
<1>2. /\ IsSummary(got.fleet, ask.days, past)
      /\ \E y \in past : got.rate = y.rate
      /\ \E x \in past : got.rows = x.table
  BY <1>1 DEF SummaryInv, GotInv, AfterFleet
<1>3. PICK x \in past, y \in past : got.rate = y.rate /\ got.rows = x.table
  BY <1>2
<1>4. got.fleet.cost \in Summary!Costs(got.fleet.kept, ask.days)
  BY <1>2, CostOfSummary
<1>5. Summary!Total = got.fleet.cost + Summary!Monthly(x.table, y.rate)
  BY <1>3 DEF Summary!Total
<1>6. QED
  BY <1>3, <1>4, <1>5

LEMMA MonthIsCompared == ASSUME SummaryInv PROVE Summary!ComparisonIsOfTheMonth
<1>1. SUFFICES ASSUME step = "done", got.flagged # None
               PROVE  /\ \E x \in past : got.flagged \in Summary!Flagged(x.table)
                      /\ \E bots \in IF ask.days = 30 THEN {got.fleet.kept}
                                                       ELSE (SUBSET Profiles) \ {{}} :
                           got.month.cost \in Summary!Costs(bots, 30)
  BY DEF Summary!ComparisonIsOfTheMonth, Summary!Compared
<1>2. \E x \in past : got.flagged \in Summary!Flagged(x.table)
  BY <1>1 DEF SummaryInv, GotInv
<1>3. CASE ask.days = 30
  <2>1. got.month = got.fleet /\ IsSummary(got.fleet, 30, past)
    BY <1>1, <1>3 DEF SummaryInv, GotInv, AfterFleet
  <2>2. got.month.cost \in Summary!Costs(got.fleet.kept, 30)
    BY <2>1, CostOfSummary
  <2>3. QED
    BY <1>2, <1>3, <2>2
<1>4. CASE ask.days # 30
  <2>1. IsSummary(got.month, 30, past) /\ got.month.kept # {}
    BY <1>1, <1>4 DEF SummaryInv, GotInv
  <2>2. got.month.cost \in Summary!Costs(got.month.kept, 30)
    BY <2>1, CostOfSummary
  <2>3. got.month.kept \in (SUBSET Profiles) \ {{}}
    BY <2>1 DEF IsSummary
  <2>4. QED
    BY <1>2, <1>4, <2>2, <2>3
<1>5. QED
  BY <1>3, <1>4

\* Without a euro row that counts, the rate makes no difference.
LEMMA RateMakesNoDifference ==
  ASSUME NEW rows, ~Summary!Incomplete(rows, None)
  PROVE  Summary!Monthly(rows, None) = Summary!Monthly(rows, 2)
<1>1. ASSUME NEW r \in rows PROVE Summary!MonthlyUsd(r, None) = Summary!MonthlyUsd(r, 2)
  <2>1. CASE r.period = "none"
    BY <2>1 DEF Summary!MonthlyUsd
  <2>2. CASE r.period # "none"
    <3>1. r.currency = "USD"
      BY <2>2 DEF Summary!Incomplete, Summary!Usd
    <3>2. QED
      BY <3>1 DEF Summary!MonthlyUsd, Summary!Usd
  <2>3. QED
    BY <2>1, <2>2
<1>2. [r \in rows |-> Summary!MonthlyUsd(r, None)] = [r \in rows |-> Summary!MonthlyUsd(r, 2)]
  BY <1>1
<1>3. QED
  BY <1>2 DEF Summary!Monthly

\* No bot is skipped, and no call without a price was found: each bot's cost is
\* the whole of what it has spent at the moment it was read.
LEMMA NothingIsMissing == ASSUME SummaryInv PROVE Summary!UnmarkedIsWhole
<1>1. SUFFICES ASSUME step = "done", ask.profile = All, ~Summary!Marked PROVE Summary!Whole
  BY DEF Summary!UnmarkedIsWhole
<1>2. /\ ~Summary!Incomplete(got.rows, got.rate)
      /\ ~(got.fleet.free > 0) /\ got.fleet.kept = Profiles
      /\ IsSummary(got.fleet, ask.days, past)
      /\ \E x \in past : got.rate = x.rate
      /\ \E x \in past : got.rows = x.table
  BY <1>1 DEF SummaryInv, GotInv, AfterFleet, Summary!Marked
<1>3. Moments(past) /\ ask.days \in Summary!Ranges
  BY DEF SummaryInv, PastInv
<1>4. PICK at \in [Profiles -> past] :
        /\ got.fleet.cost = Summary!AddedUp([b \in Profiles |-> at[b].usage[b][ask.days].cost])
        /\ got.fleet.free = Summary!AddedUp([b \in Profiles |-> at[b].usage[b][ask.days].free])
  BY <1>2 DEF IsSummary
<1> DEFINE cost  == [b \in Profiles |-> at[b].usage[b][ask.days].cost]
           free  == [b \in Profiles |-> at[b].usage[b][ask.days].free]
           whole == [b \in Profiles |-> at[b].usage[b][ask.days].cost
                                        + at[b].usage[b][ask.days].free]
<1>5. cost \in [Profiles -> Nat] /\ free \in [Profiles -> Nat]
  BY <1>3, FigureTyped
<1>6. \A b \in Profiles : free[b] = 0
  <2> HIDE DEF free
  <2>1. Summary!AddedUp(free) \in Nat
    BY <1>5, ProfilesFinite, SumIsStack
  <2>2. Summary!AddedUp(free) = 0
    BY <1>2, <1>4, <2>1 DEF free
  <2>3. QED
    BY <1>5, <2>2, ProfilesFinite, SumOfZeros
<1>7. whole = cost
  <2>1. \A b \in Profiles : cost[b] + free[b] = cost[b]
    <3> HIDE DEF cost, free
    <3>1. QED
      BY <1>5, <1>6
  <2>2. QED
    BY <2>1
<1>8. got.fleet.cost \in Summary!WholeCosts
  BY <1>4, <1>7 DEF Summary!WholeCosts
<1>9. PICK x \in past : got.rows = x.table
  BY <1>2
<1>10. Summary!Monthly(got.rows, got.rate) = Summary!Monthly(x.table, 2)
  <2>1. got.rate \in {None, 2}
    BY <1>2, <1>3 DEF Moments
  <2>2. QED
    BY <1>2, <1>9, <2>1, RateMakesNoDifference
<1>11. Summary!Total = got.fleet.cost + Summary!Monthly(x.table, 2)
  BY <1>10 DEF Summary!Total
<1>12. QED
  BY <1>8, <1>11 DEF Summary!Whole

\* The total of the tiles is fleet-wide whatever bot is selected and whatever
\* changes between the reads of the request (routes.py, cost_summary).
THEOREM TotalOfTheFleet == Spec => []TotalIsFleetWide
<1>1. (part = "summary" => SummaryInv) => TotalIsFleetWide
  BY TotalAddsUp DEF TotalIsFleetWide
<1>2. QED
  BY <1>1, SummarySteps, PTL

\* On the page of all bots, a total without its red mark leaves out no bot, no
\* usage row without a price and no euro row (CostSummary.jsx).
THEOREM UnmarkedMeansWhole == Spec => []UnmarkedIsWhole
<1>1. (part = "summary" => SummaryInv) => UnmarkedIsWhole
  BY NothingIsMissing DEF UnmarkedIsWhole
<1>2. QED
  BY <1>1, SummarySteps, PTL

\* An invoice is compared with thirty days of the fleet, whatever range is on
\* the screen, and it is an invoice that was flagged (routes.py, cost_summary).
THEOREM InvoiceAgainstAMonth == Spec => []ComparisonIsOfTheMonth
<1>1. (part = "summary" => SummaryInv) => ComparisonIsOfTheMonth
  BY MonthIsCompared DEF ComparisonIsOfTheMonth
<1>2. QED
  BY <1>1, SummarySteps, PTL

-----------------------------------------------------------------------------
(* The chart.                                                              *)

\* The units of cost that some rows of a ledger hold.
Units(rows, booked) == {o \in rows \X Nat : 1 <= o[2] /\ o[2] <= booked[o[1]]}

\* What the ticks of a bot have booked by time t.
Booked(b, t, booked) == {k \in DOMAIN booked : k.bot = b /\ k.at <= t}

LedgerTyped(booked, time) ==
  /\ IsFiniteSet(DOMAIN booked)
  /\ booked = [k \in DOMAIN booked |-> booked[k]]
  /\ \A k \in DOMAIN booked :
       booked[k] \in Nat /\ k.bot \in Bots /\ k.at \in 1 .. time

LEMMA GroupsFinite ==
  IsFiniteSet(Bots) /\ IsFiniteSet(Models) /\ None \notin [Models -> Nat] /\ MaxTime \in Nat \ {0}
  BY ChartAssumptions DEF Chart!GroupsAssumption, Chart!IsFiniteSet, IsFiniteSet

LEMMA SumOfLedger ==
  ASSUME NEW booked, NEW time, LedgerTyped(booked, time), NEW rows, rows \subseteq DOMAIN booked
  PROVE  /\ Chart!AddedUp(Chart!Restrict(booked, rows)) = Cardinality(Units(rows, booked))
         /\ IsFiniteSet(Units(rows, booked))
<1> DEFINE f == Chart!Restrict(booked, rows)
<1>1. f \in [rows -> Nat] /\ \A k \in rows : f[k] = booked[k]
  BY DEF LedgerTyped, Chart!Restrict
<1>2. IsFiniteSet(rows)
  BY FS_Subset DEF LedgerTyped
<1> HIDE DEF f
<1>3. Stack(f) = Units(rows, booked)
  BY <1>1 DEF Stack, Units
<1>4. Summary!AddedUp(f) = Cardinality(Stack(f)) /\ IsFiniteSet(Stack(f))
  BY <1>1, <1>2, SumIsStack, StackFinite
<1>5. Chart!AddedUp(f) = Summary!AddedUp(f)
  BY ChartSums
<1>6. QED
  BY <1>3, <1>4, <1>5 DEF f

\* The height of a bar, however the rows of the day are grouped.
LEMMA BarIs ==
  ASSUME LedgerTyped(ledger, now), NEW profile, NEW days, NEW group, NEW day
  PROVE  Chart!Bar(Chart!Points(profile, days, group), day)
           = Cardinality(Units({k \in Chart!Window(profile, days) : Chart!Day(k.at) = day}, ledger))
<1> DEFINE rows     == Chart!Window(profile, days)
           point(k) == <<Chart!Day(k.at), k[group]>>
           at       == [k \in rows |-> point(k)]
           Pts      == Chart!Points(profile, days, group)
           Of(p)    == {k \in rows : point(k) = p}
           today    == {k \in rows : Chart!Day(k.at) = day}
           C        == {p \in DOMAIN Pts : p[1] = day}
           f        == Chart!Restrict(Pts, C)
           B        == Units(today, ledger)
           label    == [o \in B |-> point(o[1])]
<1>1. rows \subseteq DOMAIN ledger
  BY DEF Chart!Window
<1>2. DOMAIN Pts = {point(k) : k \in rows}
  BY DEF Chart!Points
<1>3. \A p \in DOMAIN Pts : Pts[p] = Chart!AddedUp(Chart!Restrict(ledger, Of(p)))
  BY DEF Chart!Points
<1> HIDE DEF rows, Pts
<1>4. IsFiniteSet(C)
  <2>1. IsFiniteSet(rows)
    BY <1>1, FS_Subset DEF LedgerTyped
  <2>2. DOMAIN at = rows /\ {at[k] : k \in rows} = {point(k) : k \in rows}
    OBVIOUS
  <2> HIDE DEF at, point
  <2>3. IsFiniteSet({at[k] : k \in DOMAIN at})
    BY <2>1, <2>2, ImageFinite
  <2>4. IsFiniteSet(DOMAIN Pts)
    BY <1>2, <2>2, <2>3
  <2>5. QED
    BY <2>4, FS_Subset
<1>5. IsFiniteSet(B)
  <2>1. today \subseteq DOMAIN ledger
    BY <1>1
  <2> HIDE DEF today
  <2>2. QED
    BY <2>1, SumOfLedger
<1>6. \A o \in B : o[1] \in rows /\ Chart!Day(o[1].at) = day
  BY DEF Units
<1>7. \A o \in B : label[o] \in C
  BY <1>2, <1>6
<1>8. ASSUME NEW p \in C PROVE f[p] = Cardinality({o \in B : label[o] = p})
  <2>1. f[p] = Chart!AddedUp(Chart!Restrict(ledger, Of(p)))
    BY <1>3 DEF Chart!Restrict
  <2>2. Of(p) \subseteq DOMAIN ledger
    BY <1>1
  <2>3. Chart!AddedUp(Chart!Restrict(ledger, Of(p))) = Cardinality(Units(Of(p), ledger))
    <3> HIDE DEF Of
    <3>1. QED
      BY <2>2, SumOfLedger
  <2>4. {o \in B : label[o] = p} = Units(Of(p), ledger)
    BY DEF Units
  <2>5. QED
    BY <2>1, <2>3, <2>4
<1>9. DOMAIN f = C
  BY DEF Chart!Restrict
<1>10. Chart!Bar(Pts, day) = Chart!AddedUp(f)
  BY DEF Chart!Bar
<1> HIDE DEF f, B, label, C, today, point, Of
<1>11. Summary!AddedUp(f) = Cardinality(B)
  BY <1>4, <1>5, <1>7, <1>8, <1>9, SumIsSize
<1>12. Chart!AddedUp(f) = Summary!AddedUp(f)
  BY ChartSums
<1>13. QED
  BY <1>10, <1>11, <1>12 DEF B, today, Pts, rows

\* The bars up to a day.
LEMMA BarsAre ==
  ASSUME LedgerTyped(ledger, now), NEW profile, NEW days, NEW group, NEW day \in Nat
  PROVE  Chart!AddedUp([d \in 0 .. day |-> Chart!Bar(Chart!Points(profile, days, group), d)])
           = Cardinality(Units({k \in Chart!Window(profile, days) : Chart!Day(k.at) <= day}, ledger))
<1> DEFINE rows  == Chart!Window(profile, days)
           f     == [d \in 0 .. day |-> Chart!Bar(Chart!Points(profile, days, group), d)]
           Of(d) == {k \in rows : Chart!Day(k.at) = d}
           upTo  == {k \in rows : Chart!Day(k.at) <= day}
           B     == Units(upTo, ledger)
           label == [o \in B |-> Chart!Day(o[1].at)]
<1>1. \A d \in 0 .. day : f[d] = Cardinality(Units(Of(d), ledger))
  BY BarIs
<1>2. rows \subseteq DOMAIN ledger
  BY DEF Chart!Window
<1> HIDE DEF rows
<1>3. \A o \in B : o[1] \in rows /\ Chart!Day(o[1].at) <= day
  BY DEF Units
<1>4. \A k \in rows : k.at \in Nat
  BY <1>2 DEF LedgerTyped
<1>5. \A t \in Nat : Chart!Day(t) \in Nat
  BY DEF Chart!Day
<1>6. \A o \in B : label[o] \in 0 .. day
  BY <1>3, <1>4, <1>5
<1>7. ASSUME NEW d \in 0 .. day PROVE f[d] = Cardinality({o \in B : label[o] = d})
  <2>1. {o \in B : label[o] = d} = Units(Of(d), ledger)
    BY DEF Units
  <2>2. QED
    BY <1>1, <2>1
<1>8. IsFiniteSet(B)
  <2>1. upTo \subseteq DOMAIN ledger
    BY <1>2
  <2> HIDE DEF upTo
  <2>2. QED
    BY <2>1, SumOfLedger
<1>9. DOMAIN f = 0 .. day /\ IsFiniteSet(0 .. day)
  BY FS_Interval
<1> HIDE DEF f, B, label
<1>10. Summary!AddedUp(f) = Cardinality(B)
  BY <1>6, <1>7, <1>8, <1>9, SumIsSize
<1>11. Chart!AddedUp(f) = Summary!AddedUp(f)
  BY ChartSums
<1>12. QED
  BY <1>10, <1>11 DEF f, B, upTo, rows

\* What a tick books is what has grown, on the bot and at the time of the tick.
Row(n, b, p, m) == [at |-> n, bot |-> b, model |-> m, platform |-> p]
Had(booked, k) == IF k \in DOMAIN booked THEN booked[k] ELSE 0
After(booked, n, b, p, grown, growth) ==
  [k \in DOMAIN booked \cup {Row(n, b, p, m) : m \in grown} |->
     IF \E m \in grown : k = Row(n, b, p, m)
     THEN Had(booked, k) + growth[k.model] ELSE Had(booked, k)]

LEMMA TickBooks ==
  ASSUME NEW n \in Nat \ {0}, NEW booked, LedgerTyped(booked, n), NEW b \in Bots, NEW p,
         NEW growth \in [Models -> Nat],
         NEW grown \in SUBSET Models, \A m \in Models : m \in grown <=> growth[m] > 0,
         NEW after, after = After(booked, n, b, p, grown, growth)
  PROVE  /\ LedgerTyped(after, n)
         /\ \A c \in Bots, t \in Nat :
              Cardinality(Units(Booked(c, t, after), after)) =
                Cardinality(Units(Booked(c, t, booked), booked))
                  + IF c = b /\ n <= t THEN Summary!AddedUp(growth) ELSE 0
<1> DEFINE row(m) == Row(n, b, p, m)
           news   == {row(m) : m \in grown}
<1>1. \A m \in grown : row(m).at = n /\ row(m).bot = b /\ row(m).model = m
  BY DEF Row
<1>2. \A l, m \in grown : row(l) = row(m) => l = m
  BY <1>1
<1>3. \A k \in DOMAIN booked : k.at \in 1 .. n /\ k.bot \in Bots /\ booked[k] \in Nat
  BY DEF LedgerTyped
<1>4. \A k \in news : k.model \in grown /\ k.at = n /\ k.bot = b /\ row(k.model) = k
  BY <1>1
<1>5. /\ DOMAIN after = DOMAIN booked \cup news
      /\ \A k \in news : after[k] = Had(booked, k) + growth[k.model]
      /\ \A k \in DOMAIN booked \ news : after[k] = booked[k]
      /\ after = [k \in DOMAIN after |-> after[k]]
  BY DEF After, Had
<1>6. \A k : Had(booked, k) \in Nat
  BY <1>3 DEF Had
<1>7. IsFiniteSet(news)
  <2> DEFINE f == [m \in grown |-> row(m)]
  <2>1. DOMAIN f = grown /\ {f[m] : m \in grown} = news
    OBVIOUS
  <2>2. IsFiniteSet(grown)
    BY GroupsFinite, FS_Subset
  <2> HIDE DEF f, news, row
  <2>3. QED
    BY <2>1, <2>2, ImageFinite
<1> HIDE DEF row, news
<1>8. LedgerTyped(after, n)
  <2>1. IsFiniteSet(DOMAIN booked \cup news)
    BY <1>7, FS_Union DEF LedgerTyped
  <2>2. ASSUME NEW k \in DOMAIN booked \cup news
        PROVE  after[k] \in Nat /\ k.bot \in Bots /\ k.at \in 1 .. n
    <3>1. CASE k \in news
      <4>1. growth[k.model] \in Nat
        BY <1>4, <3>1
      <4>2. QED
        BY <1>4, <1>5, <1>6, <3>1, <4>1
    <3>2. CASE k \notin news
      BY <1>3, <1>5, <3>2
    <3>3. QED
      BY <3>1, <3>2
  <2>3. QED
    BY <1>5, <2>1, <2>2 DEF LedgerTyped
<1>9. ASSUME NEW c \in Bots, NEW t \in Nat, ~(c = b /\ n <= t)
      PROVE  Units(Booked(c, t, after), after) = Units(Booked(c, t, booked), booked)
  <2>1. \A k \in news : ~(k.bot = c /\ k.at <= t)
    BY <1>4, <1>9
  <2>2. Booked(c, t, after) = Booked(c, t, booked)
    BY <1>5, <2>1 DEF Booked
  <2>3. \A k \in Booked(c, t, booked) : after[k] = booked[k]
    BY <1>5, <2>1 DEF Booked
  <2>4. QED
    BY <2>2, <2>3 DEF Units
<1>10. ASSUME NEW t \in Nat, n <= t
       PROVE  Cardinality(Units(Booked(b, t, after), after)) =
                Cardinality(Units(Booked(b, t, booked), booked)) + Summary!AddedUp(growth)
  <2> DEFINE K   == Booked(b, t, after)
             f   == [k \in K |-> Had(booked, k)]
             g   == [k \in K |-> IF k \in news THEN growth[k.model] ELSE 0]
             whole == [k \in K |-> after[k]]
             to  == [m \in Models |-> row(m)]
  <2>1. K \subseteq DOMAIN after /\ K = Booked(b, t, booked) \cup news
    BY <1>4, <1>5, <1>10 DEF Booked
  <2>2. IsFiniteSet(K)
    BY <1>8, <2>1, FS_Subset DEF LedgerTyped
  <2>3. f \in [K -> Nat] /\ g \in [K -> Nat] /\ whole \in [K -> Nat]
    <3>1. f \in [K -> Nat]
      BY <1>6
    <3>2. g \in [K -> Nat]
      BY <1>4
    <3>3. whole \in [K -> Nat]
      BY <1>8, <2>1 DEF LedgerTyped
    <3>4. QED
      BY <3>1, <3>2, <3>3
  <2>4. \A k \in K : whole[k] = f[k] + g[k]
    <3>1. ASSUME NEW k \in K PROVE after[k] = Had(booked, k) + IF k \in news THEN growth[k.model] ELSE 0
      <4>1. CASE k \in news
        BY <1>5, <4>1
      <4>2. CASE k \notin news
        <5>1. k \in DOMAIN booked \ news
          BY <1>5, <2>1, <4>2
        <5>2. after[k] = booked[k] /\ Had(booked, k) = booked[k] /\ booked[k] \in Nat
          BY <1>3, <1>5, <5>1 DEF Had
        <5>3. QED
          BY <4>2, <5>2
      <4>3. QED
        BY <4>1, <4>2
    <3> HIDE DEF K
    <3>2. QED
      BY <3>1
  <2>5. Stack(whole) = Units(K, after)
    BY DEF Stack, Units
  <2>6. Stack(f) = Units(Booked(b, t, booked), booked)
    <3>1. \A k \in K : k \in Booked(b, t, booked) \/ f[k] = 0
      BY <1>4, <2>1 DEF Had, Booked
    <3>2. \A k \in Booked(b, t, booked) : k \in K /\ f[k] = booked[k]
      BY <2>1 DEF Had, Booked
    <3>3. DOMAIN f = K
      OBVIOUS
    <3> HIDE DEF f, K
    <3>4. QED
      BY <3>1, <3>2, <3>3 DEF Stack, Units
  <2>7. Summary!AddedUp(growth) = Summary!AddedUp(g)
    <3>1. \A m \in Models : growth[m] > 0 => to[m] \in K /\ g[to[m]] = growth[m]
      <4>1. ASSUME NEW m \in grown PROVE row(m) \in news /\ row(m).model = m
        BY <1>1 DEF news
      <4>2. QED
        BY <2>1, <4>1
    <3>2. \A l, m \in Models : growth[l] > 0 /\ growth[m] > 0 /\ to[l] = to[m] => l = m
      BY <1>2
    <3>3. \A k \in K : g[k] > 0 => \E m \in Models : growth[m] > 0 /\ to[m] = k
      <4>1. ASSUME NEW k \in news PROVE k.model \in grown /\ row(k.model) = k
        BY <1>4
      <4>2. QED
        BY <4>1
    <3>4. IsFiniteSet(Models)
      BY GroupsFinite
    <3> HIDE DEF K, g, to
    <3>5. QED
      BY <2>2, <2>3, <3>1, <3>2, <3>3, <3>4, SumRenamed
  <2> HIDE DEF K, f, g, whole, to
  <2>8. Summary!AddedUp(whole) = Summary!AddedUp(f) + Summary!AddedUp(g)
    <3>1. DOMAIN whole = K
      BY <2>3
    <3>2. QED
      BY <2>2, <2>3, <2>4, <3>1, SumOfSums
  <2>9. /\ Summary!AddedUp(whole) = Cardinality(Stack(whole))
        /\ Summary!AddedUp(f) = Cardinality(Stack(f))
    BY <2>2, <2>3, SumIsStack
  <2>10. QED
    BY <2>5, <2>6, <2>7, <2>8, <2>9 DEF K
<1>11. ASSUME NEW c \in Bots, NEW t \in Nat
       PROVE  Cardinality(Units(Booked(c, t, booked), booked)) \in Nat
  <2>1. Booked(c, t, booked) \subseteq DOMAIN booked
    BY DEF Booked
  <2>2. IsFiniteSet(Units(Booked(c, t, booked), booked))
    BY <2>1, SumOfLedger
  <2>3. QED
    BY <2>2, FS_CardinalityType
<1>12. ASSUME NEW c \in Bots, NEW t \in Nat
       PROVE  Cardinality(Units(Booked(c, t, after), after)) =
                Cardinality(Units(Booked(c, t, booked), booked))
                  + IF c = b /\ n <= t THEN Summary!AddedUp(growth) ELSE 0
  <2>1. CASE c = b /\ n <= t
    BY <1>10, <2>1
  <2>2. CASE ~(c = b /\ n <= t)
    BY <1>9, <1>11, <2>2
  <2>3. QED
    BY <2>1, <2>2
<1>13. QED
  BY <1>8, <1>12

\* The ledger holds, bot by bot, what its ticks have found since it was seeded,
\* at the time they found it; a bot without a mark has nothing in it.
ChartInv ==
  /\ now \in Chart!Times
  /\ spent \in [Bots -> [Models -> Nat]]
  /\ mark \in [Bots -> [Models -> Nat] \cup {None}]
  /\ LedgerTyped(ledger, now)
  /\ observed \in [Bots -> [{0} \cup Chart!Times -> Nat]]
  /\ \A b \in Bots :
       IF mark[b] = None
       THEN \A k \in DOMAIN ledger : k.bot # b
       ELSE /\ \A m \in Models : mark[b][m] <= spent[b][m]
            /\ \A t \in Chart!Times : now <= t => observed[b][t] = Chart!AddedUp(mark[b])
  /\ \A b \in Bots, t \in {0} \cup Chart!Times :
       observed[b][t] = observed[b][0] + Cardinality(Units(Booked(b, t, ledger), ledger))

LEMMA NothingBooked ==
  ASSUME NEW b, NEW t, NEW booked, \A k \in DOMAIN booked : k.bot # b
  PROVE  Cardinality(Units(Booked(b, t, booked), booked)) = 0
<1>1. Units(Booked(b, t, booked), booked) = {}
  BY DEF Units, Booked
<1>2. QED
  BY <1>1, FS_EmptySet

LEMMA ChartInit == ASSUME Chart!Init PROVE ChartInv
<1>1. now = 1 /\ 1 \in Chart!Times
  BY GroupsFinite DEF Chart!Init, Chart!Times
<1>2. spent \in [Bots -> [Models -> Nat]] /\ mark = [b \in Bots |-> None]
  BY DEF Chart!Init
<1>3. observed = [b \in Bots |-> [t \in {0} \cup Chart!Times |-> 0]]
  BY DEF Chart!Init
<1>4. DOMAIN ledger = {} /\ ledger = [k \in DOMAIN ledger |-> ledger[k]]
  BY DEF Chart!Init
<1>5. LedgerTyped(ledger, now)
  BY <1>4, FS_EmptySet DEF LedgerTyped
<1>6. \A b \in Bots, t \in {0} \cup Chart!Times :
        Cardinality(Units(Booked(b, t, ledger), ledger)) = 0
  BY <1>4, NothingBooked
<1>7. QED
  BY <1>1, <1>2, <1>3, <1>4, <1>5, <1>6 DEF ChartInv

LEMMA PassStep == ASSUME ChartInv, Chart!Pass PROVE ChartInv'
<1>1. now' = now + 1 /\ now' \in Chart!Times /\ UNCHANGED <<spent, mark, ledger, observed>>
  BY GroupsFinite DEF ChartInv, Chart!Pass, Chart!Times
<1>2. LedgerTyped(ledger, now')
  BY <1>1 DEF ChartInv, LedgerTyped, Chart!Times
<1>3. now \in Nat
  BY DEF ChartInv, Chart!Times
<1>4. \A b \in Bots :
        mark[b] # None =>
          \A t \in Chart!Times : now' <= t => observed[b][t] = Chart!AddedUp(mark[b])
  BY <1>1, <1>3 DEF ChartInv, Chart!Times
<1>5. QED
  BY <1>1, <1>2, <1>4 DEF ChartInv

LEMMA CallStep ==
  ASSUME ChartInv, NEW b \in Bots, NEW m \in Models, Chart!Call(b, m) PROVE ChartInv'
<1>1. /\ spent' = [spent EXCEPT ![b][m] = @ + 1]
      /\ UNCHANGED <<now, mark, ledger, observed>>
  BY DEF Chart!Call
<1>2. spent' \in [Bots -> [Models -> Nat]]
  BY <1>1 DEF ChartInv
<1>3. \A c \in Bots, l \in Models : spent[c][l] <= spent'[c][l]
  BY <1>1 DEF ChartInv
<1>4. \A c \in Bots : mark[c] # None => \A l \in Models : mark[c][l] <= spent'[c][l]
  <2>1. ASSUME NEW c \in Bots, mark[c] # None, NEW l \in Models PROVE mark[c][l] <= spent'[c][l]
    <3>1. mark[c] \in [Models -> Nat] /\ mark[c][l] <= spent[c][l]
      BY <2>1 DEF ChartInv
    <3>2. mark[c][l] \in Nat /\ spent[c][l] \in Nat /\ spent'[c][l] \in Nat
      BY <1>2, <3>1 DEF ChartInv
    <3>3. QED
      BY <1>3, <3>1, <3>2
  <2>2. QED
    BY <2>1
<1>5. QED
  BY <1>1, <1>2, <1>4 DEF ChartInv

LEMMA TickStep == ASSUME ChartInv, NEW b \in Bots, Chart!Tick(b) PROVE ChartInv'
<1> DEFINE grown == IF mark[b] = None THEN {} ELSE {m \in Models : spent[b][m] > mark[b][m]}
           found == Chart!AddedUp(spent[b])
<1>1. /\ mark' = [mark EXCEPT ![b] = spent[b]]
      /\ observed' = [observed EXCEPT ![b] = [t \in {0} \cup Chart!Times |->
                        IF mark[b] # None /\ t < now THEN observed[b][t] ELSE found]]
      /\ UNCHANGED <<now, spent>>
  BY DEF Chart!Tick
<1>2. ledger' = [k \in DOMAIN ledger \cup {Row(now, b, platform[b], m) : m \in grown} |->
                   IF \E m \in grown : k = Row(now, b, platform[b], m)
                   THEN Had(ledger, k) + (spent[b][k.model] - mark[b][k.model])
                   ELSE Had(ledger, k)]
  BY DEF Chart!Tick, Row, Had
<1>3. now \in Nat \ {0} /\ now \in Chart!Times
  BY DEF ChartInv, Chart!Times
<1>4. spent[b] \in [Models -> Nat] /\ spent[b] # None
  BY GroupsFinite DEF ChartInv
<1>5. found = Summary!AddedUp(spent[b]) /\ found \in Nat
  BY <1>4, GroupsFinite, SumIsStack, ChartSums
<1> HIDE DEF found
<1>6. /\ mark' \in [Bots -> [Models -> Nat] \cup {None}] /\ mark'[b] = spent[b]
      /\ \A c \in Bots : c # b => mark'[c] = mark[c]
  BY <1>1, <1>4 DEF ChartInv
<1>7. /\ observed' \in [Bots -> [{0} \cup Chart!Times -> Nat]]
      /\ \A c \in Bots : c # b => observed'[c] = observed[c]
      /\ \A t \in {0} \cup Chart!Times :
           observed'[b][t] = IF mark[b] # None /\ t < now THEN observed[b][t] ELSE found
  BY <1>1, <1>5 DEF ChartInv
<1>8. CASE mark[b] = None
  <2>1. ledger' = ledger
    <3>1. ledger' = [k \in DOMAIN ledger |-> Had(ledger, k)]
      BY <1>2, <1>8
    <3>2. \A k \in DOMAIN ledger : Had(ledger, k) = ledger[k]
      BY DEF Had
    <3>3. ledger = [k \in DOMAIN ledger |-> ledger[k]]
      BY DEF ChartInv, LedgerTyped
    <3>4. QED
      BY <3>1, <3>2, <3>3
  <2>2. \A k \in DOMAIN ledger : k.bot # b
    BY <1>8 DEF ChartInv
  <2>3. \A t : Cardinality(Units(Booked(b, t, ledger), ledger)) = 0
    BY <2>2, NothingBooked
  <2>4. \A t \in {0} \cup Chart!Times : observed'[b][t] = found
    BY <1>7, <1>8
  <2>5. \A c \in Bots :
          IF mark'[c] = None
          THEN \A k \in DOMAIN ledger : k.bot # c
          ELSE /\ \A m \in Models : mark'[c][m] <= spent[c][m]
               /\ \A t \in Chart!Times : now <= t => observed'[c][t] = Chart!AddedUp(mark'[c])
    <3>1. ASSUME NEW c \in Bots, c # b
          PROVE  IF mark'[c] = None
                 THEN \A k \in DOMAIN ledger : k.bot # c
                 ELSE /\ \A m \in Models : mark'[c][m] <= spent[c][m]
                      /\ \A t \in Chart!Times : now <= t => observed'[c][t] = Chart!AddedUp(mark'[c])
      BY <1>6, <1>7, <3>1 DEF ChartInv
    <3>2. /\ mark'[b] # None /\ \A m \in Models : mark'[b][m] <= spent[b][m]
          /\ \A t \in Chart!Times : observed'[b][t] = Chart!AddedUp(mark'[b])
      <4>1. \A m \in Models : spent[b][m] <= spent[b][m]
        BY <1>4
      <4>2. QED
        BY <1>4, <1>6, <2>4, <4>1 DEF found
    <3>3. QED
      BY <3>1, <3>2
  <2>6. \A c \in Bots, t \in {0} \cup Chart!Times :
          observed'[c][t] = observed'[c][0] + Cardinality(Units(Booked(c, t, ledger), ledger))
    <3>1. ASSUME NEW c \in Bots, c # b, NEW t \in {0} \cup Chart!Times
          PROVE  observed'[c][t] = observed'[c][0] + Cardinality(Units(Booked(c, t, ledger), ledger))
      BY <1>7, <3>1 DEF ChartInv
    <3>2. ASSUME NEW t \in {0} \cup Chart!Times
          PROVE  observed'[b][t] = observed'[b][0] + Cardinality(Units(Booked(b, t, ledger), ledger))
      <4>1. observed'[b][t] = found /\ observed'[b][0] = found
        BY <2>4
      <4>2. QED
        BY <1>5, <2>3, <4>1
    <3>3. QED
      BY <3>1, <3>2
  <2>7. QED
    BY <1>1, <1>6, <1>7, <2>1, <2>5, <2>6 DEF ChartInv
<1>9. CASE mark[b] # None
  <2> DEFINE growth == [m \in Models |-> spent[b][m] - mark[b][m]]
             more(c, t) == IF c = b /\ now <= t THEN Summary!AddedUp(growth) ELSE 0
  <2>1. mark[b] \in [Models -> Nat] /\ \A m \in Models : mark[b][m] <= spent[b][m]
    BY <1>9 DEF ChartInv
  <2>2. growth \in [Models -> Nat] /\ \A m \in Models : spent[b][m] = mark[b][m] + growth[m]
    <3>1. \A m \in Models : spent[b][m] \in Nat /\ mark[b][m] \in Nat /\ mark[b][m] <= spent[b][m]
      BY <1>4, <2>1
    <3>2. QED
      BY <3>1
  <2>3. grown \in SUBSET Models /\ \A m \in Models : m \in grown <=> growth[m] > 0
    <3>1. \A m \in Models : spent[b][m] \in Nat /\ mark[b][m] \in Nat
      BY <1>4, <2>1
    <3>2. QED
      BY <1>9, <3>1
  <2>4. ledger' = After(ledger, now, b, platform[b], grown, growth)
    <3>1. \A k : (\E m \in grown : k = Row(now, b, platform[b], m)) =>
                   growth[k.model] = spent[b][k.model] - mark[b][k.model]
      BY <2>3 DEF Row
    <3> HIDE DEF growth, grown
    <3>2. QED
      BY <1>2, <3>1 DEF After
  <2> HIDE DEF growth, grown
  <2>5. /\ LedgerTyped(ledger', now)
        /\ \A c \in Bots, t \in Nat :
             Cardinality(Units(Booked(c, t, ledger'), ledger')) =
               Cardinality(Units(Booked(c, t, ledger), ledger)) + more(c, t)
    <3>1. LedgerTyped(ledger, now)
      BY DEF ChartInv
    <3>2. LedgerTyped(ledger', now) /\ \A c \in Bots, t \in Nat :
             Cardinality(Units(Booked(c, t, ledger'), ledger')) =
               Cardinality(Units(Booked(c, t, ledger), ledger))
                 + IF c = b /\ now <= t THEN Summary!AddedUp(growth) ELSE 0
      BY <1>3, <2>2, <2>3, <2>4, <3>1, TickBooks
    <3>3. QED
      BY <3>2
  <2>6. found = Chart!AddedUp(mark[b]) + Summary!AddedUp(growth)
    <3>1. Summary!AddedUp(spent[b]) = Summary!AddedUp(mark[b]) + Summary!AddedUp(growth)
      <4>1. DOMAIN spent[b] = Models
        BY <1>4
      <4>2. QED
        BY <2>1, <2>2, <4>1, GroupsFinite, SumOfSums
    <3>2. QED
      BY <1>5, <3>1, ChartSums
  <2>7. \A c \in Bots, t \in {0} \cup Chart!Times :
          observed'[c][t] = observed'[c][0] + Cardinality(Units(Booked(c, t, ledger'), ledger'))
    <3>1. ASSUME NEW c \in Bots, NEW t \in {0} \cup Chart!Times
          PROVE  observed'[c][t] = observed'[c][0] + Cardinality(Units(Booked(c, t, ledger'), ledger'))
      <4> DEFINE old == Cardinality(Units(Booked(c, t, ledger), ledger))
                 new == Cardinality(Units(Booked(c, t, ledger'), ledger'))
      <4>1. t \in Nat /\ 0 < now
        BY <1>3 DEF Chart!Times
      <4>2. new = old + more(c, t) /\ observed[c][t] = observed[c][0] + old
        BY <2>5, <4>1 DEF ChartInv
      <4>3. observed'[c][0] = observed[c][0]
        BY <1>7, <1>9, <4>1
      <4>4. observed[c][0] \in Nat /\ Summary!AddedUp(growth) \in Nat /\ old \in Nat
        <5>1. Booked(c, t, ledger) \subseteq DOMAIN ledger
          BY DEF Booked
        <5>2. IsFiniteSet(Units(Booked(c, t, ledger), ledger))
          BY <5>1, SumOfLedger DEF ChartInv
        <5>3. old \in Nat
          BY <5>2, FS_CardinalityType
        <5>4. Summary!AddedUp(growth) \in Nat
          BY <2>2, GroupsFinite, SumIsStack
        <5>5. QED
          BY <5>3, <5>4 DEF ChartInv
      <4> HIDE DEF old, new
      <4>5. CASE c = b /\ now <= t
        <5>1. observed[b][t] = Chart!AddedUp(mark[b])
          BY <1>3, <1>9, <4>1, <4>5 DEF ChartInv, Chart!Times
        <5>2. observed'[b][t] = found
          BY <1>3, <1>7, <4>1, <4>5
        <5>3. more(c, t) = Summary!AddedUp(growth)
          BY <4>5
        <5> HIDE DEF more
        <5>4. observed'[c][t] = observed'[c][0] + new
          BY <2>6, <4>2, <4>3, <4>4, <4>5, <5>1, <5>2, <5>3
        <5>5. QED
          BY <5>4 DEF new
      <4>6. CASE ~(c = b /\ now <= t)
        <5>1. observed'[c][t] = observed[c][t]
          BY <1>3, <1>7, <1>9, <4>1, <4>6
        <5>2. more(c, t) = 0
          BY <4>6
        <5> HIDE DEF more
        <5>3. observed'[c][t] = observed'[c][0] + new
          BY <4>2, <4>3, <4>4, <5>1, <5>2
        <5>4. QED
          BY <5>3 DEF new
      <4>7. QED
        BY <4>5, <4>6
    <3>2. QED
      BY <3>1
  <2>8. \A c \in Bots :
          IF mark'[c] = None
          THEN \A k \in DOMAIN ledger' : k.bot # c
          ELSE /\ \A m \in Models : mark'[c][m] <= spent[c][m]
               /\ \A t \in Chart!Times : now <= t => observed'[c][t] = Chart!AddedUp(mark'[c])
    <3>1. ASSUME NEW c \in Bots, c # b
          PROVE  IF mark'[c] = None
                 THEN \A k \in DOMAIN ledger' : k.bot # c
                 ELSE /\ \A m \in Models : mark'[c][m] <= spent[c][m]
                      /\ \A t \in Chart!Times : now <= t => observed'[c][t] = Chart!AddedUp(mark'[c])
      <4>1. \A k \in DOMAIN ledger' : k \in DOMAIN ledger \/ k.bot = b
        BY <1>2 DEF Row
      <4>2. QED
        BY <1>6, <1>7, <3>1, <4>1 DEF ChartInv
    <3>2. /\ mark'[b] # None /\ \A m \in Models : mark'[b][m] <= spent[b][m]
          /\ \A t \in Chart!Times : now <= t => observed'[b][t] = Chart!AddedUp(mark'[b])
      <4>1. \A m \in Models : spent[b][m] <= spent[b][m]
        BY <1>4
      <4>2. \A t \in Chart!Times : now <= t => observed'[b][t] = found
        BY <1>3, <1>7 DEF Chart!Times
      <4>3. QED
        BY <1>4, <1>6, <4>1, <4>2 DEF found
    <3>3. QED
      BY <3>1, <3>2
  <2>9. QED
    BY <1>1, <1>6, <1>7, <2>5, <2>7, <2>8 DEF ChartInv
<1>10. QED
  BY <1>8, <1>9

LEMMA ChartSteps == Spec => [](part = "chart" => ChartInv)
<1> DEFINE Inv == part = "chart" => ChartInv
<1>1. Init => Inv
  BY ChartInit DEF Init
<1>2. Inv /\ [Next]_vars => Inv'
  <2>1. SUFFICES ASSUME Inv, [Next]_vars, part' = "chart" PROVE ChartInv'
    OBVIOUS
  <2>2. CASE part = "chart" /\ Chart!Next
    <3>1. ChartInv
      BY <2>1, <2>2
    <3>2. CASE Chart!Pass
      BY <3>1, <3>2, PassStep
    <3>3. CASE \E b \in Bots : Chart!Tick(b)
      BY <3>1, <3>3, TickStep
    <3>4. CASE \E b \in Bots : Chart!Prune(b)
      BY <3>1, <3>4 DEF Chart!Prune, ChartInv
    <3>5. CASE \E b \in Bots : \E m \in Models : Chart!Call(b, m)
      BY <3>1, <3>5, CallStep
    <3>6. QED
      BY <2>2, <3>2, <3>3, <3>4, <3>5 DEF Chart!Next
  <2>3. CASE UNCHANGED <<part, chart>>
    <3>1. ChartInv
      BY <2>1, <2>3
    <3>2. UNCHANGED <<now, spent, mark, ledger, observed>>
      BY <2>3 DEF chart
    <3>3. QED
      BY <3>1, <3>2 DEF ChartInv
  <2>4. QED
    BY <2>1, <2>2, <2>3 DEF Next, vars
<1>3. QED
  BY <1>1, <1>2, PTL DEF Spec

\* What a bot's ticks of the window have found by the end of a day is what the
\* window holds of the bot up to that day.
LEMMA FoundInWindow ==
  ASSUME ChartInv, NEW profile \in Bots \cup {All}, NEW b \in Chart!BotsOf(profile),
         NEW days \in Nat, NEW day \in Nat, Chart!Day(now) <= day + days
  PROVE  observed[b][Chart!Min({2 * day + 1, now})]
           - observed[b][IF now > 2 * days THEN now - 2 * days - 1 ELSE 0] =
         Cardinality(Units({k \in Chart!Window(profile, days) :
                              Chart!Day(k.at) <= day /\ k.bot = b}, ledger))
<1> DEFINE until == Chart!Min({2 * day + 1, now})
           from  == IF now > 2 * days THEN now - 2 * days - 1 ELSE 0
           seen  == {k \in Chart!Window(profile, days) : Chart!Day(k.at) <= day /\ k.bot = b}
           Till(t) == Units(Booked(b, t, ledger), ledger)
<1>1. now \in Nat /\ 1 <= now /\ now <= MaxTime /\ MaxTime \in Nat
  BY GroupsFinite DEF ChartInv, Chart!Times
<1>2. until \in Nat /\ 1 <= until /\ until <= now /\ until <= 2 * day + 1
                  /\ (until = now \/ until = 2 * day + 1)
  <2> DEFINE S == {2 * day + 1, now}
             least == IF 2 * day + 1 <= now THEN 2 * day + 1 ELSE now
  <2>1. least \in S /\ \A y \in S : least <= y
    BY <1>1
  <2>2. Chart!Min(S) = CHOOSE x \in S : \A y \in S : x <= y
    BY DEF Chart!Min
  <2>3. Chart!Min(S) \in S /\ \A y \in S : Chart!Min(S) <= y
    <3> HIDE DEF S, least
    <3>1. QED
      BY <2>1, <2>2
  <2>4. QED
    BY <1>1, <2>3
<1>3. \A t \in Nat : 2 * Chart!Day(t) <= t /\ t <= 2 * Chart!Day(t) + 1 /\ Chart!Day(t) \in Nat
  BY DEF Chart!Day
<1>4. from \in Nat /\ from <= until
  <2>1. now <= 2 * (day + days) + 1
    BY <1>1, <1>3
  <2>2. QED
    BY <1>1, <1>2, <2>1
<1>5. b \in Bots
  BY DEF Chart!BotsOf
<1>6. {from, until} \subseteq {0} \cup Chart!Times
  BY <1>1, <1>2, <1>4 DEF Chart!Times
<1> HIDE DEF until
<1>7. seen \subseteq DOMAIN ledger /\ \A k \in DOMAIN ledger : k.at \in Nat /\ 1 <= k.at /\ k.at <= now
  BY <1>1 DEF Chart!Window, ChartInv, LedgerTyped
<1>8. \A k \in DOMAIN ledger : Chart!Day(k.at) <= day <=> k.at <= until
  <2>1. ASSUME NEW k \in DOMAIN ledger PROVE Chart!Day(k.at) <= day <=> k.at <= until
    <3> DEFINE d == Chart!Day(k.at)
               t == k.at
    <3>1. t \in Nat /\ t <= now /\ d \in Nat /\ 2 * d <= t /\ t <= 2 * d + 1
      BY <1>3, <1>7
    <3> HIDE DEF d, t
    <3>2. d <= day <=> t <= until
      BY <1>1, <1>2, <3>1
    <3>3. QED
      BY <3>2 DEF d, t
  <2>2. QED
    BY <2>1
<1>9. \A k \in DOMAIN ledger : k.at + 2 * days >= now <=> k.at > from
  BY <1>1, <1>7
<1>10. seen = {k \in DOMAIN ledger : k.bot = b /\ k.at <= until /\ k.at > from}
  <2>1. seen = {k \in DOMAIN ledger : k.bot = b /\ k.at + 2 * days >= now /\ Chart!Day(k.at) <= day}
    BY DEF Chart!Window
  <2> HIDE DEF seen, from
  <2>2. QED
    BY <1>8, <1>9, <2>1
<1> HIDE DEF seen, from
<1>11. /\ Till(until) = Till(from) \cup Units(seen, ledger)
       /\ Till(from) \cap Units(seen, ledger) = {}
  <2>1. /\ Booked(b, until, ledger) = Booked(b, from, ledger) \cup seen
        /\ Booked(b, from, ledger) \cap seen = {}
    <3>1. Booked(b, until, ledger) = {k \in DOMAIN ledger : k.bot = b /\ k.at <= until}
      BY DEF Booked
    <3>2. Booked(b, from, ledger) = {k \in DOMAIN ledger : k.bot = b /\ k.at <= from}
      BY DEF Booked
    <3>3. seen \subseteq Booked(b, until, ledger) /\ \A k \in seen : k \notin Booked(b, from, ledger)
      BY <1>4, <1>7, <1>10, <3>1, <3>2
    <3>4. Booked(b, from, ledger) \subseteq Booked(b, until, ledger)
      BY <1>2, <1>4, <1>7, <3>1, <3>2
    <3>5. \A k \in Booked(b, until, ledger) : k \in Booked(b, from, ledger) \/ k \in seen
      BY <1>2, <1>4, <1>7, <1>10, <3>1, <3>2
    <3>6. QED
      BY <3>3, <3>4, <3>5
  <2>2. QED
    BY <2>1 DEF Units
<1>12. IsFiniteSet(Till(from)) /\ IsFiniteSet(Units(seen, ledger))
  <2>1. LedgerTyped(ledger, now) /\ Booked(b, from, ledger) \subseteq DOMAIN ledger
    BY DEF ChartInv, Booked
  <2>2. QED
    BY <1>7, <2>1, SumOfLedger
<1>13. /\ observed[b][until] = observed[b][0] + Cardinality(Till(until))
       /\ observed[b][from] = observed[b][0] + Cardinality(Till(from))
       /\ observed[b][0] \in Nat
  BY <1>5, <1>6 DEF ChartInv
<1> HIDE DEF Till
<1>14. Cardinality(Till(until)) = Cardinality(Till(from)) + Cardinality(Units(seen, ledger))
  <2>1. Cardinality(Till(from) \cup Units(seen, ledger)) =
          Cardinality(Till(from)) + Cardinality(Units(seen, ledger))
            - Cardinality(Till(from) \cap Units(seen, ledger))
    BY <1>12, FS_Union
  <2>2. Cardinality(Till(from) \cap Units(seen, ledger)) = 0
    BY <1>11, FS_EmptySet
  <2>3. Cardinality(Till(from)) \in Nat /\ Cardinality(Units(seen, ledger)) \in Nat
    BY <1>12, FS_CardinalityType
  <2>4. QED
    BY <1>11, <2>1, <2>2, <2>3
<1>15. Cardinality(Till(from)) \in Nat /\ Cardinality(Units(seen, ledger)) \in Nat
  BY <1>12, FS_CardinalityType
<1>16. observed[b][until] - observed[b][from] = Cardinality(Units(seen, ledger))
  BY <1>13, <1>14, <1>15
<1>17. QED
  BY <1>16 DEF until, from, seen

LEMMA BarsAreFound == ASSUME ChartInv PROVE Chart!ChartIsTheSpend
<1> SUFFICES ASSUME NEW profile \in Bots \cup {All}, NEW days \in 1 .. Chart!Day(MaxTime) + 1,
                    NEW group \in {"model", "platform"}, NEW day \in 0 .. Chart!Day(now),
                    Chart!Day(now) <= day + days
             PROVE  Chart!AddedUp([d \in 0 .. day |->
                                     Chart!Bar(Chart!Points(profile, days, group), d)]) =
                    Chart!AddedUp([b \in Chart!BotsOf(profile) |->
                      observed[b][Chart!Min({2 * day + 1, now})]
                        - observed[b][IF now > 2 * days THEN now - 2 * days - 1 ELSE 0]])
  BY DEF Chart!ChartIsTheSpend
<1> DEFINE C     == Chart!BotsOf(profile)
           upTo  == {k \in Chart!Window(profile, days) : Chart!Day(k.at) <= day}
           B     == Units(upTo, ledger)
           label == [o \in B |-> o[1].bot]
           f     == [b \in C |-> observed[b][Chart!Min({2 * day + 1, now})]
                      - observed[b][IF now > 2 * days THEN now - 2 * days - 1 ELSE 0]]
<1>1. LedgerTyped(ledger, now) /\ days \in Nat /\ day \in Nat
  BY DEF ChartInv
<1>2. Chart!AddedUp([d \in 0 .. day |-> Chart!Bar(Chart!Points(profile, days, group), d)])
        = Cardinality(B)
  BY <1>1, BarsAre
<1>3. upTo \subseteq DOMAIN ledger /\ \A k \in upTo : k.bot \in C
  BY DEF Chart!Window
<1>4. IsFiniteSet(C)
  <2>1. C \subseteq Bots
    BY DEF Chart!BotsOf
  <2> HIDE DEF C
  <2>2. QED
    BY <2>1, GroupsFinite, FS_Subset
<1>5. \A b \in C : f[b] = Cardinality(Units({k \in upTo : k.bot = b}, ledger))
  <2>1. ASSUME NEW b \in C PROVE f[b] = Cardinality(Units({k \in upTo : k.bot = b}, ledger))
    <3>1. {k \in upTo : k.bot = b} =
            {k \in Chart!Window(profile, days) : Chart!Day(k.at) <= day /\ k.bot = b}
      OBVIOUS
    <3>2. f[b] = Cardinality(Units({k \in Chart!Window(profile, days) :
                                      Chart!Day(k.at) <= day /\ k.bot = b}, ledger))
      BY <1>1, FoundInWindow
    <3>3. QED
      BY <3>1, <3>2
  <2>2. QED
    BY <2>1
<1>6. DOMAIN f = C
  OBVIOUS
<1> HIDE DEF upTo, C, f
<1>7. IsFiniteSet(B)
  BY <1>1, <1>3, SumOfLedger
<1>8. \A o \in B : label[o] \in C
  BY <1>3 DEF Units
<1>9. ASSUME NEW b \in C PROVE f[b] = Cardinality({o \in B : label[o] = b})
  <2>1. {o \in B : label[o] = b} = Units({k \in upTo : k.bot = b}, ledger)
    BY DEF Units
  <2>2. QED
    BY <1>5, <2>1
<1> HIDE DEF B, label
<1>10. Summary!AddedUp(f) = Cardinality(B)
  BY <1>4, <1>6, <1>7, <1>8, <1>9, SumIsSize
<1>11. Chart!AddedUp(f) = Summary!AddedUp(f)
  BY ChartSums
<1>12. QED
  BY <1>2, <1>10, <1>11 DEF f, C

\* Whatever is spent, ticked and pruned when, and however the rows are grouped:
\* the bars of the chart up to any day add up to what the ticks of the window
\* have found by then (ledger_store.py, apply_tick and timeseries; CostChart.jsx).
THEOREM BarsAreTheSpend == Spec => []ChartIsTheSpend
<1>1. (part = "chart" => ChartInv) => ChartIsTheSpend
  BY BarsAreFound DEF ChartIsTheSpend
<1>2. QED
  BY <1>1, ChartSteps, PTL

-----------------------------------------------------------------------------
(* The panels with money.                                                  *)

LEMMA MergeSums == ASSUME NEW f PROVE Merge!AddedUp(f) = Summary!AddedUp(f)
<1>1. Merge!AddedUp(f) = (CHOOSE h : IsTotal(h, f, DOMAIN f))[DOMAIN f]
  BY Zenon DEF Merge!AddedUp, Merge!MapThenSumSet, Merge!MapThenFoldSet, IsTotal, Unfolded, Pick
<1>2. QED
  BY <1>1, SumUnfolds

\* A sum, part by part.
LEMMA SumOfParts ==
  ASSUME NEW K, IsFiniteSet(K), NEW f \in [K -> Nat],
         NEW C, IsFiniteSet(C), NEW label, \A k \in K : label[k] \in C,
         NEW g, DOMAIN g = C,
         \A c \in C : g[c] = Summary!AddedUp([k \in {j \in K : label[j] = c} |-> f[k]])
  PROVE  Summary!AddedUp(g) = Summary!AddedUp(f)
<1> DEFINE Of(c)  == {j \in K : label[j] = c}
           share(c) == [k \in Of(c) |-> f[k]]
           tag    == [o \in Stack(f) |-> label[o[1]]]
<1>1. IsFiniteSet(Stack(f)) /\ Summary!AddedUp(f) = Cardinality(Stack(f))
  BY StackFinite, SumIsStack
<1>2. \A o \in Stack(f) : tag[o] \in C
  BY DEF Stack
<1>3. ASSUME NEW c \in C PROVE g[c] = Cardinality({o \in Stack(f) : tag[o] = c})
  <2>1. IsFiniteSet(Of(c)) /\ share(c) \in [Of(c) -> Nat]
    BY FS_Subset
  <2>2. {o \in Stack(f) : tag[o] = c} = Stack(share(c))
    BY DEF Stack
  <2>3. g[c] = Summary!AddedUp(share(c))
    OBVIOUS
  <2> HIDE DEF Of, share, tag
  <2>4. Summary!AddedUp(share(c)) = Cardinality(Stack(share(c)))
    BY <2>1, SumIsStack
  <2>5. QED
    BY <2>2, <2>3, <2>4
<1> HIDE DEF tag, share, Of
<1>4. Summary!AddedUp(g) = Cardinality(Stack(f))
  BY <1>1, <1>2, <1>3, SumIsSize
<1>5. QED
  BY <1>1, <1>4

\* An idle row has cost nothing.
UsageRow ==
  {r \in [calls : Nat, cost : Nat, recent : BOOLEAN] : r.calls = 0 => r.cost = 0}

MergeInv ==
  /\ usage \in [Bots -> [Sessions -> [Models -> UsageRow \cup {None}]]]
  /\ session \in [Bots -> [Sessions -> [platform : Platforms \cup {None}, messages : Nat]]]
  /\ readable \subseteq Bots

LEMMA MergeInit == ASSUME Merge!Init PROVE MergeInv
<1>1. session \in [Bots -> [Sessions -> [platform : Platforms, messages : {1}]]]
  BY DEF Merge!Init
<1>2. [platform : Platforms, messages : {1}] \subseteq [platform : Platforms \cup {None}, messages : Nat]
  OBVIOUS
<1>3. session \in [Bots -> [Sessions -> [platform : Platforms \cup {None}, messages : Nat]]]
  BY <1>1, <1>2
<1>4. QED
  BY <1>3 DEF Merge!Init, MergeInv

LEMMA MergeStep == ASSUME MergeInv, Merge!Next PROVE MergeInv'
<1>1. PICK b \in Bots :
        \/ Merge!Flip(b)
        \/ \E s \in Sessions :
             \/ Merge!Message(b, s) \/ Merge!Prune(b, s)
             \/ \E m \in Models : \/ Merge!Open(b, s, m) \/ Merge!Age(b, s, m)
                                 \/ \E price \in 0 .. 1 : Merge!Call(b, s, m, price)
  BY DEF Merge!Next
<1>2. CASE Merge!Flip(b)
  BY <1>2 DEF Merge!Flip, MergeInv
<1>3. ASSUME NEW s \in Sessions, Merge!Message(b, s) PROVE MergeInv'
  <2> DEFINE Talk == [platform : Platforms \cup {None}, messages : Nat]
             told == [session[b][s] EXCEPT !.messages = session[b][s].messages + 1]
  <2>1. session[b][s] \in Talk
    BY DEF MergeInv
  <2>2. told \in Talk
    BY <2>1
  <2>3. session' = [session EXCEPT ![b][s] = told]
    BY <1>3, Zenon DEF Merge!Message
  <2> HIDE DEF told
  <2>4. session' \in [Bots -> [Sessions -> Talk]]
    BY <2>2, <2>3 DEF MergeInv
  <2>5. QED
    BY <1>3, <2>4 DEF Merge!Message, MergeInv
<1>4. ASSUME NEW s \in Sessions, Merge!Prune(b, s) PROVE MergeInv'
  BY <1>4 DEF Merge!Prune, MergeInv
<1>5. ASSUME NEW s \in Sessions, NEW m \in Models, Merge!Age(b, s, m) PROVE MergeInv'
  <2>1. usage[b][s][m] \in UsageRow
    BY <1>5 DEF Merge!Age, MergeInv
  <2>2. [usage[b][s][m] EXCEPT !.recent = FALSE] \in UsageRow
    BY <2>1 DEF UsageRow
  <2>3. usage' = [usage EXCEPT ![b][s][m] = [usage[b][s][m] EXCEPT !.recent = FALSE]]
    BY <1>5 DEF Merge!Age
  <2>4. usage' \in [Bots -> [Sessions -> [Models -> UsageRow \cup {None}]]]
    BY <2>2, <2>3 DEF MergeInv
  <2>5. QED
    BY <1>5, <2>4 DEF Merge!Age, MergeInv
<1>6. ASSUME NEW s \in Sessions, NEW m \in Models, NEW price \in 0 .. 1, Merge!Call(b, s, m, price)
      PROVE  MergeInv'
  <2> DEFINE row == [calls |-> usage[b][s][m].calls + 1, cost |-> usage[b][s][m].cost + price, recent |-> TRUE]
  <2>1. row \in UsageRow /\ usage' = [usage EXCEPT ![b][s][m] = row]
    <3>1. usage[b][s][m] \in UsageRow
      BY <1>6 DEF Merge!Call, MergeInv
    <3>2. row \in UsageRow
      BY <3>1 DEF UsageRow
    <3>3. usage' = [usage EXCEPT ![b][s][m] = row]
      BY <1>6 DEF Merge!Call
    <3>4. QED
      BY <3>2, <3>3
  <2> HIDE DEF row
  <2>2. usage' \in [Bots -> [Sessions -> [Models -> UsageRow \cup {None}]]]
    BY <2>1 DEF MergeInv
  <2>3. QED
    BY <1>6, <2>2 DEF Merge!Call, MergeInv
<1>7. ASSUME NEW s \in Sessions, NEW m \in Models, Merge!Open(b, s, m) PROVE MergeInv'
  <2>1. [calls |-> 0, cost |-> 0, recent |-> TRUE] \in UsageRow
    BY DEF UsageRow
  <2>2. usage' \in [Bots -> [Sessions -> [Models -> UsageRow \cup {None}]]]
    BY <1>7, <2>1 DEF Merge!Open, MergeInv
  <2>3. QED
    BY <1>7, <2>2 DEF Merge!Open, MergeInv
<1>8. QED
  BY <1>1, <1>2, <1>3, <1>4, <1>5, <1>6, <1>7

LEMMA MergeSteps == Spec => [](part = "merge" => MergeInv)
<1>1. Init /\ part = "merge" => MergeInv
  BY MergeInit DEF Init
<1>2. (part = "merge" => MergeInv) /\ [Next]_vars => (part = "merge" => MergeInv)'
  <2>1. SUFFICES ASSUME part = "merge" => MergeInv, [Next]_vars, part' = "merge" PROVE MergeInv'
    OBVIOUS
  <2>2. CASE UNCHANGED vars
    BY <2>1, <2>2 DEF vars, merge, MergeInv
  <2>3. CASE Merge!Next /\ part = "merge"
    BY <2>1, <2>3, MergeStep
  <2>4. QED
    BY <2>1, <2>2, <2>3 DEF Next
<1>3. QED
  BY <1>1, <1>2, PTL DEF Spec

LEMMA KeysFinite ==
  /\ IsFiniteSet(Bots) /\ IsFiniteSet(Bots \X Sessions) /\ IsFiniteSet(Bots \X Sessions \X Models)
  /\ None \notin Nat \X Nat /\ Limit \in Nat \ {0}
<1>1. /\ IsFiniteSet(Bots) /\ IsFiniteSet(Sessions) /\ IsFiniteSet(Models)
      /\ None \notin Nat \X Nat /\ Limit \in Nat \ {0}
  BY MergeAssumptions DEF Merge!FleetAssumption, Merge!IsFiniteSet, IsFiniteSet
<1>2. IsFiniteSet(Bots \X Sessions)
  BY <1>1, FS_Product
<1>3. IsFiniteSet((Bots \X Sessions) \X Models)
  BY <1>1, <1>2, FS_Product
<1> DEFINE pairs == (Bots \X Sessions) \X Models
           key   == [p \in pairs |-> <<p[1][1], p[1][2], p[2]>>]
<1>4. IsFiniteSet({key[p] : p \in DOMAIN key})
  <2>1. DOMAIN key = pairs
    OBVIOUS
  <2> HIDE DEF key
  <2>2. QED
    BY <1>3, <2>1, ImageFinite
<1>5. Bots \X Sessions \X Models \subseteq {key[p] : p \in DOMAIN key}
  <2>1. ASSUME NEW b \in Bots, NEW s \in Sessions, NEW m \in Models
        PROVE  <<b, s, m>> \in {key[p] : p \in DOMAIN key}
    <3>1. <<<<b, s>>, m>> \in DOMAIN key /\ key[<<<<b, s>>, m>>] = <<b, s, m>>
      OBVIOUS
    <3>2. QED
      BY <3>1
  <2>2. QED
    BY <2>1
<1>6. QED
  BY <1>1, <1>2, <1>4, <1>5, FS_Subset

LEMMA MergeSize == ASSUME NEW S PROVE Merge!Cardinality(S) = Cardinality(S)
  BY Zenon DEF Merge!Cardinality, Cardinality

\* A set of usage rows, and the rows of one bot among them.
Keys == Bots \X Sessions \X Models
IsRows(R) == R \subseteq Keys /\ \A k \in R : Merge!Cell(k) \in UsageRow
RowsOf(R, b) == {k \in R : k[1] = b}

LEMMA RowsTyped ==
  ASSUME NEW R, IsRows(R)
  PROVE  /\ IsFiniteSet(R)
         /\ [k \in R |-> Merge!Cell(k).calls] \in [R -> Nat]
         /\ [k \in R |-> Merge!Cell(k).cost] \in [R -> Nat]
         /\ Merge!Calls(R) = Summary!AddedUp([k \in R |-> Merge!Cell(k).calls])
         /\ Merge!Cost(R) = Summary!AddedUp([k \in R |-> Merge!Cell(k).cost])
         /\ Merge!Calls(R) \in Nat /\ Merge!Cost(R) \in Nat
         /\ Merge!Talks(R) \subseteq Bots \X Sessions /\ IsFiniteSet(Merge!Talks(R))
<1>1. IsFiniteSet(R)
  BY KeysFinite, FS_Subset DEF IsRows, Keys
<1> DEFINE calls_ == [k \in R |-> Merge!Cell(k).calls]
           cost == [k \in R |-> Merge!Cell(k).cost]
<1>2. calls_ \in [R -> Nat] /\ cost \in [R -> Nat]
  BY DEF IsRows, UsageRow
<1>3. Merge!Calls(R) = Summary!AddedUp(calls_) /\ Merge!Cost(R) = Summary!AddedUp(cost)
  BY MergeSums DEF Merge!Calls, Merge!Cost
<1> HIDE DEF calls_, cost
<1>4. Summary!AddedUp(calls_) \in Nat /\ Summary!AddedUp(cost) \in Nat
  BY <1>1, <1>2, SumIsStack
<1>5. Merge!Talks(R) \subseteq Bots \X Sessions
  BY DEF Merge!Talks, IsRows, Keys
<1>6. IsFiniteSet(Merge!Talks(R))
  BY <1>5, KeysFinite, FS_Subset
<1>7. QED
  BY <1>1, <1>2, <1>3, <1>4, <1>5, <1>6 DEF calls_, cost

\* A figure that is added up over rows is added up bot by bot.
LEMMA FigureOfBots ==
  ASSUME NEW R, IsRows(R), NEW f \in [R -> Nat],
         NEW B \in SUBSET Bots, \A k \in R : k[1] \in B,
         NEW g, DOMAIN g = B,
         \A b \in B : g[b] = Summary!AddedUp([k \in RowsOf(R, b) |-> f[k]])
  PROVE  Summary!AddedUp(g) = Summary!AddedUp(f)
<1> DEFINE label == [k \in R |-> k[1]]
<1>1. IsFiniteSet(R) /\ IsFiniteSet(B)
  BY RowsTyped, KeysFinite, FS_Subset
<1>2. \A k \in R : label[k] \in B
  OBVIOUS
<1>3. \A b \in B : {k \in R : label[k] = b} = RowsOf(R, b)
  BY DEF RowsOf
<1>4. \A b \in B : g[b] = Summary!AddedUp([k \in {j \in R : label[j] = b} |-> f[k]])
  BY <1>3
<1> HIDE DEF label
<1>5. QED
  BY <1>1, <1>2, <1>4, SumOfParts

LEMMA TalksOfBots ==
  ASSUME NEW R, IsRows(R),
         NEW B \in SUBSET Bots, \A k \in R : k[1] \in B,
         NEW g, DOMAIN g = B,
         \A b \in B : g[b] = Cardinality(Merge!Talks(RowsOf(R, b)))
  PROVE  Summary!AddedUp(g) = Cardinality(Merge!Talks(R))
<1> DEFINE talks == Merge!Talks(R)
           label == [t \in talks |-> t[1]]
<1>1. IsFiniteSet(talks) /\ IsFiniteSet(B)
  BY RowsTyped, KeysFinite, FS_Subset
<1>2. \A t \in talks : label[t] \in B
  BY DEF Merge!Talks
<1>3. ASSUME NEW b \in B PROVE {t \in talks : label[t] = b} = Merge!Talks(RowsOf(R, b))
  BY DEF Merge!Talks, RowsOf
<1>4. \A b \in B : g[b] = Cardinality({t \in talks : label[t] = b})
  BY <1>3
<1> HIDE DEF talks, label
<1>5. Summary!AddedUp(g) = Cardinality(talks)
  BY <1>1, <1>2, <1>4, SumIsSize
<1>6. QED
  BY <1>5 DEF talks

LEMMA PartTyped ==
  ASSUME NEW R, IsRows(R), NEW S \in SUBSET R PROVE IsRows(S)
  BY DEF IsRows

LEMMA CallsOfBots ==
  ASSUME NEW R, IsRows(R),
         NEW B \in SUBSET Bots, \A k \in R : k[1] \in B,
         NEW g, DOMAIN g = B, \A b \in B : g[b] = Merge!Calls(RowsOf(R, b))
  PROVE  Summary!AddedUp(g) = Merge!Calls(R)
<1> DEFINE f == [k \in R |-> Merge!Cell(k).calls]
<1>1. f \in [R -> Nat] /\ Merge!Calls(R) = Summary!AddedUp(f)
  BY RowsTyped
<1>2. ASSUME NEW b \in B PROVE g[b] = Summary!AddedUp([k \in RowsOf(R, b) |-> f[k]])
  <2>1. RowsOf(R, b) \in SUBSET R
    BY DEF RowsOf
  <2>2. Merge!Calls(RowsOf(R, b)) = Summary!AddedUp([k \in RowsOf(R, b) |-> Merge!Cell(k).calls])
    BY <2>1, PartTyped, RowsTyped
  <2>3. [k \in RowsOf(R, b) |-> Merge!Cell(k).calls] = [k \in RowsOf(R, b) |-> f[k]]
    BY <2>1
  <2>4. QED
    BY <2>2, <2>3
<1> HIDE DEF f
<1>3. QED
  BY <1>1, <1>2, FigureOfBots

LEMMA CostOfBots ==
  ASSUME NEW R, IsRows(R),
         NEW B \in SUBSET Bots, \A k \in R : k[1] \in B,
         NEW g, DOMAIN g = B, \A b \in B : g[b] = Merge!Cost(RowsOf(R, b))
  PROVE  Summary!AddedUp(g) = Merge!Cost(R)
<1> DEFINE f == [k \in R |-> Merge!Cell(k).cost]
<1>1. f \in [R -> Nat] /\ Merge!Cost(R) = Summary!AddedUp(f)
  BY RowsTyped
<1>2. ASSUME NEW b \in B PROVE g[b] = Summary!AddedUp([k \in RowsOf(R, b) |-> f[k]])
  <2>1. RowsOf(R, b) \in SUBSET R
    BY DEF RowsOf
  <2>2. Merge!Cost(RowsOf(R, b)) = Summary!AddedUp([k \in RowsOf(R, b) |-> Merge!Cell(k).cost])
    BY <2>1, PartTyped, RowsTyped
  <2>3. [k \in RowsOf(R, b) |-> Merge!Cell(k).cost] = [k \in RowsOf(R, b) |-> f[k]]
    BY <2>1
  <2>4. QED
    BY <2>2, <2>3
<1> HIDE DEF f
<1>3. QED
  BY <1>1, <1>2, FigureOfBots

\* The counters of some bots, added up, are those of their rows together.
LEMMA SumsOfBots ==
  ASSUME NEW R, IsRows(R),
         NEW B \in SUBSET Bots, \A k \in R : k[1] \in B,
         NEW of, DOMAIN of = B, \A b \in B : of[b] = Merge!Sums(RowsOf(R, b))
  PROVE  Merge!AddUp(of) = Merge!Sums(R)
<1> DEFINE talks  == [b \in DOMAIN of |-> of[b].sessions]
           calls_ == [b \in DOMAIN of |-> of[b].calls]
           cost   == [b \in DOMAIN of |-> of[b].cost]
<1>1. /\ \A b \in B : /\ talks[b] = Cardinality(Merge!Talks(RowsOf(R, b)))
                      /\ calls_[b] = Merge!Calls(RowsOf(R, b))
                      /\ cost[b] = Merge!Cost(RowsOf(R, b))
      /\ DOMAIN talks = B /\ DOMAIN calls_ = B /\ DOMAIN cost = B
  BY MergeSize DEF Merge!Sums
<1>2. Merge!AddUp(of) = [sessions |-> Summary!AddedUp(talks), calls |-> Summary!AddedUp(calls_),
                         cost |-> Summary!AddedUp(cost)]
  BY MergeSums DEF Merge!AddUp
<1> HIDE DEF talks, calls_, cost
<1>3. /\ Summary!AddedUp(talks) = Cardinality(Merge!Talks(R))
      /\ Summary!AddedUp(calls_) = Merge!Calls(R)
      /\ Summary!AddedUp(cost) = Merge!Cost(R)
  BY <1>1, TalksOfBots, CallsOfBots, CostOfBots
<1>4. QED
  BY <1>2, <1>3, MergeSize DEF Merge!Sums

LEMMA SumOfAllZeros ==
  ASSUME NEW C, IsFiniteSet(C), NEW f \in [C -> Nat], \A c \in C : f[c] = 0
  PROVE  Summary!AddedUp(f) = 0
<1>1. Stack(f) = {}
  BY DEF Stack
<1>2. QED
  BY <1>1, SumIsStack, FS_EmptySet

\* Rows with a call are rows; rows without one have cost nothing.
LEMMA IdleRows ==
  ASSUME NEW R, IsRows(R)
  PROVE  /\ Merge!Calls(R) > 0 => R # {}
         /\ Merge!Cost(R) > 0 => Merge!Calls(R) > 0
<1> DEFINE f == [k \in R |-> Merge!Cell(k).calls]
           g == [k \in R |-> Merge!Cell(k).cost]
<1>1. /\ f \in [R -> Nat] /\ Merge!Calls(R) = Summary!AddedUp(f) /\ Merge!Calls(R) \in Nat
      /\ g \in [R -> Nat] /\ Merge!Cost(R) = Summary!AddedUp(g) /\ Merge!Cost(R) \in Nat
      /\ IsFiniteSet(R)
  BY RowsTyped
<1>2. \A k \in R : f[k] = 0 => g[k] = 0
  BY DEF IsRows, UsageRow
<1> HIDE DEF f, g
<1>3. R = {} => Summary!AddedUp(f) = 0
  BY <1>1, SumOfNone
<1>4. ASSUME Summary!AddedUp(f) = 0 PROVE Summary!AddedUp(g) = 0
  <2>1. \A k \in R : f[k] = 0
    BY <1>1, <1>4, SumOfZeros
  <2>2. QED
    BY <1>1, <1>2, <2>1, SumOfAllZeros
<1>5. QED
  BY <1>1, <1>3, <1>4

\* The pool holds the windows of the readable bots.
LEMMA PoolRows ==
  ASSUME MergeInv
  PROVE  /\ IsRows(Merge!Pool) /\ \A b \in Bots : IsRows(Merge!InWindow(b))
         /\ \A k \in Merge!Pool : k[1] \in readable
         /\ \A b \in readable : Merge!InWindow(b) = RowsOf(Merge!Pool, b)
         /\ \A b \in Bots \ readable : RowsOf(Merge!Pool, b) = {}
         /\ readable \in SUBSET Bots
<1>1. readable \in SUBSET Bots
  BY DEF MergeInv
<1>2. ASSUME NEW b \in Bots PROVE IsRows(Merge!InWindow(b)) /\ \A k \in Merge!InWindow(b) : k[1] = b
  BY DEF MergeInv, IsRows, Keys, Merge!InWindow, Merge!Cell
<1>3. \A k : k \in Merge!Pool <=> \E b \in readable : k \in Merge!InWindow(b)
  BY DEF Merge!Pool
<1>4. IsRows(Merge!Pool)
  BY <1>1, <1>2, <1>3 DEF IsRows
<1>5. \A k \in Merge!Pool : k[1] \in readable
  BY <1>1, <1>2, <1>3
<1>6. \A b \in readable : Merge!InWindow(b) = RowsOf(Merge!Pool, b)
  BY <1>1, <1>2, <1>3 DEF RowsOf
<1>7. QED
  BY <1>1, <1>2, <1>4, <1>5, <1>6 DEF RowsOf

LEMMA SumsOfNoRows == Merge!Sums({}) = [sessions |-> 0, calls |-> 0, cost |-> 0]
<1>1. [k \in {} |-> Merge!Cell(k).calls] \in [{} -> Nat] /\ [k \in {} |-> Merge!Cell(k).cost] \in [{} -> Nat]
  OBVIOUS
<1>2. Merge!Calls({}) = 0 /\ Merge!Cost({}) = 0
  BY <1>1, SumOfNone, MergeSums DEF Merge!Calls, Merge!Cost
<1>3. Merge!Talks({}) = {}
  BY DEF Merge!Talks
<1>4. QED
  BY <1>2, <1>3, MergeSize, FS_EmptySet DEF Merge!Sums

\* The counters of the header.
LEMMA SummaryOfPool == ASSUME MergeInv PROVE Merge!MergedSummary = Merge!Summary(Merge!Pool)
<1> DEFINE pool    == Merge!Pool
           Free(R) == {k \in R : Merge!Cell(k).cost = 0 /\ Merge!Cell(k).calls > 0}
           F       == Free(pool)
           of      == [b \in readable |-> Merge!Summary(Merge!InWindow(b))]
           sums    == [b \in readable |-> of[b].sums]
           free    == [b \in readable |-> of[b].unpriced]
<1>1. /\ IsRows(pool) /\ readable \in SUBSET Bots
      /\ \A k \in pool : k[1] \in readable
      /\ \A b \in readable : Merge!InWindow(b) = RowsOf(pool, b)
  BY PoolRows
<1>2. /\ DOMAIN sums = readable /\ DOMAIN free = readable
      /\ \A b \in readable : /\ sums[b] = Merge!Sums(RowsOf(pool, b))
                             /\ free[b] = Merge!Calls(Free(RowsOf(pool, b)))
                             /\ of[b].models = {k[3] : k \in Free(RowsOf(pool, b))}
  BY <1>1 DEF Merge!Summary
<1> HIDE DEF pool
<1>3. Merge!AddUp(sums) = Merge!Sums(pool)
  <2>1. DOMAIN sums = readable /\ \A b \in readable : sums[b] = Merge!Sums(RowsOf(pool, b))
    BY <1>2
  <2> HIDE DEF sums
  <2>2. QED
    BY <1>1, <2>1, SumsOfBots
<1>4. IsRows(F) /\ \A k \in F : k[1] \in readable
  BY <1>1 DEF IsRows
<1>5. \A b \in readable : Free(RowsOf(pool, b)) = RowsOf(F, b)
  BY DEF RowsOf
<1>6. Summary!AddedUp(free) = Merge!Calls(F)
  <2>1. \A b \in readable : free[b] = Merge!Calls(RowsOf(F, b))
    BY <1>2, <1>5
  <2> HIDE DEF free, F
  <2>2. QED
    BY <1>1, <1>2, <1>4, <2>1, CallsOfBots
<1>7. UNION {of[b].models : b \in readable} = {k[3] : k \in F}
  <2>1. \A b \in readable : of[b].models = {k[3] : k \in RowsOf(F, b)}
    BY <1>2, <1>5
  <2> HIDE DEF of, F
  <2>2. QED
    BY <1>4, <2>1 DEF RowsOf
<1>8. Merge!MergedSummary = [sums |-> Merge!AddUp(sums), unpriced |-> Summary!AddedUp(free),
                             models |-> UNION {of[b].models : b \in readable}]
  BY MergeSums DEF Merge!MergedSummary
<1>9. QED
  BY <1>3, <1>6, <1>7, <1>8 DEF Merge!Summary, pool

LEMMA BotsOfPool == ASSUME MergeInv PROVE Merge!AddUp(Merge!PerBot) = Merge!Sums(Merge!Pool)
<1> DEFINE of == Merge!PerBot
<1>1. DOMAIN of = Bots
  BY DEF Merge!PerBot
<1>2. ASSUME NEW b \in Bots PROVE of[b] = Merge!Sums(RowsOf(Merge!Pool, b))
  BY PoolRows, SumsOfNoRows DEF Merge!PerBot
<1>3. IsRows(Merge!Pool) /\ \A k \in Merge!Pool : k[1] \in Bots
  BY PoolRows
<1> HIDE DEF of
<1>4. Merge!AddUp(of) = Merge!Sums(Merge!Pool)
  BY <1>1, <1>2, <1>3, SumsOfBots
<1>5. QED
  BY <1>4 DEF of

\* A panel that groups rows, whatever they are grouped by.
Grouped(R, group) ==
  [g \in {group[k] : k \in R} |-> Merge!Sums({k \in R : group[k] = g})]

LEMMA GroupsOfPool ==
  ASSUME MergeInv, NEW group, NEW of, DOMAIN of = readable,
         \A b \in readable : of[b] = Grouped(Merge!InWindow(b), group)
  PROVE  Merge!MergeGrouped(of) = Grouped(Merge!Pool, group)
<1> DEFINE pool    == Merge!Pool
           with(g) == {b \in readable : g \in DOMAIN of[b]}
           R(g)    == {k \in pool : group[k] = g}
           share(g) == [b \in with(g) |-> of[b][g]]
<1>1. /\ IsRows(pool) /\ readable \in SUBSET Bots
      /\ \A k \in pool : k[1] \in readable
      /\ \A b \in readable : Merge!InWindow(b) = RowsOf(pool, b)
  BY PoolRows
<1> HIDE DEF pool
<1>2. \A b \in readable : DOMAIN of[b] = {group[k] : k \in RowsOf(pool, b)}
  BY <1>1 DEF Grouped
<1>3. UNION {DOMAIN of[b] : b \in readable} = {group[k] : k \in pool}
  BY <1>1, <1>2 DEF RowsOf
<1>4. ASSUME NEW g \in {group[k] : k \in pool} PROVE Merge!AddUp(share(g)) = Merge!Sums(R(g))
  <2>1. IsRows(R(g)) /\ \A k \in R(g) : k[1] \in with(g)
    BY <1>1, <1>2 DEF IsRows, RowsOf
  <2>2. with(g) \in SUBSET Bots /\ DOMAIN share(g) = with(g)
    BY <1>1
  <2>3. ASSUME NEW b \in with(g) PROVE share(g)[b] = Merge!Sums(RowsOf(R(g), b))
    <3>1. {k \in Merge!InWindow(b) : group[k] = g} = RowsOf(R(g), b)
      BY <1>1 DEF RowsOf
    <3>2. of[b][g] = Merge!Sums({k \in Merge!InWindow(b) : group[k] = g})
      BY DEF Grouped
    <3>3. QED
      BY <3>1, <3>2
  <2> HIDE DEF share, R, with
  <2>4. QED
    BY <2>1, <2>2, <2>3, SumsOfBots
<1>5. Merge!MergeGrouped(of) = [g \in UNION {DOMAIN of[b] : b \in readable} |-> Merge!AddUp(share(g))]
  BY DEF Merge!MergeGrouped
<1> HIDE DEF share, R, with
<1>6. Merge!MergeGrouped(of) = [g \in {group[k] : k \in pool} |-> Merge!Sums(R(g))]
  BY <1>3, <1>4, <1>5
<1>7. QED
  BY <1>6 DEF R, pool, Grouped

LEMMA ModelsOfPool ==
  ASSUME MergeInv
  PROVE  Merge!MergeGrouped([b \in readable |-> Merge!ByModel(Merge!InWindow(b))]) =
           Merge!ByModel(Merge!Pool)
<1> DEFINE group == [k \in Keys |-> k[3]]
           of    == [b \in readable |-> Merge!ByModel(Merge!InWindow(b))]
<1>1. ASSUME NEW R, IsRows(R)
      PROVE  Merge!ByModel(R) = Grouped(R, group)
  <2>1. \A k \in R : group[k] = k[3]
    BY <1>1 DEF IsRows
  <2>2. {group[k] : k \in R} = {k[3] : k \in R}
    BY <2>1
  <2>3. \A g : {k \in R : group[k] = g} = {k \in R : k[3] = g}
    BY <2>1
  <2>4. QED
    BY <2>2, <2>3 DEF Merge!ByModel, Grouped
<1>2. \A b \in readable : of[b] = Grouped(Merge!InWindow(b), group)
  BY <1>1, PoolRows
<1>3. DOMAIN of = readable
  OBVIOUS
<1> HIDE DEF of, group
<1>4. Merge!MergeGrouped(of) = Grouped(Merge!Pool, group)
  BY <1>2, <1>3, GroupsOfPool
<1>5. QED
  BY <1>1, <1>4, PoolRows DEF of

LEMMA PlatformsOfPool ==
  ASSUME MergeInv
  PROVE  Merge!MergeGrouped([b \in readable |-> Merge!ByPlatform(Merge!InWindow(b))]) =
           Merge!ByPlatform(Merge!Pool)
<1> DEFINE group == [k \in Keys |-> Merge!PlatformOf(<<k[1], k[2]>>)]
           of    == [b \in readable |-> Merge!ByPlatform(Merge!InWindow(b))]
<1>1. ASSUME NEW R, IsRows(R)
      PROVE  Merge!ByPlatform(R) = Grouped(R, group)
  <2>1. \A k \in R : group[k] = Merge!PlatformOf(<<k[1], k[2]>>)
    BY <1>1 DEF IsRows
  <2>2. {group[k] : k \in R} = {Merge!PlatformOf(t) : t \in Merge!Talks(R)}
    BY <2>1 DEF Merge!Talks
  <2>3. \A g : {k \in R : group[k] = g} = Merge!Of(R, g)
    BY <2>1 DEF Merge!Of
  <2>4. QED
    BY <2>2, <2>3 DEF Merge!ByPlatform, Grouped
<1>2. \A b \in readable : of[b] = Grouped(Merge!InWindow(b), group)
  BY <1>1, PoolRows
<1>3. DOMAIN of = readable
  OBVIOUS
<1> HIDE DEF of, group
<1>4. Merge!MergeGrouped(of) = Grouped(Merge!Pool, group)
  BY <1>2, <1>3, GroupsOfPool
<1>5. QED
  BY <1>1, <1>4, PoolRows DEF of

\* A mean of means weighted by the number behind each is the mean of all.
MeansOf(B, total, number) ==
  {[bot |-> b, value |-> <<total[b], number[b]>>, weight |-> number[b]] : b \in B}

LEMMA DivideBack == ASSUME NEW m \in Nat, NEW n \in Nat \ {0} PROVE (m * n) \div n = m
  OBVIOUS

LEMMA PooledMean ==
  ASSUME NEW B, IsFiniteSet(B), B # {}, NEW total \in [B -> Nat], NEW number \in [B -> Nat \ {0}],
         None \notin Nat \X Nat
  PROVE  Merge!WeightedMean(MeansOf(B, total, number)) =
           <<Summary!AddedUp(total), Summary!AddedUp(number)>>
<1> DEFINE mean(b) == [bot |-> b, value |-> <<total[b], number[b]>>, weight |-> number[b]]
           pairs   == MeansOf(B, total, number)
           usable  == {x \in pairs : x.value # None /\ x.weight > 0}
           to      == [b \in B |-> mean(b)]
           f       == [x \in usable |-> (x.value[1] * x.weight) \div x.value[2]]
           g       == [x \in usable |-> x.weight]
<1>1. \A x \in pairs : x.bot \in B /\ x = mean(x.bot)
  BY DEF MeansOf
<1>2. \A b \in B : mean(b) \in pairs /\ mean(b).bot = b
  BY DEF MeansOf
<1>3. \A b \in B : total[b] \in Nat /\ number[b] \in Nat \ {0}
  OBVIOUS
<1>4. usable = pairs
  <2>1. \A b \in B : mean(b).value # None /\ mean(b).weight > 0
    BY <1>3
  <2>2. QED
    BY <1>1, <2>1
<1>5. ASSUME NEW b \in B
      PROVE  to[b] \in usable /\ f[to[b]] = total[b] /\ g[to[b]] = number[b]
  <2>1. to[b] = mean(b) /\ mean(b) \in usable
    BY <1>2, <1>4
  <2>2. f[mean(b)] = (total[b] * number[b]) \div number[b] /\ g[mean(b)] = number[b]
    BY <2>1
  <2>3. QED
    BY <1>3, <2>1, <2>2, DivideBack
<1>6. \A x \in usable : \E b \in B : to[b] = x
  BY <1>1, <1>4
<1>7. f \in [usable -> Nat] /\ g \in [usable -> Nat]
  <2>1. \A x \in usable : f[x] \in Nat /\ g[x] \in Nat
    BY <1>3, <1>5, <1>6
  <2>2. QED
    BY <2>1
<1>8. \A b, c \in B : to[b] = to[c] => b = c
  BY <1>2
<1>9. IsFiniteSet(usable)
  <2>1. DOMAIN to = B
    OBVIOUS
  <2> HIDE DEF to, usable, f, g
  <2>2. usable = {to[b] : b \in DOMAIN to}
    BY <1>5, <1>6, <2>1
  <2>3. QED
    BY <2>1, <2>2, ImageFinite
<1>10. Merge!WeightedMean(pairs) =
         IF usable = {} THEN None ELSE <<Summary!AddedUp(f), Summary!AddedUp(g)>>
  BY MergeSums DEF Merge!WeightedMean
<1> HIDE DEF to, f, g, usable, pairs, mean
<1>11. Summary!AddedUp(total) = Summary!AddedUp(f)
  BY <1>5, <1>6, <1>7, <1>8, <1>9, SumRenamed
<1>12. Summary!AddedUp(number) = Summary!AddedUp(g)
  <2>1. number \in [B -> Nat]
    OBVIOUS
  <2>2. QED
    BY <2>1, <1>5, <1>6, <1>7, <1>8, <1>9, SumRenamed
<1>13. usable # {}
  BY <1>5
<1>14. QED
  BY <1>10, <1>11, <1>12, <1>13 DEF pairs

\* Messages of the sessions of some bots.
Messages(T) == Summary!AddedUp([t \in T |-> session[t[1]][t[2]].messages])

LEMMA MessagesTyped ==
  ASSUME MergeInv, NEW T \in SUBSET (Bots \X Sessions)
  PROVE  /\ IsFiniteSet(T) /\ Messages(T) \in Nat
         /\ [t \in T |-> session[t[1]][t[2]].messages] \in [T -> Nat]
<1>1. [t \in T |-> session[t[1]][t[2]].messages] \in [T -> Nat]
  BY DEF MergeInv
<1>2. IsFiniteSet(T)
  BY KeysFinite, FS_Subset
<1>3. QED
  BY <1>1, <1>2, SumIsStack DEF Messages

LEMMA MessagesOfBots ==
  ASSUME MergeInv, NEW R, IsRows(R),
         NEW B \in SUBSET Bots, \A k \in R : k[1] \in B,
         NEW g, DOMAIN g = B, \A b \in B : g[b] = Messages(Merge!Talks(RowsOf(R, b)))
  PROVE  Summary!AddedUp(g) = Messages(Merge!Talks(R))
<1> DEFINE T     == Merge!Talks(R)
           f     == [t \in T |-> session[t[1]][t[2]].messages]
           label == [t \in T |-> t[1]]
<1>1. T \in SUBSET (Bots \X Sessions) /\ IsFiniteSet(B)
  BY RowsTyped, KeysFinite, FS_Subset
<1>2. IsFiniteSet(T) /\ f \in [T -> Nat] /\ Messages(T) = Summary!AddedUp(f)
  BY <1>1, MessagesTyped DEF Messages
<1>3. \A t \in T : label[t] \in B
  BY DEF Merge!Talks
<1>4. ASSUME NEW b \in B
      PROVE  g[b] = Summary!AddedUp([t \in {u \in T : label[u] = b} |-> f[t]])
  <2>1. {u \in T : label[u] = b} = Merge!Talks(RowsOf(R, b))
    BY DEF Merge!Talks, RowsOf
  <2>2. [t \in {u \in T : label[u] = b} |-> f[t]] =
          [t \in Merge!Talks(RowsOf(R, b)) |-> session[t[1]][t[2]].messages]
    BY <2>1
  <2>3. QED
    BY <2>2 DEF Messages
<1> HIDE DEF f, label, T
<1>5. Summary!AddedUp(g) = Summary!AddedUp(f)
  BY <1>1, <1>2, <1>3, <1>4, SumOfParts
<1>6. QED
  BY <1>2, <1>5 DEF T

\* The averages by platform.
LEMMA EfficiencyOf ==
  ASSUME MergeInv, NEW R, IsRows(R)
  PROVE  /\ DOMAIN Merge!Efficiency(R) = {p \in Platforms \cup {None} : Merge!Calls(Merge!Of(R, p)) > 0}
         /\ \A p \in DOMAIN Merge!Efficiency(R) :
              /\ Merge!Efficiency(R)[p].sums = Merge!Sums(Merge!Of(R, p))
              /\ Merge!Efficiency(R)[p].avg = Merge!AvgMessages(Merge!Of(R, p), p)
BY DEF Merge!Efficiency

LEMMA MeanOfPool ==
  ASSUME MergeInv, NEW R, IsRows(R), R # {}, NEW p, p # None,
         NEW B \in SUBSET Bots, \A k \in R : k[1] \in B, \A b \in B : RowsOf(R, b) # {},
         NEW pairs,
         pairs = {[bot |-> b, value |-> Merge!AvgMessages(RowsOf(R, b), p),
                   weight |-> Merge!Sums(RowsOf(R, b)).sessions] : b \in B}
  PROVE  Merge!WeightedMean(pairs) = Merge!AvgMessages(R, p)
<1> DEFINE talks(b) == Merge!Talks(RowsOf(R, b))
           total  == [b \in B |-> Messages(talks(b))]
           number == [b \in B |-> Cardinality(talks(b))]
<1>1. ASSUME NEW b \in B
      PROVE  /\ IsFiniteSet(talks(b)) /\ talks(b) \in SUBSET (Bots \X Sessions)
             /\ Messages(talks(b)) \in Nat /\ Cardinality(talks(b)) \in Nat \ {0}
  <2>1. IsRows(RowsOf(R, b))
    BY DEF RowsOf, IsRows
  <2>2. IsFiniteSet(talks(b)) /\ talks(b) \in SUBSET (Bots \X Sessions) /\ talks(b) # {}
    <3>1. PICK k \in RowsOf(R, b) : TRUE
      OBVIOUS
    <3>2. <<k[1], k[2]>> \in talks(b)
      BY DEF Merge!Talks
    <3>3. QED
      BY <2>1, <3>2, RowsTyped
  <2>3. Cardinality(talks(b)) \in Nat /\ Cardinality(talks(b)) # 0
    BY <2>2, FS_CardinalityType, FS_EmptySet
  <2>4. Messages(talks(b)) \in Nat
    BY <2>2, MessagesTyped
  <2>5. QED
    BY <2>2, <2>3, <2>4
<1>2. total \in [B -> Nat] /\ number \in [B -> Nat \ {0}]
  BY <1>1
<1>3. \A S : Merge!AvgMessages(S, p) = <<Messages(Merge!Talks(S)), Cardinality(Merge!Talks(S))>>
  BY MergeSums, MergeSize DEF Merge!AvgMessages, Messages
<1>4. \A S : Merge!Sums(S).sessions = Cardinality(Merge!Talks(S))
  BY MergeSize DEF Merge!Sums
<1>5. pairs = MeansOf(B, total, number)
  <2>1. ASSUME NEW b \in B
        PROVE  /\ Merge!AvgMessages(RowsOf(R, b), p) = <<total[b], number[b]>>
               /\ Merge!Sums(RowsOf(R, b)).sessions = number[b]
    BY <1>3, <1>4
  <2> HIDE DEF total, number
  <2>2. QED
    BY <2>1 DEF MeansOf
<1>6. IsFiniteSet(B) /\ B # {}
  BY KeysFinite, FS_Subset
<1>7. /\ \A b \in B : total[b] = Messages(Merge!Talks(RowsOf(R, b)))
      /\ \A b \in B : number[b] = Cardinality(Merge!Talks(RowsOf(R, b)))
      /\ DOMAIN total = B /\ DOMAIN number = B
  OBVIOUS
<1> HIDE DEF total, number, talks
<1>8. Merge!WeightedMean(pairs) = <<Summary!AddedUp(total), Summary!AddedUp(number)>>
  BY <1>2, <1>5, <1>6, KeysFinite, PooledMean
<1>9. Summary!AddedUp(total) = Messages(Merge!Talks(R))
  BY <1>7, MessagesOfBots
<1>10. Summary!AddedUp(number) = Cardinality(Merge!Talks(R))
  BY <1>7, TalksOfBots
<1>11. QED
  BY <1>3, <1>8, <1>9, <1>10

\* Pruned sessions have no messages, in one database or in many.
LEMMA MeanOfPruned ==
  ASSUME NEW pairs, \A x \in pairs : x.value = None
  PROVE  Merge!WeightedMean(pairs) = None
<1>1. {x \in pairs : x.value # None /\ x.weight > 0} = {}
  OBVIOUS
<1>2. QED
  BY <1>1 DEF Merge!WeightedMean

\* Leaving out the bots whose figure is zero leaves the sum as it is.
LEMMA ZerosLeftOut ==
  ASSUME NEW B, IsFiniteSet(B), NEW f \in [B -> Nat],
         NEW C \in SUBSET B, \A b \in B \ C : f[b] = 0
  PROVE  Summary!AddedUp([b \in C |-> f[b]]) = Summary!AddedUp(f)
<1> DEFINE g  == [b \in C |-> f[b]]
           to == [b \in C |-> b]
<1>1. IsFiniteSet(C) /\ g \in [C -> Nat]
  BY FS_Subset
<1>2. /\ \A b \in C : g[b] > 0 => to[b] \in B /\ f[to[b]] = g[b]
      /\ \A b, c \in C : g[b] > 0 /\ g[c] > 0 /\ to[b] = to[c] => b = c
      /\ \A b \in B : f[b] > 0 => \E c \in C : g[c] > 0 /\ to[c] = b
  OBVIOUS
<1> HIDE DEF g, to
<1>3. Summary!AddedUp(g) = Summary!AddedUp(f)
  BY <1>1, <1>2, SumRenamed
<1>4. QED
  BY <1>3 DEF g

\* The bots with a call among the rows of R, and their rows.
Callers(R) == {b \in readable : Merge!Calls(RowsOf(R, b)) > 0}
Called(R)  == {k \in R : k[1] \in Callers(R)}

\* The idle bots left out add neither calls nor cost.
LEMMA IdleLeftOut ==
  ASSUME MergeInv, NEW R, IsRows(R), \A k \in R : k[1] \in readable
  PROVE  /\ Merge!Calls(Called(R)) = Merge!Calls(R)
         /\ Merge!Cost(Called(R)) = Merge!Cost(R)
         /\ Merge!Calls(R) > 0 <=> Callers(R) # {}
<1> DEFINE calls_ == [b \in readable |-> Merge!Calls(RowsOf(R, b))]
           cost   == [b \in readable |-> Merge!Cost(RowsOf(R, b))]
           C      == Callers(R)
           fewer  == [b \in C |-> calls_[b]]
           less   == [b \in C |-> cost[b]]
<1>1. /\ readable \in SUBSET Bots /\ IsFiniteSet(readable)
      /\ C \in SUBSET readable /\ IsFiniteSet(C)
  BY KeysFinite, FS_Subset DEF MergeInv, Callers
<1>2. ASSUME NEW b \in readable
      PROVE  /\ calls_[b] \in Nat /\ cost[b] \in Nat
             /\ b \notin C => calls_[b] = 0 /\ cost[b] = 0
             /\ b \in C => calls_[b] > 0
  <2>1. IsRows(RowsOf(R, b))
    BY DEF RowsOf, IsRows
  <2>2. Merge!Calls(RowsOf(R, b)) \in Nat /\ Merge!Cost(RowsOf(R, b)) \in Nat
    BY <2>1, RowsTyped
  <2>3. Merge!Cost(RowsOf(R, b)) > 0 => Merge!Calls(RowsOf(R, b)) > 0
    BY <2>1, IdleRows
  <2>4. QED
    BY <2>2, <2>3 DEF Callers
<1>3. calls_ \in [readable -> Nat] /\ cost \in [readable -> Nat]
  BY <1>2
<1>4. IsRows(Called(R)) /\ \A k \in Called(R) : k[1] \in C
  BY DEF Called, IsRows
<1>5. \A b \in C : RowsOf(Called(R), b) = RowsOf(R, b)
  BY DEF Called, RowsOf
<1>6. /\ DOMAIN calls_ = readable /\ \A b \in readable : calls_[b] = Merge!Calls(RowsOf(R, b))
      /\ DOMAIN cost = readable /\ \A b \in readable : cost[b] = Merge!Cost(RowsOf(R, b))
  OBVIOUS
<1>7. /\ DOMAIN fewer = C /\ \A b \in C : fewer[b] = Merge!Calls(RowsOf(Called(R), b))
      /\ DOMAIN less = C /\ \A b \in C : less[b] = Merge!Cost(RowsOf(Called(R), b))
  BY <1>1, <1>5, <1>6
<1> HIDE DEF calls_, cost, C
<1>8. /\ Summary!AddedUp(fewer) = Summary!AddedUp(calls_)
      /\ Summary!AddedUp(less) = Summary!AddedUp(cost)
  BY <1>1, <1>2, <1>3, ZerosLeftOut
<1> HIDE DEF fewer, less
<1>9. Summary!AddedUp(calls_) = Merge!Calls(R) /\ Summary!AddedUp(cost) = Merge!Cost(R)
  BY <1>1, <1>6, CallsOfBots, CostOfBots
<1>10. C \in SUBSET Bots
  BY <1>1
<1>11. Summary!AddedUp(fewer) = Merge!Calls(Called(R)) /\ Summary!AddedUp(less) = Merge!Cost(Called(R))
  BY <1>4, <1>7, <1>10, CallsOfBots, CostOfBots
<1>12. Merge!Calls(R) > 0 <=> C # {}
  <2>1. Merge!Calls(R) \in Nat
    BY RowsTyped
  <2>2. C = {} => Summary!AddedUp(calls_) = 0
    BY <1>1, <1>2, <1>3, SumOfAllZeros
  <2>3. Summary!AddedUp(calls_) = 0 => C = {}
    <3>1. SUFFICES ASSUME Summary!AddedUp(calls_) = 0, NEW b \in C PROVE FALSE
      OBVIOUS
    <3>2. calls_[b] = 0
      BY <1>1, <1>3, <3>1, SumOfZeros
    <3>3. QED
      BY <1>1, <1>2, <3>2
  <2>4. QED
    BY <1>9, <2>1, <2>2, <2>3
<1>13. QED
  BY <1>8, <1>9, <1>11, <1>12 DEF C

\* What the merge of the efficiency panels shows of a platform: the figures of
\* the bots that made a call there.
LEMMA EfficiencyOfPool ==
  ASSUME MergeInv
  PROVE  /\ DOMAIN Merge!MergedEfficiency = DOMAIN Merge!Efficiency(Merge!Pool)
         /\ \A p \in DOMAIN Merge!MergedEfficiency :
              /\ IsRows(Merge!Busy(p))
              /\ Merge!Calls(Merge!Busy(p)) = Merge!Calls(Merge!Of(Merge!Pool, p))
              /\ Merge!Cost(Merge!Busy(p)) = Merge!Cost(Merge!Of(Merge!Pool, p))
              /\ Merge!MergedEfficiency[p].sums = Merge!Sums(Merge!Busy(p))
              /\ Merge!MergedEfficiency[p].avg = Merge!AvgMessages(Merge!Busy(p), p)
<1> DEFINE pool    == Merge!Pool
           all(p)  == Merge!Of(pool, p)
           of      == [b \in readable |-> Merge!Efficiency(Merge!InWindow(b))]
           with(p) == {b \in readable : p \in DOMAIN of[b]}
           share(p) == [b \in with(p) |-> of[b][p].sums]
           pairs(p) == {[bot |-> b, value |-> of[b][p].avg,
                         weight |-> of[b][p].sums.sessions] : b \in with(p)}
           domain  == UNION {DOMAIN of[b] : b \in readable}
<1>1. /\ IsRows(pool) /\ readable \in SUBSET Bots
      /\ \A k \in pool : k[1] \in readable
      /\ \A b \in readable : Merge!InWindow(b) = RowsOf(pool, b) /\ IsRows(Merge!InWindow(b))
  BY PoolRows
<1>2. \A p, b : Merge!Of(RowsOf(pool, b), p) = RowsOf(all(p), b)
  BY DEF Merge!Of, RowsOf
<1>3. ASSUME NEW b \in readable
      PROVE  /\ DOMAIN of[b] = {p \in Platforms \cup {None} : Merge!Calls(RowsOf(all(p), b)) > 0}
             /\ \A p \in DOMAIN of[b] :
                  /\ of[b][p].sums = Merge!Sums(RowsOf(all(p), b))
                  /\ of[b][p].avg = Merge!AvgMessages(RowsOf(all(p), b), p)
  <2>1. IsRows(RowsOf(pool, b)) /\ of[b] = Merge!Efficiency(RowsOf(pool, b))
    BY <1>1
  <2> HIDE DEF of, pool
  <2>2. /\ DOMAIN of[b] = {p \in Platforms \cup {None} : Merge!Calls(Merge!Of(RowsOf(pool, b), p)) > 0}
        /\ \A p \in DOMAIN of[b] :
             /\ of[b][p].sums = Merge!Sums(Merge!Of(RowsOf(pool, b), p))
             /\ of[b][p].avg = Merge!AvgMessages(Merge!Of(RowsOf(pool, b), p), p)
    BY <2>1, EfficiencyOf
  <2>3. QED
    BY <1>2, <2>2
<1>4. DOMAIN Merge!Efficiency(pool) = {p \in Platforms \cup {None} : Merge!Calls(all(p)) > 0}
  BY <1>1, EfficiencyOf
<1>5. \A p : /\ IsRows(all(p)) /\ \A k \in all(p) : k[1] \in readable
  BY <1>1 DEF Merge!Of, IsRows
<1>6. ASSUME NEW p PROVE Merge!Busy(p) = Called(all(p))
  <2>1. \A b \in readable : Merge!Of(Merge!InWindow(b), p) = RowsOf(all(p), b)
    BY <1>1, <1>2
  <2>2. Merge!Busy(p) = UNION {RowsOf(all(p), b) : b \in Callers(all(p))}
    BY <2>1 DEF Merge!Busy, Callers
  <2> HIDE DEF all
  <2>3. QED
    BY <2>2 DEF Called, RowsOf
<1> HIDE DEF pool, all, of
<1>7. \A p \in Platforms \cup {None} : with(p) = Callers(all(p))
  BY <1>3 DEF Callers
<1>8. domain = DOMAIN Merge!Efficiency(pool)
  <2>1. \A p : p \in domain <=> p \in Platforms \cup {None} /\ Callers(all(p)) # {}
    BY <1>3 DEF Callers
  <2>2. \A p : Merge!Calls(all(p)) > 0 <=> Callers(all(p)) # {}
    BY <1>5, IdleLeftOut
  <2> HIDE DEF domain
  <2>3. QED
    BY <1>4, <2>1, <2>2
<1>9. ASSUME NEW p \in domain
      PROVE  /\ IsRows(Merge!Busy(p))
             /\ Merge!Calls(Merge!Busy(p)) = Merge!Calls(all(p))
             /\ Merge!Cost(Merge!Busy(p)) = Merge!Cost(all(p))
             /\ Merge!AddUp(share(p)) = Merge!Sums(Merge!Busy(p))
             /\ Merge!WeightedMean(pairs(p)) = Merge!AvgMessages(Merge!Busy(p), p)
  <2> DEFINE R == Called(all(p))
             B == Callers(all(p))
  <2>1. p \in Platforms \cup {None} /\ with(p) = B
    BY <1>3, <1>7
  <2>2. Merge!Busy(p) = R /\ IsRows(all(p)) /\ \A k \in all(p) : k[1] \in readable
    BY <1>5, <1>6
  <2>3. IsRows(R) /\ B \in SUBSET Bots /\ \A k \in R : k[1] \in B
    BY <1>1, <2>2 DEF IsRows, Called, Callers
  <2>4. \A b \in B : RowsOf(R, b) = RowsOf(all(p), b)
    BY DEF Called, RowsOf
  <2>5. ASSUME NEW b \in B PROVE RowsOf(R, b) # {}
    <3>1. IsRows(RowsOf(R, b))
      BY <2>3 DEF RowsOf, IsRows
    <3>2. Merge!Calls(RowsOf(R, b)) > 0
      BY <2>4 DEF Callers
    <3>3. QED
      BY <3>1, <3>2, IdleRows
  <2>6. ASSUME NEW b \in B
        PROVE  /\ of[b][p].sums = Merge!Sums(RowsOf(R, b))
               /\ of[b][p].avg = Merge!AvgMessages(RowsOf(R, b), p)
    BY <1>3, <2>1, <2>4 DEF Callers
  <2>7. DOMAIN share(p) = B /\ \A b \in B : share(p)[b] = Merge!Sums(RowsOf(R, b))
    BY <2>1, <2>6
  <2>8. pairs(p) = {[bot |-> b, value |-> Merge!AvgMessages(RowsOf(R, b), p),
                     weight |-> Merge!Sums(RowsOf(R, b)).sessions] : b \in B}
    <3> HIDE DEF R, B
    <3>1. pairs(p) = {[bot |-> b, value |-> of[b][p].avg, weight |-> of[b][p].sums.sessions] : b \in B}
      BY <2>1
    <3>2. QED
      BY <2>6, <3>1
  <2>9. R # {}
    <3>1. PICK b \in B : TRUE
      BY <2>1
    <3>2. RowsOf(R, b) # {}
      BY <2>5
    <3>3. QED
      BY <3>2 DEF RowsOf
  <2>10. Merge!Calls(R) = Merge!Calls(all(p)) /\ Merge!Cost(R) = Merge!Cost(all(p))
    BY <2>2, IdleLeftOut
  <2> HIDE DEF share, R, B, pairs, with
  <2>11. Merge!AddUp(share(p)) = Merge!Sums(R)
    BY <2>3, <2>7, SumsOfBots
  <2>12. Merge!WeightedMean(pairs(p)) = Merge!AvgMessages(R, p)
    <3>1. CASE p # None
      BY <2>3, <2>5, <2>8, <2>9, <3>1, MeanOfPool
    <3>2. CASE p = None
      <4>1. \A S : Merge!AvgMessages(S, p) = None
        BY <3>2 DEF Merge!AvgMessages
      <4>2. \A x \in pairs(p) : x.value = None
        BY <2>8, <4>1
      <4>3. Merge!WeightedMean(pairs(p)) = None
        BY <4>2, MeanOfPruned
      <4>4. QED
        BY <4>1, <4>3
    <3>3. QED
      BY <3>1, <3>2
  <2>13. QED
    BY <2>2, <2>3, <2>10, <2>11, <2>12
<1>10. Merge!MergedEfficiency =
         [p \in domain |-> [sums |-> Merge!AddUp(share(p)), avg |-> Merge!WeightedMean(pairs(p))]]
  BY DEF Merge!MergedEfficiency, of
<1> HIDE DEF domain, share, pairs, with
<1>11. QED
  BY <1>8, <1>9, <1>10 DEF pool, all

\* Without a skipped bot that has spent, nothing is missing.
LEMMA LowerBound ==
  ASSUME MergeInv, \A b \in Merge!Skipped : ~(Merge!Cost(Merge!InWindow(b)) > 0)
  PROVE  Merge!Cost(UNION {Merge!InWindow(b) : b \in Bots}) = Merge!Cost(Merge!Pool)
<1> DEFINE every == UNION {Merge!InWindow(b) : b \in Bots}
           all   == [b \in Bots |-> Merge!Cost(Merge!InWindow(b))]
           read  == [b \in readable |-> Merge!Cost(Merge!InWindow(b))]
           to    == [b \in readable |-> b]
<1>1. /\ IsRows(Merge!Pool) /\ \A b \in Bots : IsRows(Merge!InWindow(b))
      /\ \A k \in Merge!Pool : k[1] \in readable
      /\ \A b \in readable : Merge!InWindow(b) = RowsOf(Merge!Pool, b)
      /\ readable \in SUBSET Bots
  BY PoolRows
<1>2. \A b \in Bots : Merge!Cost(Merge!InWindow(b)) \in Nat
  BY <1>1, RowsTyped
<1>3. all \in [Bots -> Nat] /\ read \in [readable -> Nat]
  BY <1>1, <1>2
<1>4. IsRows(every) /\ \A k \in every : k[1] \in Bots
  BY <1>1 DEF IsRows, Keys
<1>5. \A b \in Bots : Merge!InWindow(b) = RowsOf(every, b)
  <2>1. \A b \in Bots : \A k \in Merge!InWindow(b) : k[1] = b
    BY DEF Merge!InWindow
  <2>2. QED
    BY <2>1 DEF RowsOf
<1>6. Summary!AddedUp(all) = Merge!Cost(every)
  <2>1. DOMAIN all = Bots /\ \A b \in Bots : all[b] = Merge!Cost(RowsOf(every, b))
    BY <1>5
  <2> HIDE DEF all, every
  <2>2. QED
    BY <1>4, <2>1, CostOfBots
<1>7. Summary!AddedUp(read) = Merge!Cost(Merge!Pool)
  <2>1. DOMAIN read = readable /\ \A b \in readable : read[b] = Merge!Cost(RowsOf(Merge!Pool, b))
    BY <1>1
  <2> HIDE DEF read
  <2>2. QED
    BY <1>1, <2>1, CostOfBots
<1>8. Summary!AddedUp(read) = Summary!AddedUp(all)
  <2>1. IsFiniteSet(Bots) /\ IsFiniteSet(readable)
    BY <1>1, KeysFinite, FS_Subset
  <2>2. \A b \in readable : read[b] > 0 => to[b] \in Bots /\ all[to[b]] = read[b]
    BY <1>1
  <2>3. \A b, c \in readable : to[b] = to[c] => b = c
    OBVIOUS
  <2>4. \A b \in Bots : all[b] > 0 => \E c \in readable : read[c] > 0 /\ to[c] = b
    <3>1. ASSUME NEW b \in Bots, Merge!Cost(Merge!InWindow(b)) > 0
          PROVE  \E c \in readable : read[c] > 0 /\ to[c] = b
      <4>1. b \in readable
        BY <3>1 DEF Merge!Skipped
      <4>2. read[b] > 0 /\ to[b] = b
        BY <3>1, <4>1
      <4>3. QED
        BY <4>1, <4>2
    <3>2. QED
      BY <3>1
  <2> HIDE DEF read, all, to
  <2>5. QED
    BY <1>3, <2>1, <2>2, <2>3, <2>4, SumRenamed
<1>9. QED
  BY <1>6, <1>7, <1>8

LEMMA PooledFigures == ASSUME MergeInv PROVE Merge!AllIsThePool
<1> DEFINE pool   == Merge!Pool
           merged == Merge!MergedEfficiency
           every  == UNION {Merge!InWindow(b) : b \in Bots}
<1>1. Merge!MergedSummary = Merge!Summary(pool)
  BY SummaryOfPool
<1>2. Merge!MergedSummary.sums = Merge!Sums(pool) /\ Merge!MergedSummary.sums.cost = Merge!Cost(pool)
  BY <1>1 DEF Merge!Summary, Merge!Sums
<1>3. Merge!MergedSummary.sums = Merge!AddUp(Merge!PerBot)
  BY <1>2, BotsOfPool
<1>4. DOMAIN merged = DOMAIN Merge!Efficiency(pool)
  BY EfficiencyOfPool
<1>5. ASSUME NEW p \in DOMAIN merged
      PROVE  /\ merged[p].sums.calls = Merge!Efficiency(pool)[p].sums.calls
             /\ merged[p].sums.cost = Merge!Efficiency(pool)[p].sums.cost
             /\ merged[p].sums = Merge!Sums(Merge!Busy(p))
             /\ Merge!Same(merged[p].avg, Merge!AvgMessages(Merge!Busy(p), p))
  <2> DEFINE R == Merge!Busy(p)
  <2>1. /\ IsRows(R)
        /\ Merge!Calls(R) = Merge!Calls(Merge!Of(pool, p))
        /\ Merge!Cost(R) = Merge!Cost(Merge!Of(pool, p))
        /\ merged[p].sums = Merge!Sums(R)
        /\ merged[p].avg = Merge!AvgMessages(R, p)
    BY EfficiencyOfPool
  <2>2. Merge!Efficiency(pool)[p].sums = Merge!Sums(Merge!Of(pool, p))
    <3>1. IsRows(pool)
      BY PoolRows
    <3>2. QED
      BY <1>4, <3>1, EfficiencyOf
  <2>3. ASSUME NEW S
        PROVE  Merge!Sums(S).calls = Merge!Calls(S) /\ Merge!Sums(S).cost = Merge!Cost(S)
    BY DEF Merge!Sums
  <2> HIDE DEF merged, pool, R
  <2>4. /\ merged[p].sums.calls = Merge!Efficiency(pool)[p].sums.calls
        /\ merged[p].sums.cost = Merge!Efficiency(pool)[p].sums.cost
    BY <2>1, <2>2, <2>3
  <2>5. ASSUME NEW x, x = None \/ \E m, n \in Nat : x = <<m, n>> PROVE Merge!Same(x, x)
    BY <2>5 DEF Merge!Same
  <2>6. Merge!AvgMessages(R, p) = None \/ \E m, n \in Nat : Merge!AvgMessages(R, p) = <<m, n>>
    <3>1. IsFiniteSet(Merge!Talks(R)) /\ Merge!Talks(R) \in SUBSET (Bots \X Sessions)
      BY <2>1, RowsTyped
    <3>2. Messages(Merge!Talks(R)) \in Nat /\ Cardinality(Merge!Talks(R)) \in Nat
      BY <3>1, MessagesTyped, FS_CardinalityType
    <3>3. \/ Merge!AvgMessages(R, p) = None
          \/ Merge!AvgMessages(R, p) = <<Messages(Merge!Talks(R)), Cardinality(Merge!Talks(R))>>
      BY MergeSums, MergeSize DEF Merge!AvgMessages, Messages
    <3>4. QED
      BY <3>2, <3>3
  <2>7. QED
    BY <2>1, <2>4, <2>5, <2>6 DEF R
<1>6. Merge!MergedSummary.sums.cost < Merge!Cost(every)
        => \E b \in Merge!Skipped : Merge!Cost(Merge!InWindow(b)) > 0
  <2>1. SUFFICES ASSUME \A b \in Merge!Skipped : ~(Merge!Cost(Merge!InWindow(b)) > 0)
                 PROVE  ~(Merge!MergedSummary.sums.cost < Merge!Cost(every))
    OBVIOUS
  <2>2. Merge!Cost(every) = Merge!Cost(pool)
    BY <2>1, LowerBound
  <2>3. Merge!Cost(pool) \in Nat
    BY PoolRows, RowsTyped
  <2>4. QED
    BY <1>2, <2>2, <2>3
<1> HIDE DEF pool, merged, every
<1>7. QED
  BY <1>1, <1>3, <1>4, <1>5, <1>6, ModelsOfPool, PlatformsOfPool
     DEF Merge!AllIsThePool, pool, merged, every

\* What "all" shows is what one database with the rows of every readable bot
\* would show, idle rows and pruned sessions included; the averages are those of
\* the bots that made a call on the platform; and a total that leaves spend out
\* names the bot (cost_merge.py, dashboard_all, over hermes_usage.py, dashboard).
THEOREM AllIsOnePool == Spec => []AllIsThePool
<1>1. (part = "merge" => MergeInv) => AllIsThePool
  BY PooledFigures DEF AllIsThePool
<1>2. QED
  BY <1>1, MergeSteps, PTL

-----------------------------------------------------------------------------
(* Lists that are sorted and cut.                                          *)

\* A list that may be left of a table when it is cut after n rows.
IsTop(top, value, n) ==
  /\ top \subseteq DOMAIN value
  /\ Cardinality(top) = IF Cardinality(DOMAIN value) < n THEN Cardinality(DOMAIN value) ELSE n
  /\ \A x \in top, y \in DOMAIN value \ top : value[x] >= value[y]

\* The parts of a table put together, and the list left of one part.
Together(parts, B) == UNION {parts[b] : b \in B}
IsTopOf(top, value, P, n) == IsTop(top, [x \in P |-> value[x]], n)

LEMMA ListsAreTops ==
  ASSUME NEW value, IsFiniteSet(DOMAIN value), NEW n \in Nat
  PROVE  /\ Merge!TopLists(value, n) = {top \in SUBSET DOMAIN value : IsTop(top, value, n)}
         /\ Panels!TopLists(value, n) = {top \in SUBSET DOMAIN value : IsTop(top, value, n)}
<1> DEFINE size == Cardinality(DOMAIN value)
           cut  == IF size < n THEN size ELSE n
<1>1. size \in Nat
  BY FS_CardinalityType
<1> HIDE DEF size
<1>2. cut \in {n, size} /\ \A y \in {n, size} : cut <= y
  BY <1>1
<1>3. ASSUME NEW m \in {n, size}, \A y \in {n, size} : m <= y PROVE m = cut
  BY <1>1, <1>3
<1> HIDE DEF cut
<1>4. (CHOOSE m \in {n, size} : \A y \in {n, size} : m <= y) = cut
  BY <1>2, <1>3
<1>5. \A S : Merge!Cardinality(S) = Cardinality(S) /\ Panels!Cardinality(S) = Cardinality(S)
  BY Zenon DEF Merge!Cardinality, Panels!Cardinality, Cardinality
<1>6. /\ Merge!Min({n, Merge!Cardinality(DOMAIN value)}) = cut
      /\ Panels!Min({n, Panels!Cardinality(DOMAIN value)}) = cut
  BY <1>4, <1>5 DEF Merge!Min, Panels!Min, size
<1>7. \A top : IsTop(top, value, n) <=>
        /\ top \subseteq DOMAIN value /\ Cardinality(top) = cut
        /\ \A x \in top, y \in DOMAIN value \ top : value[x] >= value[y]
  BY DEF IsTop, cut, size
<1>8. Merge!TopLists(value, n) = {top \in SUBSET DOMAIN value : IsTop(top, value, n)}
  BY <1>5, <1>6, <1>7 DEF Merge!TopLists, Merge!kSubset
<1>9. Panels!TopLists(value, n) = {top \in SUBSET DOMAIN value : IsTop(top, value, n)}
  BY <1>5, <1>6, <1>7 DEF Panels!TopLists, Panels!kSubset
<1>10. QED
  BY <1>8, <1>9

\* Cutting the tables of the parts before they are put together loses nothing
\* that belongs into the table of the whole.
LEMMA CutTwice ==
  ASSUME NEW S, IsFiniteSet(S), NEW value \in [S -> Nat], NEW n \in Nat, NEW B,
         NEW piece, S = Together(piece, B),
         NEW t, \A b \in B : IsTopOf(t[b], value, piece[b], n),
         NEW top, IsTopOf(top, value, Together(t, B), n)
  PROVE  IsTop(top, value, n)
<1> DEFINE U == Together(t, B)
<1>1. ASSUME NEW b \in B
      PROVE  /\ t[b] \subseteq piece[b] /\ piece[b] \subseteq S
             /\ IsFiniteSet(t[b]) /\ IsFiniteSet(piece[b])
             /\ Cardinality(t[b]) = IF Cardinality(piece[b]) < n THEN Cardinality(piece[b]) ELSE n
             /\ \A x \in t[b], y \in piece[b] \ t[b] : value[x] >= value[y]
  <2>1. t[b] \subseteq piece[b] /\ piece[b] \subseteq S
    BY DEF IsTop, IsTopOf, Together
  <2>2. IsFiniteSet(t[b]) /\ IsFiniteSet(piece[b])
    BY <2>1, FS_Subset
  <2>3. QED
    BY <2>1, <2>2 DEF IsTop, IsTopOf
<1>2. U \subseteq S /\ IsFiniteSet(U)
  <2>1. U \subseteq S
    BY <1>1 DEF Together
  <2>2. QED
    BY <2>1, FS_Subset
<1>3. /\ top \subseteq U /\ IsFiniteSet(top)
      /\ Cardinality(top) = IF Cardinality(U) < n THEN Cardinality(U) ELSE n
      /\ \A x \in top, y \in U \ top : value[x] >= value[y]
  <2>1. top \subseteq U
    BY DEF IsTop, IsTopOf, Together
  <2>2. IsFiniteSet(top)
    BY <1>2, <2>1, FS_Subset
  <2>3. QED
    BY <2>1, <2>2 DEF IsTop, IsTopOf
<1>4. /\ Cardinality(S) \in Nat /\ Cardinality(U) \in Nat /\ Cardinality(top) \in Nat
      /\ Cardinality(U) <= Cardinality(S)
      /\ \A b \in B : Cardinality(t[b]) \in Nat /\ Cardinality(piece[b]) \in Nat
  BY <1>1, <1>2, <1>3, FS_CardinalityType, FS_Subset
<1>5. ASSUME NEW y \in S \ U
      PROVE  \E b \in B : y \in piece[b] \ t[b] /\ Cardinality(t[b]) = n
  <2>1. PICK b \in B : y \in piece[b]
    BY DEF Together
  <2>2. y \notin t[b]
    BY DEF Together
  <2>3. Cardinality(t[b]) # Cardinality(piece[b])
    BY <1>1, <2>1, <2>2, FS_Subset
  <2>4. QED
    BY <1>1, <2>1, <2>2, <2>3
<1>6. S # U => Cardinality(U) >= n
  <2>1. SUFFICES ASSUME S # U PROVE Cardinality(U) >= n
    OBVIOUS
  <2>2. PICK b \in B : Cardinality(t[b]) = n
    BY <1>2, <1>5, <2>1
  <2>3. t[b] \in SUBSET U
    BY DEF Together
  <2>4. QED
    BY <1>2, <2>2, <2>3, FS_Subset, <1>4
<1>7. Cardinality(top) = IF Cardinality(S) < n THEN Cardinality(S) ELSE n
  <2>1. CASE S = U
    BY <1>3, <2>1
  <2>2. CASE S # U
    <3>1. Cardinality(U) >= n /\ Cardinality(S) >= n
      BY <1>4, <1>6, <2>2
    <3>2. QED
      BY <1>3, <1>4, <3>1
  <2>3. QED
    BY <2>1, <2>2
<1>8. ASSUME NEW x \in top, NEW y \in S \ top PROVE value[x] >= value[y]
  <2>1. CASE y \in U
    BY <1>3, <2>1
  <2>2. CASE y \notin U
    <3>1. PICK b \in B : y \in piece[b] \ t[b] /\ Cardinality(t[b]) = n
      BY <1>5, <2>2
    <3>2. CASE t[b] \subseteq top
      <4>1. Cardinality(t[b]) <= Cardinality(top)
        BY <1>3, <3>2, FS_Subset
      <4>2. Cardinality(top) = Cardinality(t[b])
        BY <1>3, <1>4, <3>1, <4>1
      <4>3. top = t[b]
        BY <1>3, <3>2, <4>2, FS_Subset
      <4>4. QED
        BY <1>1, <3>1, <4>3
    <3>3. CASE ~(t[b] \subseteq top)
      <4>1. PICK z \in t[b] : z \notin top
        BY <3>3
      <4>2. z \in U \ top
        BY <4>1 DEF Together
      <4>3. value[x] >= value[z] /\ value[z] >= value[y]
        BY <1>1, <1>3, <3>1, <4>1, <4>2
      <4>4. value[x] \in Nat /\ value[y] \in Nat /\ value[z] \in Nat
        BY <1>1, <1>2, <1>3, <3>1, <4>1
      <4>5. QED
        BY <4>3, <4>4
    <3>4. QED
      BY <3>2, <3>3
  <2>3. QED
    BY <2>1, <2>2
<1>9. DOMAIN value = S
  OBVIOUS
<1>10. QED
  BY <1>2, <1>3, <1>7, <1>8, <1>9 DEF IsTop

\* The session table.
LEMMA TableOfPool == ASSUME MergeInv PROVE Merge!TopSessionsAreTheTop
<1> DEFINE rows    == Merge!BySession(Merge!Pool)
           talk(b) == Merge!Talks(Merge!InWindow(b))
           of      == [b \in readable |-> Merge!TopLists(Merge!Restrict(rows, talk(b)), Merge!BotLimit)]
           tables  == {t \in [readable -> UNION Merge!Range(of)] : \A b \in readable : t[b] \in of[b]}
           S       == Merge!Talks(Merge!Pool)
           piece   == [b \in readable |-> talk(b)]
<1>1. /\ IsRows(Merge!Pool) /\ \A b \in readable : Merge!InWindow(b) \subseteq Merge!Pool
      /\ Merge!Pool = UNION {Merge!InWindow(b) : b \in readable}
  BY PoolRows DEF Merge!Pool
<1>2. IsFiniteSet(S)
  BY <1>1, RowsTyped
<1>3. rows \in [S -> Nat]
  <2>1. \A t \in S : Merge!Cost({k \in Merge!Pool : <<k[1], k[2]>> = t}) \in Nat
    <3>1. TAKE t \in S
    <3>2. IsRows({k \in Merge!Pool : <<k[1], k[2]>> = t})
      BY <1>1 DEF IsRows
    <3>3. QED
      BY <3>2, RowsTyped
  <2>2. QED
    BY <2>1 DEF Merge!BySession
<1>4. S = Together(piece, readable) /\ \A b \in readable : piece[b] \subseteq S
  BY <1>1 DEF Merge!Talks, Together
<1>5. Merge!BotLimit = Limit /\ Limit \in Nat
  BY KeysFinite DEF Merge!BotLimit
<1>6. SUFFICES ASSUME NEW t \in tables,
                      NEW top \in Merge!TopLists(Merge!Restrict(rows, UNION Merge!Range(t)), Limit)
               PROVE  top \in Merge!TopLists(rows, Limit)
  BY DEF Merge!TopSessionsAreTheTop, Merge!MergedSessions
<1>7. \A b \in readable : t[b] \in of[b]
  BY <1>6
<1>8. DOMAIN t = readable
  BY <1>6
<1>9. UNION Merge!Range(t) = UNION {t[b] : b \in readable}
  BY <1>8 DEF Merge!Range
<1> HIDE DEF rows, S, tables
<1>10. ASSUME NEW b \in readable
       PROVE  t[b] \subseteq piece[b] /\ IsTopOf(t[b], rows, piece[b], Limit)
  <2> DEFINE own == [x \in piece[b] |-> rows[x]]
  <2>1. t[b] \in Merge!TopLists(own, Limit)
    BY <1>5, <1>7 DEF Merge!Restrict
  <2>2. DOMAIN own = piece[b]
    OBVIOUS
  <2>3. IsFiniteSet(DOMAIN own)
    BY <1>2, <1>4, <2>2, FS_Subset
  <2> HIDE DEF own, piece
  <2>4. t[b] \in {x \in SUBSET DOMAIN own : IsTop(x, own, Limit)}
    BY <1>5, <2>1, <2>3, ListsAreTops
  <2>5. t[b] \subseteq DOMAIN own /\ IsTop(t[b], own, Limit)
    BY <2>4
  <2>6. QED
    BY <2>2, <2>5 DEF own, IsTopOf
<1>11. IsTopOf(top, rows, Together(t, readable), Limit)
  <2> DEFINE both == [x \in UNION {t[b] : b \in readable} |-> rows[x]]
  <2>1. top \in Merge!TopLists(both, Limit)
    BY <1>6, <1>9 DEF Merge!Restrict
  <2>2. DOMAIN both \in SUBSET S
    BY <1>4, <1>10
  <2>3. IsFiniteSet(DOMAIN both)
    BY <1>2, <2>2, FS_Subset
  <2> HIDE DEF both
  <2>4. top \in {x \in SUBSET DOMAIN both : IsTop(x, both, Limit)}
    BY <1>5, <2>1, <2>3, ListsAreTops
  <2>5. QED
    BY <2>4 DEF both, IsTopOf, Together
<1> HIDE DEF piece, of
<1>12. \A b \in readable : IsTopOf(t[b], rows, piece[b], Limit)
  BY <1>10
<1>13. IsTop(top, rows, Limit)
  BY <1>2, <1>3, <1>4, <1>5, <1>11, <1>12, CutTwice
<1>14. IsFiniteSet(DOMAIN rows)
  BY <1>2, <1>3
<1>15. Merge!TopLists(rows, Limit) = {x \in SUBSET DOMAIN rows : IsTop(x, rows, Limit)}
  BY <1>5, <1>14, ListsAreTops
<1>16. QED
  BY <1>13, <1>15 DEF IsTop

\* The merged session table holds the dearest sessions of the fleet.
THEOREM DearestOfTheFleet == Spec => []TopSessionsAreTheTop
<1>1. (part = "merge" => MergeInv) => TopSessionsAreTheTop
  BY TableOfPool DEF TopSessionsAreTheTop
<1>2. QED
  BY <1>1, MergeSteps, PTL

-----------------------------------------------------------------------------
(* The panels without money.                                               *)

LEMMA PanelSums == ASSUME NEW f PROVE Panels!AddedUp(f) = Summary!AddedUp(f)
<1>1. Panels!AddedUp(f) = (CHOOSE h : IsTotal(h, f, DOMAIN f))[DOMAIN f]
  BY Zenon DEF Panels!AddedUp, Panels!MapThenSumSet, Panels!MapThenFoldSet, IsTotal, Unfolded, Pick
<1>2. QED
  BY <1>1, SumUnfolds

LEMMA PanelSize == ASSUME NEW S PROVE Panels!Cardinality(S) = Cardinality(S)
  BY Zenon DEF Panels!Cardinality, Cardinality

LEMMA PanelMeans == ASSUME NEW pairs PROVE Panels!WeightedMean(pairs) = Merge!WeightedMean(pairs)
  BY PanelSums, MergeSums DEF Panels!WeightedMean, Merge!WeightedMean

\* A sum of fewer and smaller terms is smaller.
LEMMA SumGrows ==
  ASSUME NEW C, IsFiniteSet(C), NEW f \in [C -> Nat],
         NEW D \in SUBSET C, NEW g \in [D -> Nat], \A d \in D : g[d] <= f[d]
  PROVE  Summary!AddedUp(g) <= Summary!AddedUp(f)
<1>1. IsFiniteSet(D)
  BY FS_Subset
<1>2. Stack(g) \in SUBSET Stack(f)
  <2>1. ASSUME NEW o \in Stack(g) PROVE o \in Stack(f)
    <3>1. o[1] \in D /\ o[2] \in Nat /\ 1 <= o[2] /\ o[2] <= g[o[1]] /\ o = <<o[1], o[2]>>
      BY DEF Stack
    <3>2. g[o[1]] \in Nat /\ f[o[1]] \in Nat /\ g[o[1]] <= f[o[1]] /\ o[1] \in C
      BY <3>1
    <3>3. o[2] <= f[o[1]]
      BY <3>1, <3>2
    <3>4. QED
      BY <3>1, <3>2, <3>3 DEF Stack
  <2>2. QED
    BY <2>1
<1>3. Cardinality(Stack(g)) <= Cardinality(Stack(f))
  BY <1>2, StackFinite, FS_Subset
<1>4. QED
  BY <1>1, <1>3, SumIsStack

\* Terms that are not there count as zeros.
Padded(f, C) == [c \in C |-> IF c \in DOMAIN f THEN f[c] ELSE 0]

LEMMA SumOfPadded ==
  ASSUME NEW C, IsFiniteSet(C), NEW D \in SUBSET C, NEW f \in [D -> Nat]
  PROVE  Padded(f, C) \in [C -> Nat] /\ Summary!AddedUp(Padded(f, C)) = Summary!AddedUp(f)
<1>1. Padded(f, C) \in [C -> Nat]
  BY DEF Padded
<1>2. Stack(Padded(f, C)) = Stack(f)
  <2>1. DOMAIN f = D /\ DOMAIN Padded(f, C) = C
    BY DEF Padded
  <2>2. \A c \in C : Padded(f, C)[c] = IF c \in D THEN f[c] ELSE 0
    BY <2>1 DEF Padded
  <2>3. QED
    BY <2>1, <2>2 DEF Stack
<1>3. IsFiniteSet(D)
  BY FS_Subset
<1>4. QED
  BY <1>1, <1>2, <1>3, SumIsStack

\* A finite set of numbers that is not empty has a greatest element.
LEMMA Greatest ==
  ASSUME NEW S \in SUBSET Nat, IsFiniteSet(S), S # {}
  PROVE  \E m \in S : \A n \in S : n <= m
<1> DEFINE f == [n \in S |-> n]
           bounds == {b \in Nat : \A n \in S : n <= b}
<1>1. f \in [S -> Nat]
  OBVIOUS
<1>2. Summary!AddedUp(f) \in Nat
  BY <1>1, SumIsStack
<1>3. ASSUME NEW n \in S PROVE n <= Summary!AddedUp(f)
  <2>1. Layer(f, n) \in SUBSET Stack(f)
    BY DEF Layer, Stack
  <2>2. Cardinality(Layer(f, n)) <= Cardinality(Stack(f))
    BY <1>1, <2>1, StackFinite, FS_Subset
  <2>3. Cardinality(Layer(f, n)) = f[n] /\ f[n] = n
    BY <1>1, LayerSize
  <2>4. Summary!AddedUp(f) = Cardinality(Stack(f))
    BY <1>1, SumIsStack
  <2>5. QED
    BY <2>2, <2>3, <2>4
<1>4. bounds # {} /\ bounds \subseteq Nat
  BY <1>2, <1>3
<1>5. PICK b \in bounds : \A c \in bounds : b <= c
  <2> HIDE DEF bounds
  <2>1. QED
    BY <1>4, Least
<1>6. b \in S
  <2>1. SUFFICES ASSUME b \notin S PROVE FALSE
    OBVIOUS
  <2>2. \A n \in S : n \in Nat /\ n <= b /\ n # b
    BY <2>1
  <2>3. PICK n \in S : TRUE
    OBVIOUS
  <2>4. b - 1 \in Nat
    BY <2>2, <2>3
  <2>5. \A m \in S : m <= b - 1
    BY <2>2
  <2>6. b <= b - 1
    BY <1>5, <2>4, <2>5
  <2>7. QED
    BY <2>6
<1>7. QED
  BY <1>6

LEMMA MaxIs ==
  ASSUME NEW S \in SUBSET Nat, IsFiniteSet(S), S # {}
  PROVE  Panels!Max(S) \in S /\ \A n \in S : n <= Panels!Max(S)
<1>1. \E m \in S : \A n \in S : m >= n
  BY Greatest
<1>2. QED
  BY <1>1 DEF Panels!Max

LEMMA MinIs ==
  ASSUME NEW S \in SUBSET Nat, S # {}
  PROVE  Panels!Min(S) \in S /\ \A n \in S : Panels!Min(S) <= n
<1>1. \E m \in S : \A n \in S : m <= n
  BY Least
<1>2. QED
  BY <1>1 DEF Panels!Min

PromptRow == [platform : Prompts, prompt : Lengths \cup {None}, recent : BOOLEAN]

PanelsInv ==
  /\ sessions \in [Bots -> [Sessions -> PromptRow \cup {None}]]
  /\ calls \in [Bots -> [Tools -> Nat]]
  /\ snapshots \subseteq Bots

LEMMA PanelsFinite ==
  /\ IsFiniteSet(Bots) /\ IsFiniteSet(Bots \X Sessions) /\ IsFiniteSet(Tools)
  /\ Lengths \subseteq Nat /\ ListLength \in Nat \ {0}
<1>1. /\ IsFiniteSet(Bots) /\ IsFiniteSet(Sessions) /\ IsFiniteSet(Tools)
      /\ Lengths \subseteq Nat /\ ListLength \in Nat \ {0}
  BY MergeAssumptions DEF Panels!PanelsAssumption, Panels!IsFiniteSet, IsFiniteSet
<1>2. QED
  BY <1>1, FS_Product

LEMMA PanelsInit == ASSUME Panels!Init PROVE PanelsInv
  BY DEF Panels!Init, PanelsInv

LEMMA PanelsStep == ASSUME PanelsInv, Panels!Next PROVE PanelsInv'
<1>1. PICK b \in Bots :
        \/ Panels!Flip(b)
        \/ \E t \in Tools : Panels!UseTool(b, t)
        \/ \E s \in Sessions :
             \/ Panels!Age(b, s)
             \/ \E p \in Prompts, n \in Lengths \cup {None} : Panels!Open(b, s, p, n)
  BY DEF Panels!Next
<1>2. CASE Panels!Flip(b)
  BY <1>2 DEF Panels!Flip, PanelsInv
<1>3. ASSUME NEW t \in Tools, Panels!UseTool(b, t) PROVE PanelsInv'
  <2>1. calls' = [calls EXCEPT ![b][t] = calls[b][t] + 1]
    BY <1>3, Zenon DEF Panels!UseTool
  <2>2. calls[b][t] + 1 \in Nat
    BY DEF PanelsInv
  <2>3. calls' \in [Bots -> [Tools -> Nat]]
    BY <2>1, <2>2 DEF PanelsInv
  <2>4. QED
    BY <1>3, <2>3 DEF Panels!UseTool, PanelsInv
<1>4. ASSUME NEW s \in Sessions, Panels!Age(b, s) PROVE PanelsInv'
  <2>1. sessions[b][s] \in PromptRow
    BY <1>4 DEF Panels!Age, PanelsInv
  <2>2. [sessions[b][s] EXCEPT !.recent = FALSE] \in PromptRow
    BY <2>1 DEF PromptRow
  <2>3. sessions' = [sessions EXCEPT ![b][s] = [sessions[b][s] EXCEPT !.recent = FALSE]]
    BY <1>4 DEF Panels!Age
  <2>4. sessions' \in [Bots -> [Sessions -> PromptRow \cup {None}]]
    BY <2>2, <2>3 DEF PanelsInv
  <2>5. QED
    BY <1>4, <2>4 DEF Panels!Age, PanelsInv
<1>5. ASSUME NEW s \in Sessions, NEW p \in Prompts, NEW n \in Lengths \cup {None},
             Panels!Open(b, s, p, n)
      PROVE  PanelsInv'
  <2>1. [platform |-> p, prompt |-> n, recent |-> TRUE] \in PromptRow
    BY DEF PromptRow
  <2>2. sessions' \in [Bots -> [Sessions -> PromptRow \cup {None}]]
    BY <1>5, <2>1 DEF Panels!Open, PanelsInv
  <2>3. QED
    BY <1>5, <2>2 DEF Panels!Open, PanelsInv
<1>6. QED
  BY <1>1, <1>2, <1>3, <1>4, <1>5

LEMMA PanelsSteps == Spec => [](part = "panels" => PanelsInv)
<1>1. Init /\ part = "panels" => PanelsInv
  BY PanelsInit DEF Init
<1>2. (part = "panels" => PanelsInv) /\ [Next]_vars => (part = "panels" => PanelsInv)'
  <2>1. SUFFICES ASSUME part = "panels" => PanelsInv, [Next]_vars, part' = "panels" PROVE PanelsInv'
    OBVIOUS
  <2>2. CASE UNCHANGED vars
    BY <2>1, <2>2 DEF vars, panels, PanelsInv
  <2>3. CASE Panels!Next /\ part = "panels"
    BY <2>1, <2>3, PanelsStep
  <2>4. QED
    BY <2>1, <2>2, <2>3 DEF Next
<1>3. QED
  BY <1>1, <1>2, PTL DEF Spec

\* Sessions with a system prompt, those of one platform and those of one bot.
ArePrompted(K) == K \subseteq Bots \X Sessions /\ \A k \in K : Panels!Session(k).prompt \in Nat
Prompting(K, p) == {k \in K : Panels!Session(k).platform = p}
Letters(K) == Summary!AddedUp([k \in K |-> Panels!Session(k).prompt])
LengthsOf(K) == {Panels!Session(k).prompt : k \in K}

LEMMA PromptedTyped ==
  ASSUME PanelsInv
  PROVE  /\ \A b \in Bots : /\ ArePrompted(Panels!Prompted(b))
                            /\ \A k \in Panels!Prompted(b) : k[1] = b
         /\ snapshots \in SUBSET Bots
<1>1. ASSUME NEW b \in Bots, NEW k \in Panels!Prompted(b)
      PROVE  k \in Bots \X Sessions /\ k[1] = b /\ Panels!Session(k).prompt \in Nat
  <2>1. PICK s \in Sessions :
          /\ k = <<b, s>> /\ sessions[b][s] # None /\ sessions[b][s].prompt # None
    BY DEF Panels!Prompted
  <2>2. sessions[b][s] \in PromptRow
    BY <2>1 DEF PanelsInv
  <2>3. sessions[b][s].prompt \in Nat
    BY <2>1, <2>2, PanelsFinite DEF PromptRow
  <2>4. QED
    BY <2>1, <2>3 DEF Panels!Session
<1>2. QED
  BY <1>1 DEF ArePrompted, PanelsInv

LEMMA LengthsTyped ==
  ASSUME NEW K, ArePrompted(K)
  PROVE  /\ IsFiniteSet(K) /\ LengthsOf(K) \in SUBSET Nat /\ IsFiniteSet(LengthsOf(K))
         /\ [k \in K |-> Panels!Session(k).prompt] \in [K -> Nat]
         /\ Letters(K) \in Nat /\ Cardinality(K) \in Nat
<1> DEFINE f == [k \in K |-> Panels!Session(k).prompt]
<1>1. IsFiniteSet(K)
  BY PanelsFinite, FS_Subset DEF ArePrompted
<1>2. f \in [K -> Nat]
  BY DEF ArePrompted
<1>3. LengthsOf(K) = {f[k] : k \in DOMAIN f} /\ DOMAIN f = K
  BY DEF LengthsOf
<1>4. LengthsOf(K) \in SUBSET Nat
  BY DEF ArePrompted, LengthsOf
<1>5. Letters(K) = Summary!AddedUp(f)
  BY DEF Letters
<1> HIDE DEF f
<1>6. IsFiniteSet(LengthsOf(K))
  BY <1>1, <1>3, ImageFinite
<1>7. Letters(K) \in Nat /\ Cardinality(K) \in Nat
  BY <1>1, <1>2, <1>5, SumIsStack, FS_CardinalityType
<1>8. QED
  BY <1>1, <1>2, <1>4, <1>6, <1>7 DEF f

LEMMA BudgetOf ==
  ASSUME NEW K
  PROVE  /\ \A p : p \in DOMAIN Panels!Budget(K) <=> Prompting(K, p) # {}
         /\ \A p \in DOMAIN Panels!Budget(K) :
              /\ Panels!Budget(K)[p].sessions = Cardinality(Prompting(K, p))
              /\ Panels!Budget(K)[p].avg = <<Letters(Prompting(K, p)), Cardinality(Prompting(K, p))>>
              /\ Panels!Budget(K)[p].max = Panels!Max(LengthsOf(Prompting(K, p)))
<1>1. DOMAIN Panels!Budget(K) = {Panels!Session(k).platform : k \in K}
  BY DEF Panels!Budget
<1>2. \A p : p \in DOMAIN Panels!Budget(K) <=> Prompting(K, p) # {}
  BY <1>1 DEF Prompting
<1>3. ASSUME NEW p \in DOMAIN Panels!Budget(K)
      PROVE  /\ Panels!Budget(K)[p].sessions = Cardinality(Prompting(K, p))
             /\ Panels!Budget(K)[p].avg = <<Letters(Prompting(K, p)), Cardinality(Prompting(K, p))>>
             /\ Panels!Budget(K)[p].max = Panels!Max(LengthsOf(Prompting(K, p)))
  <2> DEFINE P == Prompting(K, p)
  <2>1. Panels!Budget(K)[p] =
          [sessions |-> Panels!Cardinality(P),
           avg |-> <<Panels!AddedUp([k \in P |-> Panels!Session(k).prompt]), Panels!Cardinality(P)>>,
           max |-> Panels!Max({Panels!Session(k).prompt : k \in P})]
    BY <1>1 DEF Panels!Budget, Prompting
  <2> HIDE DEF P
  <2>2. /\ Panels!Cardinality(P) = Cardinality(P)
        /\ Panels!AddedUp([k \in P |-> Panels!Session(k).prompt]) = Letters(P)
        /\ {Panels!Session(k).prompt : k \in P} = LengthsOf(P)
    BY PanelSize, PanelSums DEF Letters, LengthsOf
  <2>3. Panels!Budget(K)[p] =
          [sessions |-> Cardinality(P), avg |-> <<Letters(P), Cardinality(P)>>,
           max |-> Panels!Max(LengthsOf(P))]
    BY <2>1, <2>2, Zenon
  <2>4. /\ Panels!Budget(K)[p].sessions = Cardinality(P)
        /\ Panels!Budget(K)[p].avg = <<Letters(P), Cardinality(P)>>
        /\ Panels!Budget(K)[p].max = Panels!Max(LengthsOf(P))
    BY <2>3
  <2>5. QED
    BY <2>4 DEF P
<1>4. QED
  BY <1>2, <1>3

\* Prompt sizes of one platform, bot by bot.
AreParts(parts, K, B) ==
  /\ \A k \in K : k[1] \in B
  /\ \A b \in B : parts[b] = {k \in K : k[1] = b} /\ parts[b] # {}
SizesOf(parts, B) == [b \in B |-> Cardinality(parts[b])]
PairsOf(parts, B) ==
  {[bot |-> b, value |-> <<Letters(parts[b]), Cardinality(parts[b])>>,
    weight |-> Cardinality(parts[b])] : b \in B}
LongestOf(parts, B) == {Panels!Max(LengthsOf(parts[b])) : b \in B}

LEMMA PromptsOfBots ==
  ASSUME NEW K, ArePrompted(K), K # {}, NEW B \in SUBSET Bots, NEW parts, AreParts(parts, K, B)
  PROVE  /\ Summary!AddedUp(SizesOf(parts, B)) = Cardinality(K)
         /\ Panels!WeightedMean(PairsOf(parts, B)) = <<Letters(K), Cardinality(K)>>
         /\ Panels!Max(LongestOf(parts, B)) = Panels!Max(LengthsOf(K))
<1> DEFINE f     == [k \in K |-> Panels!Session(k).prompt]
           label == [k \in K |-> k[1]]
           total == [b \in B |-> Letters(parts[b])]
           count == SizesOf(parts, B)
           most  == [b \in B |-> Panels!Max(LengthsOf(parts[b]))]
<1>1. /\ IsFiniteSet(K) /\ IsFiniteSet(B) /\ f \in [K -> Nat] /\ Letters(K) = Summary!AddedUp(f)
      /\ LengthsOf(K) \in SUBSET Nat /\ IsFiniteSet(LengthsOf(K))
  BY LengthsTyped, PanelsFinite, FS_Subset DEF Letters
<1>2. B # {}
  BY DEF AreParts
<1>3. ASSUME NEW b \in B
      PROVE  /\ ArePrompted(parts[b]) /\ parts[b] \in SUBSET K /\ parts[b] # {}
             /\ parts[b] = {k \in K : label[k] = b}
             /\ Letters(parts[b]) \in Nat /\ Cardinality(parts[b]) \in Nat \ {0}
             /\ LengthsOf(parts[b]) \in SUBSET Nat /\ IsFiniteSet(LengthsOf(parts[b]))
             /\ LengthsOf(parts[b]) # {}
  <2>1. parts[b] \in SUBSET K /\ parts[b] = {k \in K : label[k] = b} /\ parts[b] # {}
    BY DEF AreParts
  <2>2. ArePrompted(parts[b])
    BY <2>1 DEF ArePrompted
  <2>3. /\ Letters(parts[b]) \in Nat /\ Cardinality(parts[b]) \in Nat /\ IsFiniteSet(parts[b])
        /\ LengthsOf(parts[b]) \in SUBSET Nat /\ IsFiniteSet(LengthsOf(parts[b]))
    BY <2>2, LengthsTyped
  <2>4. Cardinality(parts[b]) # 0
    BY <2>1, <2>3, FS_EmptySet
  <2>5. LengthsOf(parts[b]) # {}
    <3>1. PICK k \in parts[b] : TRUE
      BY <2>1
    <3>2. Panels!Session(k).prompt \in LengthsOf(parts[b])
      BY <3>1 DEF LengthsOf
    <3>3. QED
      BY <3>2
  <2>6. QED
    BY <2>1, <2>2, <2>3, <2>4, <2>5
<1>4. \A k \in K : label[k] \in B
  BY DEF AreParts
<1>5. /\ total \in [B -> Nat] /\ count \in [B -> Nat \ {0}]
      /\ \A b \in B : count[b] = Cardinality({k \in K : label[k] = b})
  BY <1>3 DEF SizesOf
<1>6. \A b \in B : total[b] = Summary!AddedUp([k \in {j \in K : label[j] = b} |-> f[k]])
  <2>1. TAKE b \in B
  <2>2. [k \in parts[b] |-> Panels!Session(k).prompt] = [k \in {j \in K : label[j] = b} |-> f[k]]
    BY <1>3
  <2>3. total[b] = Summary!AddedUp([k \in parts[b] |-> Panels!Session(k).prompt])
    BY DEF Letters
  <2>4. QED
    BY <2>2, <2>3
<1>7. PairsOf(parts, B) = MeansOf(B, total, count)
  BY DEF MeansOf, PairsOf, SizesOf
<1>8. \A b \in B : most[b] \in LengthsOf(parts[b]) /\ \A n \in LengthsOf(parts[b]) : n <= most[b]
  BY <1>3, MaxIs
<1>9. Panels!Max({most[b] : b \in B}) = Panels!Max(LengthsOf(K))
  <2> DEFINE M == {most[b] : b \in B}
  <2>1. \A n \in LengthsOf(K) : \E b \in B : n \in LengthsOf(parts[b])
    <3>1. TAKE n \in LengthsOf(K)
    <3>2. PICK k \in K : n = Panels!Session(k).prompt
      BY DEF LengthsOf
    <3>3. k[1] \in B /\ k \in parts[k[1]]
      BY DEF AreParts
    <3>4. n \in LengthsOf(parts[k[1]])
      BY <3>2, <3>3 DEF LengthsOf
    <3>5. QED
      BY <3>3, <3>4
  <2>2. \A b \in B : LengthsOf(parts[b]) \subseteq LengthsOf(K)
    BY <1>3 DEF LengthsOf
  <2>3. M \in SUBSET LengthsOf(K) /\ M # {}
    BY <1>2, <1>8, <2>2
  <2>4. IsFiniteSet(M) /\ M \in SUBSET Nat /\ LengthsOf(K) # {}
    BY <1>1, <2>3, FS_Subset
  <2>5. ASSUME NEW n \in LengthsOf(K) PROVE \E m \in M : n <= m
    BY <1>8, <2>1
  <2> HIDE DEF M, most
  <2>6. Panels!Max(M) \in M /\ \A n \in M : n <= Panels!Max(M)
    BY <2>3, <2>4, MaxIs
  <2>7. Panels!Max(LengthsOf(K)) \in LengthsOf(K) /\ \A n \in LengthsOf(K) : n <= Panels!Max(LengthsOf(K))
    BY <1>1, <2>4, MaxIs
  <2>8. PICK m \in M : Panels!Max(LengthsOf(K)) <= m
    BY <2>5, <2>7
  <2>9. Panels!Max(M) <= Panels!Max(LengthsOf(K)) /\ m <= Panels!Max(M)
    BY <2>3, <2>6, <2>7
  <2>10. Panels!Max(M) \in Nat /\ m \in Nat /\ Panels!Max(LengthsOf(K)) \in Nat
    BY <1>1, <2>4, <2>6, <2>7
  <2>11. QED
    BY <2>8, <2>9, <2>10 DEF M
<1>10. None \notin Nat \X Nat
  BY KeysFinite
<1>11. DOMAIN count = B /\ DOMAIN total = B
  BY <1>5
<1>12. LongestOf(parts, B) = {most[b] : b \in B}
  BY DEF LongestOf
<1> HIDE DEF f, label, total, most, count
<1>13. Summary!AddedUp(count) = Cardinality(K)
  BY <1>1, <1>4, <1>5, <1>11, SumIsSize
<1>14. Summary!AddedUp(total) = Letters(K)
  BY <1>1, <1>4, <1>6, <1>11, SumOfParts
<1>15. Panels!WeightedMean(PairsOf(parts, B)) = <<Summary!AddedUp(total), Summary!AddedUp(count)>>
  BY <1>1, <1>2, <1>5, <1>7, <1>10, PooledMean, PanelMeans
<1>16. QED
  BY <1>9, <1>12, <1>13, <1>14, <1>15 DEF count

LEMMA BudgetOfPool ==
  ASSUME PanelsInv
  PROVE  LET pooled == Panels!Budget(UNION {Panels!Prompted(b) : b \in snapshots})
             merged == Panels!MergedBudget
         IN  /\ DOMAIN merged = DOMAIN pooled
             /\ \A p \in DOMAIN pooled :
                  /\ merged[p].sessions = pooled[p].sessions
                  /\ merged[p].max = pooled[p].max
                  /\ Panels!Same(merged[p].avg, pooled[p].avg)
<1> DEFINE pool    == UNION {Panels!Prompted(b) : b \in snapshots}
           pooled  == Panels!Budget(pool)
           of      == [b \in snapshots |-> Panels!Budget(Panels!Prompted(b))]
           with(p) == {b \in snapshots : p \in DOMAIN of[b]}
           domain  == UNION {DOMAIN of[b] : b \in snapshots}
           count(p) == [b \in with(p) |-> of[b][p].sessions]
           pairs(p) == {[bot |-> b, value |-> of[b][p].avg, weight |-> of[b][p].sessions] : b \in with(p)}
           tops(p)  == {of[b][p].max : b \in with(p)}
           merged  == [p \in domain |-> [sessions |-> Panels!AddedUp(count(p)),
                                         avg |-> Panels!WeightedMean(pairs(p)),
                                         max |-> Panels!Max(tops(p))]]
<1>1. Panels!MergedBudget = merged
  BY Zenon DEF Panels!MergedBudget
<1>2. /\ ArePrompted(pool) /\ snapshots \in SUBSET Bots
      /\ \A b \in snapshots : Panels!Prompted(b) = {k \in pool : k[1] = b}
      /\ \A k \in pool : k[1] \in snapshots
  BY PromptedTyped DEF ArePrompted
<1> HIDE DEF pool
<1>3. \A b \in snapshots : of[b] = Panels!Budget(Panels!Prompted(b))
  OBVIOUS
<1> HIDE DEF of
<1>4. ASSUME NEW p
      PROVE  with(p) = {b \in snapshots : Prompting(Panels!Prompted(b), p) # {}}
  BY <1>3, BudgetOf
<1>5. \A p : p \in domain <=> with(p) # {}
  OBVIOUS
<1>6. DOMAIN pooled = domain
  <2>1. \A p : p \in DOMAIN pooled <=> Prompting(pool, p) # {}
    BY BudgetOf
  <2>2. ASSUME NEW p PROVE Prompting(pool, p) # {} <=> with(p) # {}
    BY <1>2, <1>4 DEF Prompting
  <2>3. \A p : p \in DOMAIN pooled <=> p \in domain
    BY <1>5, <2>1, <2>2
  <2> HIDE DEF domain, pooled
  <2>4. QED
    BY <2>3
<1>7. ASSUME NEW p \in DOMAIN pooled
      PROVE  /\ Panels!AddedUp(count(p)) = pooled[p].sessions
             /\ Panels!WeightedMean(pairs(p)) = pooled[p].avg
             /\ Panels!Max(tops(p)) = pooled[p].max
  <2> DEFINE K     == Prompting(pool, p)
             B     == with(p)
             parts == [b \in B |-> Prompting(Panels!Prompted(b), p)]
  <2>1. ArePrompted(K) /\ K # {}
    BY <1>2, BudgetOf DEF ArePrompted, Prompting
  <2>2. \A b \in B : parts[b] = {k \in K : k[1] = b} /\ parts[b] # {}
    BY <1>2, <1>4 DEF Prompting
  <2>3. AreParts(parts, K, B)
    <3>1. \A k \in K : k[1] \in B
      BY <1>2, <1>4 DEF Prompting
    <3>2. QED
      BY <2>2, <3>1 DEF AreParts
  <2>4. B \in SUBSET Bots
    BY <1>2
  <2>5. \A b \in B : /\ of[b][p].sessions = Cardinality(parts[b])
                     /\ of[b][p].avg = <<Letters(parts[b]), Cardinality(parts[b])>>
                     /\ of[b][p].max = Panels!Max(LengthsOf(parts[b]))
    BY <1>3, BudgetOf
  <2>6. count(p) = SizesOf(parts, B)
    BY <2>5 DEF SizesOf
  <2>7. pairs(p) = PairsOf(parts, B)
    BY <2>5 DEF PairsOf
  <2>8. tops(p) = LongestOf(parts, B)
    <3>1. DOMAIN parts = B
      OBVIOUS
    <3> HIDE DEF parts
    <3>2. QED
      BY <2>5 DEF LongestOf
  <2>9. /\ pooled[p].sessions = Cardinality(K)
        /\ pooled[p].avg = <<Letters(K), Cardinality(K)>>
        /\ pooled[p].max = Panels!Max(LengthsOf(K))
    BY BudgetOf
  <2> HIDE DEF K, B, parts, with, pooled
  <2>10. /\ Summary!AddedUp(SizesOf(parts, B)) = Cardinality(K)
         /\ Panels!WeightedMean(PairsOf(parts, B)) = <<Letters(K), Cardinality(K)>>
         /\ Panels!Max(LongestOf(parts, B)) = Panels!Max(LengthsOf(K))
    BY <2>1, <2>3, <2>4, PromptsOfBots
  <2>11. QED
    BY <2>6, <2>7, <2>8, <2>9, <2>10, PanelSums
<1>8. ASSUME NEW p \in DOMAIN pooled
      PROVE  /\ merged[p].sessions = pooled[p].sessions
             /\ merged[p].max = pooled[p].max
             /\ merged[p].avg = pooled[p].avg
  <2> HIDE DEF pooled, domain, count, pairs, tops
  <2>1. QED
    BY <1>6, <1>7
<1>9. DOMAIN merged = DOMAIN pooled
  BY <1>6
<1> HIDE DEF pooled, merged
<1>10. \A p \in DOMAIN pooled : Panels!Same(merged[p].avg, pooled[p].avg)
  BY <1>8 DEF Panels!Same
<1>11. QED
  BY <1>1, <1>8, <1>9, <1>10 DEF pooled, pool

\* What a bot's tool list leaves out is not used, or no more than what is last
\* in a full list.
LEMMA ListOf ==
  ASSUME PanelsInv, NEW b \in Bots, NEW list \in SUBSET Tools, list \in Panels!ToolLists(b)
  PROVE  /\ \A t \in Tools \ list : Cardinality(list) # ListLength => calls[b][t] = 0
         /\ Cardinality(list) = ListLength =>
              LET lowest == Panels!Min({calls[b][x] : x \in list})
              IN  lowest \in Nat /\ \A t \in Tools \ list : calls[b][t] <= lowest
<1> DEFINE used   == {t \in Tools : calls[b][t] > 0}
           counts == [t \in used |-> calls[b][t]]
<1>1. IsFiniteSet(used) /\ DOMAIN counts = used /\ ListLength \in Nat \ {0}
  BY PanelsFinite, FS_Subset
<1>2. \A t \in Tools : calls[b][t] \in Nat
  BY DEF PanelsInv
<1>3. list \in Panels!TopLists(counts, ListLength)
  BY DEF Panels!ToolLists, Panels!Restrict
<1>4. IsTop(list, counts, ListLength)
  <2> HIDE DEF counts, used
  <2>1. Panels!TopLists(counts, ListLength) = {x \in SUBSET DOMAIN counts : IsTop(x, counts, ListLength)}
    BY <1>1, ListsAreTops
  <2>2. QED
    BY <1>3, <2>1
<1>5. /\ list \subseteq used
      /\ Cardinality(list) = IF Cardinality(used) < ListLength THEN Cardinality(used) ELSE ListLength
      /\ \A x \in list, t \in used \ list : calls[b][x] >= calls[b][t]
  <2>1. /\ list \subseteq used
        /\ \A x \in list, t \in used \ list : counts[x] >= counts[t]
    BY <1>1, <1>4 DEF IsTop
  <2>2. QED
    BY <1>1, <1>4, <2>1 DEF IsTop
<1>6. ASSUME Cardinality(list) # ListLength PROVE list = used
  BY <1>1, <1>5, <1>6, FS_Subset
<1>7. ASSUME NEW t \in Tools \ list, Cardinality(list) # ListLength PROVE calls[b][t] = 0
  BY <1>2, <1>6, <1>7
<1>8. ASSUME Cardinality(list) = ListLength
      PROVE  LET lowest == Panels!Min({calls[b][x] : x \in list})
             IN  lowest \in Nat /\ \A t \in Tools \ list : calls[b][t] <= lowest
  <2> DEFINE all == {calls[b][x] : x \in list}
  <2>1. list # {}
    BY <1>1, <1>8, FS_EmptySet
  <2>2. all \in SUBSET Nat /\ all # {}
    BY <1>2, <2>1
  <2>3. \A t \in Tools \ list, n \in all : calls[b][t] <= n
    BY <1>2, <1>5
  <2> HIDE DEF all
  <2>4. Panels!Min(all) \in all
    BY <2>2, MinIs
  <2>5. Panels!Min(all) \in Nat /\ \A t \in Tools \ list : calls[b][t] <= Panels!Min(all)
    BY <2>2, <2>3, <2>4
  <2>6. QED
    BY <2>5 DEF all
<1>9. QED
  BY <1>7, <1>8

\* Tool counts, bot by bot: what is listed, what is true, what may be missing.
Lists == {lists \in [snapshots -> SUBSET Tools] : \A b \in snapshots : lists[b] \in Panels!ToolLists(b)}
Truth(t) == Summary!AddedUp([b \in snapshots |-> calls[b][t]])
Cut(lists, t) == {b \in snapshots : t \notin lists[b] /\ Cardinality(lists[b]) = ListLength}
Short(lists, t) == Summary!AddedUp([b \in Cut(lists, t) |-> Panels!Min({calls[b][x] : x \in lists[b]})])

LEMMA CountedIs ==
  ASSUME PanelsInv, NEW lists \in Lists, NEW t \in Tools
  PROVE  /\ Panels!Counted(lists, t) \in Nat /\ Truth(t) \in Nat /\ Short(lists, t) \in Nat
         /\ Panels!Counted(lists, t) <= Truth(t)
         /\ Truth(t) <= Panels!Counted(lists, t) + Short(lists, t)
<1> DEFINE with == {b \in snapshots : t \in lists[b]}
           cut  == Cut(lists, t)
           true == [b \in snapshots |-> calls[b][t]]
           seen == [b \in with |-> calls[b][t]]
           low  == [b \in cut |-> Panels!Min({calls[b][x] : x \in lists[b]})]
           seenBy == Padded(seen, snapshots)
           lowBy  == Padded(low, snapshots)
           both   == [b \in snapshots |-> seenBy[b] + lowBy[b]]
<1>1. snapshots \in SUBSET Bots /\ IsFiniteSet(snapshots)
  BY PanelsFinite, FS_Subset DEF PanelsInv
<1>2. \A b \in snapshots : /\ lists[b] \in SUBSET Tools /\ lists[b] \in Panels!ToolLists(b)
                           /\ calls[b][t] \in Nat
  BY <1>1 DEF Lists, PanelsInv
<1>3. ASSUME NEW b \in snapshots
      PROVE  /\ b \in cut => low[b] \in Nat /\ calls[b][t] <= low[b]
             /\ b \notin with /\ b \notin cut => calls[b][t] = 0
  BY <1>1, <1>2, ListOf DEF Cut
<1>4. with \in SUBSET snapshots /\ cut \in SUBSET snapshots /\ IsFiniteSet(with) /\ IsFiniteSet(cut)
  BY <1>1, FS_Subset DEF Cut
<1>5. true \in [snapshots -> Nat] /\ seen \in [with -> Nat]
  BY <1>2
<1>6. low \in [cut -> Nat]
  BY <1>3, <1>4
<1>7. /\ seenBy \in [snapshots -> Nat] /\ Summary!AddedUp(seenBy) = Summary!AddedUp(seen)
      /\ lowBy \in [snapshots -> Nat] /\ Summary!AddedUp(lowBy) = Summary!AddedUp(low)
  <2> HIDE DEF with, cut, seen, low
  <2>1. QED
    BY <1>1, <1>4, <1>5, <1>6, SumOfPadded
<1>8. both \in [snapshots -> Nat]
  <2> HIDE DEF seenBy, lowBy
  <2>1. QED
    BY <1>7
<1>9. /\ Panels!Counted(lists, t) = Summary!AddedUp(seen)
      /\ Truth(t) = Summary!AddedUp(true) /\ Short(lists, t) = Summary!AddedUp(low)
  BY PanelSums DEF Panels!Counted, Truth, Short
<1>10. \A b \in snapshots : true[b] <= both[b]
  <2>1. TAKE b \in snapshots
  <2>2. seenBy[b] \in Nat /\ lowBy[b] \in Nat /\ calls[b][t] \in Nat
    BY <1>2, <1>7
  <2>3. CASE b \in with
    <3>1. seenBy[b] = calls[b][t]
      BY <2>3 DEF Padded
    <3>2. QED
      BY <2>2, <3>1
  <2>4. CASE b \in cut
    <3>1. lowBy[b] = low[b] /\ calls[b][t] <= low[b]
      BY <1>3, <2>4 DEF Padded
    <3>2. QED
      BY <2>2, <3>1
  <2>5. CASE b \notin with /\ b \notin cut
    <3>1. calls[b][t] = 0
      BY <1>3, <2>5
    <3>2. QED
      BY <2>2, <3>1
  <2>6. QED
    BY <2>3, <2>4, <2>5
<1>11. \A b \in with : seen[b] <= true[b]
  <2>1. \A b \in with : seen[b] = true[b] /\ true[b] \in Nat
    BY <1>2
  <2>2. QED
    BY <2>1
<1>12. DOMAIN both = snapshots /\ \A b \in snapshots : both[b] = seenBy[b] + lowBy[b]
  OBVIOUS
<1> HIDE DEF with, cut, true, seen, low, seenBy, lowBy, both
<1>13. Summary!AddedUp(seen) <= Summary!AddedUp(true)
  BY <1>1, <1>4, <1>5, <1>11, SumGrows
<1>14. Summary!AddedUp(true) <= Summary!AddedUp(both)
  BY <1>1, <1>5, <1>8, <1>10, SumGrows
<1>15. Summary!AddedUp(both) = Summary!AddedUp(seenBy) + Summary!AddedUp(lowBy)
  BY <1>1, <1>7, <1>12, SumOfSums
<1>16. Summary!AddedUp(seen) \in Nat /\ Summary!AddedUp(true) \in Nat /\ Summary!AddedUp(low) \in Nat
  BY <1>1, <1>4, <1>5, <1>6, SumIsStack
<1>17. QED
  BY <1>7, <1>9, <1>13, <1>14, <1>15, <1>16

LEMMA MergedListIs ==
  ASSUME PanelsInv, NEW lists \in Lists, NEW top \in Panels!MergedLists(lists),
         NEW t \in top, NEW r \in Tools \ top
  PROVE  t \in Tools /\ Truth(r) <= Truth(t) + Short(lists, r)
<1> DEFINE named == UNION {lists[b] : b \in snapshots}
           count == [x \in named |-> Panels!Counted(lists, x)]
<1>1. named \in SUBSET Tools
  BY DEF Lists
<1>2. IsFiniteSet(named) /\ DOMAIN count = named /\ ListLength \in Nat
  BY <1>1, PanelsFinite, FS_Subset
<1>3. top \in Panels!TopLists(count, ListLength)
  BY DEF Panels!MergedLists
<1>4. IsTop(top, count, ListLength)
  <2> HIDE DEF count, named
  <2>1. Panels!TopLists(count, ListLength) = {x \in SUBSET DOMAIN count : IsTop(x, count, ListLength)}
    BY <1>2, ListsAreTops
  <2>2. QED
    BY <1>3, <2>1
<1>5. top \subseteq named /\ \A x \in top, y \in named \ top : count[x] >= count[y]
  BY <1>2, <1>4 DEF IsTop
<1>6. t \in Tools /\ r \in Tools
  BY <1>1, <1>5
<1>7. /\ Panels!Counted(lists, t) \in Nat /\ Truth(t) \in Nat
      /\ Panels!Counted(lists, r) \in Nat /\ Truth(r) \in Nat /\ Short(lists, r) \in Nat
      /\ Panels!Counted(lists, t) <= Truth(t)
      /\ Truth(r) <= Panels!Counted(lists, r) + Short(lists, r)
  BY <1>6, CountedIs
<1>8. Panels!Counted(lists, r) <= Panels!Counted(lists, t)
  <2>1. CASE r \in named
    <3>1. count[t] >= count[r] /\ count[t] = Panels!Counted(lists, t) /\ count[r] = Panels!Counted(lists, r)
      BY <1>5, <2>1
    <3>2. QED
      BY <1>7, <3>1
  <2>2. CASE r \notin named
    <3>1. {c \in snapshots : r \in lists[c]} = {}
      BY <2>2
    <3>2. Panels!Counted(lists, r) = Summary!AddedUp([b \in {} |-> calls[b][r]])
      BY <3>1, PanelSums DEF Panels!Counted
    <3>3. Panels!Counted(lists, r) = 0
      BY <3>2, SumOfNone
    <3>4. QED
      BY <1>7, <3>3
  <2>3. QED
    BY <2>1, <2>2
<1>9. QED
  BY <1>6, <1>7, <1>8

LEMMA PanelsOfPool == ASSUME PanelsInv PROVE Panels!PanelsAreThePool
<1> DEFINE truth(t) == Panels!AddedUp([b \in snapshots |-> calls[b][t]])
           cut(lists, t) == {b \in snapshots : t \notin lists[b] /\ Panels!Cardinality(lists[b]) = ListLength}
           short(lists, t) == Panels!AddedUp([b \in cut(lists, t) |-> Panels!Min({calls[b][x] : x \in lists[b]})])
<1>1. ASSUME NEW lists \in [snapshots -> SUBSET Tools], \A b \in snapshots : lists[b] \in Panels!ToolLists(b)
      PROVE  /\ \A t \in Tools : /\ Panels!Counted(lists, t) <= truth(t)
                                 /\ truth(t) <= Panels!Counted(lists, t) + short(lists, t)
             /\ \A top \in Panels!MergedLists(lists) : \A t \in top, r \in Tools \ top :
                  truth(r) <= truth(t) + short(lists, r)
  <2>1. lists \in Lists
    BY <1>1 DEF Lists
  <2>2. \A t : truth(t) = Truth(t)
    BY PanelSums DEF Truth
  <2>3. \A t : cut(lists, t) = Cut(lists, t)
    BY PanelSize DEF Cut
  <2>4. \A t : short(lists, t) = Short(lists, t)
    BY <2>3, PanelSums DEF Short
  <2> HIDE DEF truth, cut, short
  <2>5. \A t \in Tools : /\ Panels!Counted(lists, t) <= truth(t)
                         /\ truth(t) <= Panels!Counted(lists, t) + short(lists, t)
    BY <2>1, <2>2, <2>4, CountedIs
  <2>6. ASSUME NEW top \in Panels!MergedLists(lists), NEW t \in top, NEW r \in Tools \ top
        PROVE  truth(r) <= truth(t) + short(lists, r)
    BY <2>1, <2>2, <2>4, MergedListIs
  <2>7. QED
    BY <2>5, <2>6
<1> DEFINE ToolsAre(lists) ==
             /\ \A t \in Tools : /\ Panels!Counted(lists, t) <= truth(t)
                                 /\ truth(t) <= Panels!Counted(lists, t) + short(lists, t)
             /\ \A top \in Panels!MergedLists(lists) : \A t \in top, r \in Tools \ top :
                  truth(r) <= truth(t) + short(lists, r)
<1>2. \A lists \in [snapshots -> SUBSET Tools] :
        (\A b \in snapshots : lists[b] \in Panels!ToolLists(b)) => ToolsAre(lists)
  BY <1>1
<1>3. QED
  BY <1>2, BudgetOfPool, Zenon DEF Panels!PanelsAreThePool

\* Prompt sizes and tool counts of "all" are those of the pool, tools as far as
\* the bots' lists go.
THEOREM PanelsAreOnePool == Spec => []PanelsAreThePool
<1>1. (part = "panels" => PanelsInv) => PanelsAreThePool
  BY PanelsOfPool DEF PanelsAreThePool
<1>2. QED
  BY <1>1, PanelsSteps, PTL

=============================================================================
