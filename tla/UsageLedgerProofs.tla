-------------------------- MODULE UsageLedgerProofs --------------------------
(***************************************************************************)
(* Proofs about UsageLedger, for any profiles, keys and spending bound.    *)
(*                                                                         *)
(* The safety properties are not inductive: a tick adds what its copy      *)
(* shows over the watermark, so the argument must know how the copy in     *)
(* flight relates to the live table.  Accounts says how much of what was   *)
(* spent is still to be recorded, InFlight says the same with the copy in  *)
(* between, and FilesAgree and CopyAgrees say why the copy is a reading    *)
(* of the table Hermes had when the WAL was copied.                        *)
(***************************************************************************)
EXTENDS UsageLedger, TLAPS

\* A row without a WAL frame is current in the main file.
FilesAgree ==
  \A p \in Profiles : \A k \in Keys \ wal[p] : main[p][k] = usage[p][k]

\* Half way through the copy, the same holds of the copied main file.
CopyAgrees ==
  stage = "copied" => \A k \in Keys \ wal[cur] : copy[k] = usage[cur][k]

\* What the next tick would add is within what has been spent.
Accounts ==
  \A p \in Profiles, k \in Keys :
    ledger[p][k] + prior[p][k] + Growth(usage[p][k], watermark[p][k])
      <= spent[p][k]

\* The same through the copy: what the tick under way will add, and what the
\* one after it will find on top.
InFlight ==
  stage = "read" => \A k \in Keys :
    ledger[cur][k] + prior[cur][k]
      + Growth(copy[k], watermark[cur][k]) + Growth(usage[cur][k], copy[k])
      <= spent[cur][k]

\* A profile without marks has nothing recorded and nothing set aside.
Fresh ==
  \A p \in Profiles :
    watermark[p] = Empty =>
      \A k \in Keys : ledger[p][k] = 0 /\ prior[p][k] = 0

IInv == FilesAgree /\ CopyAgrees /\ Accounts /\ InFlight /\ Fresh

-----------------------------------------------------------------------------
(* What the helpers return.                                                *)

LEMMA AbsentIsNoNat == Absent \notin Nat /\ Absent \in Cell
  BY DEF Absent, Cell

LEMMA CounterType == \A c \in Cell : Counter(c) \in Nat
  BY DEF Counter, Cell

LEMMA GrowthType == \A a, b \in Cell : Growth(a, b) \in Nat
  BY CounterType DEF Growth

\* Going through an intermediate reading never records less.
LEMMA GrowthTriangle ==
  \A a, b, c \in Cell : Growth(a, c) <= Growth(b, c) + Growth(a, b)
  BY CounterType DEF Growth

LEMMA GrowthOfSpend ==
  \A a, b \in Cell : Growth(Counter(a) + 1, b) <= Growth(a, b) + 1
  <1>1. \A a \in Cell : Counter(Counter(a) + 1) = Counter(a) + 1
    BY CounterType DEF Counter, Absent
  <1>2. QED
    BY <1>1, CounterType DEF Growth

LEMMA GrowthOfNothing ==
  \A b \in Cell : Growth(Absent, b) = 0 /\ Growth(0, b) = 0
  BY CounterType DEF Growth, Counter

LEMMA GrowthOfItself == \A a \in Cell : Growth(a, a) = 0
  BY CounterType DEF Growth

LEMMA EmptyType == Empty \in Table
  BY AbsentIsNoNat DEF Empty, Table

LEMMA UpsertType == \A r, m \in Table : Upsert(r, m) \in Table
  BY DEF Upsert, Table

LEMMA OverlayType ==
  ASSUME NEW f \in Table, NEW r \in Table, NEW w \in SUBSET Keys
  PROVE  Overlay(f, w, r) \in Table
  BY DEF Overlay, Table

-----------------------------------------------------------------------------
(* Every variable has its type: TypeOK of UsageLedger.                     *)
THEOREM TypeCorrect == Spec => []TypeOK
  <1>1. Init => TypeOK
    BY EmptyType DEF Init, TypeOK
  <1>2. TypeOK /\ [Next]_vars => TypeOK'
    <2> SUFFICES ASSUME TypeOK, [Next]_vars PROVE TypeOK'
      OBVIOUS
    <2> USE DEF TypeOK
    <2>1. ASSUME NEW p \in Profiles, ProfileCreated(p) PROVE TypeOK'
      BY <2>1 DEF ProfileCreated, guidb, poller
    <2>2. ASSUME NEW p \in Profiles, NEW k \in Keys, NEW c \in Cell,
                 Commit(p, k, c), spent' \in [Profiles -> [Keys -> Nat]]
          PROVE  TypeOK'
      BY <2>2 DEF Commit, guidb, poller, Table
    <2>3. ASSUME NEW p \in Profiles, NEW k \in Keys, Spend(p, k)
          PROVE  TypeOK'
      <3>1. Counter(usage[p][k]) + 1 \in Cell
        <4>1. usage[p][k] \in Cell
          BY DEF Table
        <4>2. Counter(usage[p][k]) \in Nat
          BY <4>1, CounterType
        <4>3. QED
          BY <4>2 DEF Cell
      <3>2. spent' \in [Profiles -> [Keys -> Nat]]
        BY <2>3 DEF Spend
      <3>3. QED
        BY <2>2, <2>3, <3>1, <3>2 DEF Spend
    <2>4. ASSUME NEW p \in Profiles, NEW k \in Keys, Reset(p, k)
          PROVE  TypeOK'
      BY <2>2, <2>4 DEF Reset, Cell
    <2>5. ASSUME NEW p \in Profiles, NEW k \in Keys, Prune(p, k)
          PROVE  TypeOK'
      BY <2>2, <2>5, AbsentIsNoNat DEF Prune
    <2>6. ASSUME NEW p \in Profiles, Checkpoint(p) PROVE TypeOK'
      BY <2>6 DEF Checkpoint, guidb, poller
    <2>7. ASSUME NEW p \in Profiles, CopyMain(p) PROVE TypeOK'
      BY <2>7 DEF CopyMain, hermes, guidb
    <2>8. ASSUME NEW p \in Profiles, CopyWal(p) PROVE TypeOK'
      BY <2>8, OverlayType DEF CopyWal, hermes, guidb
    <2>9. ASSUME NEW p \in Profiles, Skip(p) PROVE TypeOK'
      BY <2>9, EmptyType DEF Skip, hermes, guidb
    <2>10. ASSUME NEW p \in Profiles, ApplyTick(p) PROVE TypeOK'
      <3>1. watermark' \in [Profiles -> Table]
        BY <2>10, UpsertType DEF ApplyTick
      <3>2. \A k \in Keys : Growth(copy[k], watermark[p][k]) \in Nat
        BY GrowthType DEF Table
      <3>3. ledger' \in [Profiles -> [Keys -> Nat]]
        BY <2>10, <3>2 DEF ApplyTick
      <3>4. prior' \in [Profiles -> [Keys -> Nat]]
        BY <2>10, CounterType DEF ApplyTick, Table
      <3>5. QED
        BY <2>10, <3>1, <3>3, <3>4, EmptyType DEF ApplyTick, hermes
    <2>11. CASE StartCycle
      BY <2>11 DEF StartCycle, hermes, guidb
    <2>12. CASE EndCycle
      BY <2>12 DEF EndCycle, hermes, guidb
    <2>13. CASE Crash
      BY <2>13, EmptyType DEF Crash, hermes, guidb
    <2>14. CASE UNCHANGED vars
      BY <2>14 DEF vars
    <2>15. QED
      BY <2>1, <2>3, <2>4, <2>5, <2>6, <2>7, <2>8, <2>9, <2>10, <2>11, <2>12,
         <2>13, <2>14 DEF Next, HermesStep, PollerStep
  <1>3. QED
    BY <1>1, <1>2, PTL DEF Spec

-----------------------------------------------------------------------------
(* The invariant is inductive as long as no checkpoint falls between the   *)
(* two file copies.                                                        *)

\* Steps that leave gui.db and what was spent alone keep Fresh.
LEMMA FreshStable ==
  Fresh /\ UNCHANGED guidb => Fresh'
  BY DEF Fresh, guidb

\* A commit of Hermes: the row it writes gets a frame, so the files still agree.
LEMMA CommitFiles ==
  ASSUME TypeOK, FilesAgree, CopyAgrees,
         NEW p \in Profiles, NEW k \in Keys, NEW c \in Cell, Commit(p, k, c)
  PROVE  FilesAgree' /\ CopyAgrees'
  <1>1. \A q \in Profiles : wal'[q] = IF q = p THEN wal[p] \cup {k} ELSE wal[q]
    BY DEF Commit, TypeOK
  <1>2. \A q \in Profiles, j \in Keys :
          usage'[q][j] = IF q = p /\ j = k THEN c ELSE usage[q][j]
    BY DEF Commit, TypeOK, Table
  <1>3. main' = main /\ copy' = copy /\ cur' = cur /\ stage' = stage
    BY DEF Commit, poller
  <1>4. FilesAgree'
    BY <1>1, <1>2, <1>3 DEF FilesAgree
  <1>5. CopyAgrees'
    BY <1>1, <1>2, <1>3 DEF CopyAgrees, TypeOK
  <1>6. QED
    BY <1>4, <1>5

\* A commit that adds at most d to a counter while d is added to what was
\* spent keeps the accounts, with or without a copy in flight.
LEMMA CommitAccounts ==
  ASSUME TypeOK, Accounts, InFlight, Fresh,
         NEW p \in Profiles, NEW k \in Keys, NEW c \in Cell, NEW d \in Nat,
         Commit(p, k, c),
         \A q \in Profiles, j \in Keys :
           spent'[q][j] = IF q = p /\ j = k THEN spent[q][j] + d
                                          ELSE spent[q][j],
         \A b \in Cell : Growth(c, b) <= Growth(usage[p][k], b) + d
  PROVE  Accounts' /\ InFlight' /\ Fresh'
  <1>1. \A q \in Profiles, j \in Keys :
          usage'[q][j] = IF q = p /\ j = k THEN c ELSE usage[q][j]
    BY DEF Commit, TypeOK, Table
  <1>2. /\ ledger' = ledger /\ prior' = prior /\ watermark' = watermark
        /\ stage' = stage /\ cur' = cur /\ copy' = copy
    BY DEF Commit, guidb, poller
  <1>3. \A q \in Profiles, j \in Keys :
          /\ ledger[q][j] \in Nat /\ prior[q][j] \in Nat
          /\ spent[q][j] \in Nat
          /\ usage[q][j] \in Cell /\ watermark[q][j] \in Cell
          /\ copy[j] \in Cell
    BY DEF TypeOK, Table
  <1>4. \A q \in Profiles, j \in Keys, b \in Cell :
          /\ Growth(usage[q][j], b) \in Nat
          /\ Growth(c, b) \in Nat
          /\ Growth(copy[j], b) \in Nat
    BY <1>3, GrowthType
  <1>5. \A q \in Profiles, j \in Keys, b \in Cell :
          Growth(usage'[q][j], b) - spent'[q][j]
            <= Growth(usage[q][j], b) - spent[q][j]
    BY <1>1, <1>3, <1>4
  <1>6. \A q \in Profiles, j \in Keys :
          spent'[q][j] \in Nat /\ usage'[q][j] \in Cell
    BY <1>1, <1>3
  <1>7. \A q \in Profiles, j \in Keys, b \in Cell :
          Growth(usage'[q][j], b) \in Nat
    BY <1>6, GrowthType
  <1>8. Accounts'
    BY <1>2, <1>3, <1>4, <1>5, <1>6, <1>7 DEF Accounts
  <1>9. InFlight'
    <2> SUFFICES ASSUME stage = "read", NEW j \in Keys
                 PROVE  ledger[cur][j] + prior[cur][j]
                          + Growth(copy[j], watermark[cur][j])
                          + Growth(usage'[cur][j], copy[j]) <= spent'[cur][j]
      BY <1>2 DEF InFlight
    <2>1. cur \in Profiles
      BY DEF TypeOK
    <2>2. ledger[cur][j] + prior[cur][j] + Growth(copy[j], watermark[cur][j])
            + Growth(usage[cur][j], copy[j]) <= spent[cur][j]
      BY DEF InFlight
    <2>3. Growth(usage'[cur][j], copy[j]) - spent'[cur][j]
            <= Growth(usage[cur][j], copy[j]) - spent[cur][j]
      BY <2>1, <1>3, <1>5
    <2>4. QED
      BY <2>1, <2>2, <2>3, <1>3, <1>4, <1>6, <1>7
  <1>10. Fresh'
    BY <1>2 DEF Fresh
  <1>11. QED
    BY <1>8, <1>9, <1>10

\* The tick itself: it adds what the copy shows over the marks, the marks move
\* to the copy, and what the copy has missed stays within what was spent.
LEMMA TickAccounts ==
  ASSUME TypeOK, Accounts, InFlight, Fresh,
         NEW p \in Profiles, ApplyTick(p)
  PROVE  Accounts' /\ InFlight' /\ Fresh'
  <1> DEFINE n(k) == copy[k]
             w(q, k) == watermark[q][k]
             u(q, k) == usage[q][k]
  <1>1. /\ usage' = usage /\ spent' = spent /\ stage' = "next"
        /\ stage = "read" /\ cur = p
    BY DEF ApplyTick, hermes
  <1>2. \A q \in Profiles, k \in Keys :
          /\ ledger[q][k] \in Nat /\ prior[q][k] \in Nat
          /\ spent[q][k] \in Nat
          /\ u(q, k) \in Cell /\ w(q, k) \in Cell /\ n(k) \in Cell
    BY DEF TypeOK, Table
  <1>3. \A q \in Profiles, k \in Keys :
          /\ Growth(u(q, k), w(q, k)) \in Nat /\ Growth(u(q, k), n(k)) \in Nat
          /\ Growth(n(k), w(q, k)) \in Nat /\ Counter(n(k)) \in Nat
    BY <1>2, GrowthType, CounterType
  <1>4. \A q \in Profiles \ {p} :
          /\ ledger'[q] = ledger[q] /\ prior'[q] = prior[q]
          /\ watermark'[q] = watermark[q]
    BY DEF ApplyTick, TypeOK
  <1>5. \A k \in Keys :
          w(p, k)' = IF n(k) = Absent THEN w(p, k) ELSE n(k)
    BY DEF ApplyTick, TypeOK, Upsert
  <1>6. \A k \in Keys :
          /\ ledger[p][k] + prior[p][k] + Growth(u(p, k), w(p, k)) <= spent[p][k]
          /\ ledger[p][k] + prior[p][k] + Growth(n(k), w(p, k))
               + Growth(u(p, k), n(k)) <= spent[p][k]
    BY <1>1 DEF Accounts, InFlight
  <1>7. \A k \in Keys :
          ledger'[p][k] + prior'[p][k] + Growth(u(p, k), w(p, k)') <= spent[p][k]
    <2>1. CASE watermark[p] = Empty
      <3> TAKE k \in Keys
      <3>1. /\ ledger'[p][k] = 0 /\ ledger[p][k] = 0 /\ prior[p][k] = 0
            /\ prior'[p][k] = Counter(n(k)) /\ w(p, k) = Absent
        BY <2>1, <1>2 DEF ApplyTick, TypeOK, Seeding, Fresh, Empty
      <3>2. Growth(n(k), w(p, k)) = Counter(n(k))
        BY <3>1, <1>3 DEF Growth, Counter
      <3>3. w(p, k)' = n(k)
        BY <3>1, <1>5
      <3>4. QED
        BY <3>1, <3>2, <3>3, <1>2, <1>3, <1>6
    <2>2. CASE watermark[p] # Empty
      <3> TAKE k \in Keys
      <3>1. /\ ledger'[p][k] = ledger[p][k] + Growth(n(k), w(p, k))
            /\ prior'[p][k] = prior[p][k]
        BY <2>2 DEF ApplyTick, TypeOK, Seeding
      <3>2. CASE n(k) = Absent
        <4>1. Growth(n(k), w(p, k)) = 0 /\ w(p, k)' = w(p, k)
          BY <3>2, <1>2, <1>5, GrowthOfNothing
        <4>2. QED
          BY <3>1, <4>1, <1>2, <1>3, <1>6
      <3>3. CASE n(k) # Absent
        <4>1. w(p, k)' = n(k)
          BY <3>3, <1>5
        <4>2. QED
          BY <3>1, <4>1, <1>2, <1>3, <1>6
      <3>4. QED
        BY <3>2, <3>3
    <2>3. QED
      BY <2>1, <2>2
  <1>8. Accounts'
    <2> SUFFICES ASSUME NEW q \in Profiles, NEW k \in Keys
                 PROVE  ledger'[q][k] + prior'[q][k]
                          + Growth(u(q, k), watermark'[q][k]) <= spent[q][k]
      BY <1>1 DEF Accounts
    <2>1. CASE q = p
      BY <2>1, <1>7
    <2>2. CASE q # p
      BY <2>2, <1>4 DEF Accounts
    <2>3. QED
      BY <2>1, <2>2
  <1>9. InFlight'
    BY <1>1 DEF InFlight
  <1>10. Fresh'
    <2> SUFFICES ASSUME NEW q \in Profiles, watermark'[q] = Empty, NEW k \in Keys
                 PROVE  ledger'[q][k] = 0 /\ prior'[q][k] = 0
      BY DEF Fresh
    <2>1. CASE q # p
      BY <2>1, <1>4 DEF Fresh
    <2>2. CASE q = p
      <3>1. \A j \in Keys : w(p, j) = Absent /\ n(j) = Absent
        BY <2>2, <1>5 DEF Empty
      <3>2. watermark[p] = Empty
        BY <3>1 DEF TypeOK, Table, Empty
      <3>3. QED
        BY <2>2, <3>1, <3>2 DEF ApplyTick, TypeOK, Seeding, Fresh, Counter
    <2>3. QED
      BY <2>1, <2>2
  <1>11. QED
    BY <1>8, <1>9, <1>10

LEMMA InvInit == Init => IInv
  BY GrowthOfItself, AbsentIsNoNat
     DEF Init, IInv, FilesAgree, CopyAgrees, Accounts, InFlight, Fresh, Empty

LEMMA InvStep ==
  ASSUME ~CheckpointDuringCopy, TypeOK, IInv, [Next]_vars
  PROVE  IInv'
  <1> USE DEF IInv
  <1>1. ASSUME NEW p \in Profiles, ProfileCreated(p) PROVE IInv'
    BY <1>1 DEF ProfileCreated, guidb, poller,
                FilesAgree, CopyAgrees, Accounts, InFlight, Fresh
  <1>2. ASSUME NEW p \in Profiles, Checkpoint(p) PROVE IInv'
    <2>1. UNCHANGED <<usage, spent, ledger, prior, watermark, stage, cur, copy>>
      BY <1>2 DEF Checkpoint, guidb, poller
    <2>2. FilesAgree'
      BY <1>2, <2>1 DEF Checkpoint, FilesAgree, TypeOK
    <2>3. CopyAgrees'
      BY <1>2, <2>1 DEF Checkpoint, CopyAgrees, Copying, TypeOK
    <2>4. QED
      BY <2>1, <2>2, <2>3 DEF Accounts, InFlight, Fresh
  <1>3. ASSUME NEW p \in Profiles, NEW k \in Keys, Spend(p, k) PROVE IInv'
    <2>1. usage[p][k] \in Cell
      BY DEF TypeOK, Table
    <2>2. Counter(usage[p][k]) + 1 \in Cell
      BY <2>1, CounterType DEF Cell
    <2>3. Commit(p, k, Counter(usage[p][k]) + 1)
      BY <1>3 DEF Spend
    <2>4. \A q \in Profiles, j \in Keys :
            spent'[q][j] = IF q = p /\ j = k THEN spent[q][j] + 1
                                            ELSE spent[q][j]
      BY <1>3 DEF Spend, TypeOK
    <2>5. \A b \in Cell :
            Growth(Counter(usage[p][k]) + 1, b) <= Growth(usage[p][k], b) + 1
      BY <2>1, GrowthOfSpend
    <2>6. QED
      BY <2>2, <2>3, <2>4, <2>5, CommitFiles, CommitAccounts
  <1>4. ASSUME NEW p \in Profiles, NEW k \in Keys, Reset(p, k) \/ Prune(p, k)
        PROVE  IInv'
    <2>1. PICK c \in {0, Absent} : Commit(p, k, c)
      BY <1>4 DEF Reset, Prune
    <2>2. c \in Cell
      BY <2>1, AbsentIsNoNat DEF Cell
    <2>3. \A q \in Profiles, j \in Keys :
            spent'[q][j] = IF q = p /\ j = k THEN spent[q][j] + 0
                                            ELSE spent[q][j]
      BY <1>4 DEF Reset, Prune, TypeOK
    <2>4. \A b \in Cell : Growth(c, b) <= Growth(usage[p][k], b) + 0
      <3>1. \A b \in Cell : Growth(c, b) = 0 /\ Growth(usage[p][k], b) \in Nat
        BY <2>1, GrowthOfNothing, GrowthType DEF TypeOK, Table
      <3>2. QED
        BY <3>1
    <2>5. QED
      BY <2>1, <2>2, <2>3, <2>4, CommitFiles, CommitAccounts
  <1>5. ASSUME NEW p \in Profiles, CopyMain(p) PROVE IInv'
    <2>1. CopyAgrees'
      BY <1>5 DEF CopyMain, hermes, CopyAgrees, FilesAgree
    <2>2. QED
      BY <1>5, <2>1 DEF CopyMain, hermes, guidb,
                        FilesAgree, Accounts, InFlight, Fresh
  <1>6. ASSUME NEW p \in Profiles, CopyWal(p) PROVE IInv'
    <2>1. \A k \in Keys : copy'[k] = usage[p][k]
      BY <1>6 DEF CopyWal, Copying, CopyAgrees, Overlay
    <2>2. \A k \in Keys : usage[p][k] \in Cell /\ watermark[p][k] \in Cell
      BY DEF TypeOK, Table
    <2>3. \A k \in Keys :
            /\ ledger[p][k] \in Nat /\ prior[p][k] \in Nat
            /\ spent[p][k] \in Nat /\ Growth(usage[p][k], watermark[p][k]) \in Nat
      BY <2>2, GrowthType DEF TypeOK
    <2>4. UNCHANGED <<hermes, guidb>> /\ cur = p /\ cur' = p /\ stage' = "read"
      BY <1>6 DEF CopyWal, Copying
    <2>5. InFlight'
      BY <2>1, <2>2, <2>3, <2>4, GrowthOfItself
         DEF InFlight, Accounts, hermes, guidb
    <2>6. QED
      BY <2>4, <2>5 DEF hermes, guidb, FilesAgree, CopyAgrees, Accounts, Fresh
  <1>7. ASSUME NEW p \in Profiles, Skip(p) PROVE IInv'
    BY <1>7 DEF Skip, hermes, guidb,
                FilesAgree, CopyAgrees, Accounts, InFlight, Fresh
  <1>8. ASSUME NEW p \in Profiles, ApplyTick(p) PROVE IInv'
    <2>1. FilesAgree' /\ CopyAgrees'
      BY <1>8 DEF ApplyTick, hermes, FilesAgree, CopyAgrees
    <2>2. QED
      BY <1>8, <2>1, TickAccounts
  <1>9. CASE StartCycle \/ EndCycle \/ Crash
    BY <1>9 DEF StartCycle, EndCycle, Crash, hermes, guidb,
                FilesAgree, CopyAgrees, Accounts, InFlight, Fresh
  <1>10. CASE UNCHANGED vars
    BY <1>10 DEF vars, FilesAgree, CopyAgrees, Accounts, InFlight, Fresh
  <1>11. QED
    BY <1>1, <1>2, <1>3, <1>4, <1>5, <1>6, <1>7, <1>8, <1>9, <1>10
       DEF Next, HermesStep, PollerStep

\* The ledger never shows more than was spent since a profile's first marks,
\* provided Hermes makes no checkpoint between the two copies of a read.
THEOREM NoOverRecording ==
  ASSUME ~CheckpointDuringCopy
  PROVE  Spec => []NeverOverRecords
  <1>1. TypeOK /\ IInv => NeverOverRecords
    <2> SUFFICES ASSUME TypeOK, IInv, NEW p \in Profiles, NEW k \in Keys
                 PROVE  ledger[p][k] + prior[p][k] <= spent[p][k]
      BY DEF NeverOverRecords
    <2>1. Growth(usage[p][k], watermark[p][k]) \in Nat
      BY GrowthType DEF TypeOK, Table
    <2>2. QED
      BY <2>1 DEF IInv, Accounts, TypeOK
  <1>2. IInv /\ TypeOK /\ [Next]_vars => IInv'
    BY InvStep
  <1>3. QED
    BY <1>1, <1>2, InvInit, TypeCorrect, PTL DEF Spec

-----------------------------------------------------------------------------
(* What needs no assumption on checkpoints: a stale copy moves the marks   *)
(* back, but never makes them claim more than the ledger shows.            *)

MarksInv == NothingMarkedIsLost /\ Fresh

\* Whatever the marks have moved past since the first tick is in the ledger.
THEOREM NothingLost == Spec => []NothingMarkedIsLost
  <1>1. Init => MarksInv
    BY AbsentIsNoNat
       DEF Init, MarksInv, NothingMarkedIsLost, Fresh, Empty, Counter
  <1>2. TypeOK /\ MarksInv /\ [Next]_vars => MarksInv'
    <2> SUFFICES ASSUME TypeOK, MarksInv, [Next]_vars PROVE MarksInv'
      OBVIOUS
    <2>1. ASSUME NEW p \in Profiles, ApplyTick(p) PROVE MarksInv'
      <3>1. \A q \in Profiles \ {p} :
              /\ ledger'[q] = ledger[q] /\ prior'[q] = prior[q]
              /\ watermark'[q] = watermark[q]
        BY <2>1 DEF ApplyTick, TypeOK
      <3>2. \A k \in Keys : watermark'[p][k] =
              IF copy[k] = Absent THEN watermark[p][k] ELSE copy[k]
        BY <2>1 DEF ApplyTick, TypeOK, Upsert
      <3>3. \A k \in Keys :
              /\ ledger[p][k] \in Nat /\ prior[p][k] \in Nat
              /\ watermark[p][k] \in Cell /\ copy[k] \in Cell
              /\ Counter(copy[k]) \in Nat /\ Counter(watermark[p][k]) \in Nat
        BY CounterType DEF TypeOK, Table
      <3>4. CASE watermark[p] = Empty
        <4>1. \A k \in Keys :
                /\ ledger'[p][k] = 0 /\ prior'[p][k] = Counter(copy[k])
                /\ watermark'[p][k] = copy[k]
          BY <2>1, <3>2, <3>4 DEF ApplyTick, TypeOK, Seeding, MarksInv, Fresh, Empty
        <4>2. \A k \in Keys :
                Counter(watermark'[p][k]) - prior'[p][k] <= ledger'[p][k]
          BY <3>3, <4>1
        <4>3. watermark'[p] = Empty => \A k \in Keys : prior'[p][k] = 0
          BY <4>1 DEF Empty, Counter
        <4>4. QED
          BY <3>1, <4>1, <4>2, <4>3 DEF MarksInv, NothingMarkedIsLost, Fresh
      <3>5. CASE watermark[p] # Empty
        <4>1. \A k \in Keys :
                /\ ledger'[p][k] = ledger[p][k] + Growth(copy[k], watermark[p][k])
                /\ prior'[p][k] = prior[p][k]
          BY <2>1, <3>5 DEF ApplyTick, TypeOK, Seeding
        <4>2. \A k \in Keys :
                Counter(watermark'[p][k]) - prior'[p][k] <= ledger'[p][k]
          BY <3>2, <3>3, <4>1 DEF MarksInv, NothingMarkedIsLost, Growth
        <4>3. watermark'[p] # Empty
          <5>1. PICK k \in Keys : watermark[p][k] # Absent
            BY <3>5 DEF TypeOK, Table, Empty
          <5>2. QED
            BY <5>1, <3>2 DEF Empty
        <4>4. QED
          BY <3>1, <4>2, <4>3 DEF MarksInv, NothingMarkedIsLost, Fresh
      <3>6. QED
        BY <3>4, <3>5
    <2>2. CASE UNCHANGED <<watermark, ledger, prior>>
      BY <2>2 DEF MarksInv, NothingMarkedIsLost, Fresh
    <2>3. QED
      BY <2>1, <2>2 DEF Next, vars, HermesStep, PollerStep, guidb,
         ProfileCreated, Checkpoint, Spend, Reset, Prune, Commit,
         CopyMain, CopyWal, Skip, StartCycle, EndCycle, Crash
  <1>3. MarksInv => NothingMarkedIsLost
    BY DEF MarksInv
  <1>4. QED
    BY <1>1, <1>2, <1>3, TypeCorrect, PTL DEF Spec

\* No step takes recorded spend back.
THEOREM LedgerMonotone == Spec => LedgerOnlyGrows
  <1>1. TypeOK /\ [Next]_vars =>
          [\A p \in Profiles, k \in Keys : ledger'[p][k] >= ledger[p][k]]_vars
    <2> SUFFICES ASSUME TypeOK, [Next]_vars, NEW q \in Profiles, NEW j \in Keys
                 PROVE  ledger'[q][j] >= ledger[q][j]
      OBVIOUS
    <2>1. ledger[q][j] \in Nat
      BY DEF TypeOK
    <2>2. ASSUME NEW p \in Profiles, ApplyTick(p)
          PROVE  ledger'[q][j] >= ledger[q][j]
      <3>1. Growth(copy[j], watermark[p][j]) \in Nat
        BY GrowthType DEF TypeOK, Table
      <3>2. QED
        BY <2>1, <2>2, <3>1 DEF ApplyTick, TypeOK
    <2>3. CASE ledger' = ledger
      BY <2>1, <2>3
    <2>4. QED
      BY <2>2, <2>3 DEF Next, vars, HermesStep, PollerStep, guidb,
         ProfileCreated, Checkpoint, Spend, Reset, Prune, Commit,
         CopyMain, CopyWal, Skip, StartCycle, EndCycle, Crash
  <1>2. QED
    BY <1>1, TypeCorrect, PTL DEF Spec, LedgerOnlyGrows

=============================================================================
