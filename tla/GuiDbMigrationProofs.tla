------------------------- MODULE GuiDbMigrationProofs -------------------------
(***************************************************************************)
(* init_db over any old database, cut off any number of times: what comes  *)
(* up has the current schema, and no mark is lost on the way.  The facts   *)
(* are about init_db with a poller that reads anything, and hold for the   *)
(* whole server because its steps are such steps.                          *)
(***************************************************************************)
EXTENDS GuiServer, TLAPS

Rebuild == {"drop_orphan", "create_new", "copy_rows", "drop_old", "rename", "commit"}

\* What may be committed: an old table has rows of the default profile only, a
\* final one has no NULL, and a leftover of the rebuild stands beside an old
\* table only.
Sound ==
  /\ db.watermark.shape \in {"absent", "old", "final"}
  /\ db.watermark.shape = "absent" => db.watermark = Nothing
  /\ db.watermark.shape = "old" => OldRows(db.watermark.rows)
  /\ db.watermark.shape = "final" =>
       \A p \in Profiles, k \in Keys : db.watermark.rows[p][k] # Null
  /\ db.new = Nothing \/ db.watermark.shape = "old"

\* How far init_db has brought what is committed.
Progress ==
  /\ pc \in {"alter_ledger", "check_watermark"} => db.watermark.shape # "absent"
  /\ pc \in {"check_watermark", "begin", "up"} \cup Rebuild => db.ledger = "final"
  /\ pc \in {"begin"} \cup Rebuild => db.watermark.shape = "old"
  /\ pc = "up" => db.watermark.shape = "final"

\* The rows that the rebuild is to make of the committed ones.
NewRows ==
  [p \in Profiles |-> [k \in Keys |->
     IF p = Default THEN Coalesce(db.watermark.rows[p][k]) ELSE Missing]]

\* How far the open transaction has brought what it sees.
InTransaction ==
  /\ pc \in Rebuild => tx.ledger = "final"
  /\ pc \in {"drop_orphan", "create_new", "copy_rows", "drop_old"} =>
       tx.watermark = db.watermark
  /\ pc = "create_new" => tx.new = Nothing
  /\ pc = "copy_rows" => tx.new = Tab("final", NoRows)
  /\ pc \in {"drop_old", "rename"} => tx.new = Tab("final", NewRows)
  /\ pc = "commit" => tx.watermark = Tab("final", NewRows) /\ tx.new = Nothing

IInv == TypeOK /\ Sound /\ Progress /\ InTransaction

-----------------------------------------------------------------------------
(* Tables and rows.                                                        *)

LEMMA RowTypes ==
  /\ Missing \in Cell /\ Null # Missing /\ 0 \in Cell
  /\ \A c \in Cell : /\ Coalesce(c) \in Cell /\ Coalesce(c) # Null
                     /\ c = Null \/ Coalesce(c) = c
                     /\ c = Missing => Coalesce(c) = Missing
  /\ NoRows \in Rows
  /\ \A p \in Profiles, k \in Keys : NoRows[p][k] = Missing
  BY BoundsAssumption DEF Cell, Missing, Null, Coalesce, NoRows, Rows

LEMMA TableTypes ==
  /\ \A shape \in {"absent", "old", "final", "orphan"}, r \in Rows :
       /\ Tab(shape, r) \in Table
       /\ Tab(shape, r).shape = shape /\ Tab(shape, r).rows = r
  /\ Nothing \in Table /\ Nothing.shape = "absent"
  BY RowTypes DEF Tab, Table, Nothing

LEMMA DatabaseTypes ==
  ASSUME NEW d \in Database, NEW l \in {"absent", "old", "final"}, NEW t \in Table
  PROVE  /\ d.watermark \in Table /\ d.new \in Table
         /\ d.watermark.rows \in Rows
         /\ [d EXCEPT !.ledger = l] \in Database
         /\ [d EXCEPT !.watermark = t] \in Database
         /\ [d EXCEPT !.new = t] \in Database
  BY DEF Database, Table

LEMMA NewRowsTypes ==
  ASSUME db \in Database
  PROVE  /\ NewRows \in Rows
         /\ \A p \in Profiles, k \in Keys : NewRows[p][k] # Null
<1>1. ASSUME NEW p \in Profiles, NEW k \in Keys
      PROVE  db.watermark.rows[p][k] \in Cell
  BY DEF Database, Table, Rows
<1>2. ASSUME NEW p \in Profiles, NEW k \in Keys
      PROVE  NewRows[p][k] \in Cell /\ NewRows[p][k] # Null
  BY <1>1, RowTypes DEF NewRows
<1>3. NewRows \in Rows
  BY <1>2 DEF NewRows, Rows
<1>4. QED
  BY <1>2, <1>3

\* A transaction is open exactly during the rebuild; otherwise what is seen is
\* what is committed.
LEMMA SeenIs ==
  ASSUME TypeOK
  PROVE  /\ pc \in Rebuild => tx \in Database /\ tx # NoTx /\ Seen = tx
         /\ pc \notin Rebuild => tx = NoTx /\ Seen = db
  BY NoTxAssumption DEF TypeOK, Rebuild, Seen

\* A statement outside the rebuild commits.
LEMMA WriteCommits ==
  ASSUME TypeOK, pc \notin Rebuild, NEW d, Write(d)
  PROVE  db' = d /\ tx' = NoTx
  BY SeenIs DEF Write

\* A statement of the rebuild stays in the transaction.
LEMMA WriteWaits ==
  ASSUME TypeOK, pc \in Rebuild, NEW d, Write(d)
  PROVE  tx' = d /\ db' = db
  BY SeenIs DEF Write

LEMMA InitInv == Init => IInv
<1> SUFFICES ASSUME Init PROVE IInv
  OBVIOUS
<1>1. /\ db.ledger \in {"absent", "old"}
      /\ \/ db.watermark = Nothing /\ db.new = Nothing
         \/ /\ \E r \in Rows : OldRows(r) /\ db.watermark = Tab("old", r)
            /\ db.new \in {Nothing, Tab("orphan", NoRows)}
      /\ db = [ledger |-> db.ledger, watermark |-> db.watermark, new |-> db.new]
  BY DEF Init
<1>2. db.watermark \in Table /\ db.new \in Table
  BY <1>1, TableTypes, RowTypes
<1>3. db \in Database
  BY <1>1, <1>2 DEF Database
<1>4. Sound
  BY <1>1, TableTypes, RowTypes DEF Sound
<1>5. TypeOK
  BY <1>3, BoundsAssumption DEF Init, TypeOK
<1>6. QED
  BY <1>4, <1>5 DEF Init, IInv, Progress, InTransaction, Rebuild

-----------------------------------------------------------------------------
(* Statements outside the transaction.                                     *)

\* The marks in a table that was there already do not change, and a table that
\* was not is made empty.
MarksStay ==
  \/ db'.watermark = db.watermark
  \/ db.watermark = Nothing /\ db'.watermark.rows = NoRows

LEMMA ConnectInv == ASSUME IInv, Connect PROVE IInv' /\ MarksStay
  BY DEF IInv, TypeOK, Sound, OldRows, Progress, InTransaction, Rebuild, Connect, Goto, MarksStay

LEMMA CreateLedgerInv == ASSUME IInv, CreateLedger PROVE IInv' /\ MarksStay
<1>1. pc = "create_ledger" /\ pc' = "create_watermark" /\ crashes' = crashes /\ TypeOK
  BY DEF IInv, CreateLedger, Goto
<1>2. Seen = db /\ db \in Database
  BY <1>1, SeenIs DEF Rebuild, TypeOK
<1>3. db' \in {db, [db EXCEPT !.ledger = "final"]} /\ tx' = NoTx
  BY <1>1, <1>2, WriteCommits DEF CreateLedger, Rebuild
<1>4. db' \in Database /\ db'.watermark = db.watermark /\ db'.new = db.new
  BY <1>2, <1>3, DatabaseTypes, TableTypes DEF Database
<1>5. TypeOK'
  BY <1>1, <1>3, <1>4 DEF TypeOK
<1>6. QED
  BY <1>1, <1>4, <1>5 DEF IInv, Sound, OldRows, Progress, InTransaction, Rebuild, MarksStay

LEMMA CreateWatermarkInv == ASSUME IInv, CreateWatermark PROVE IInv' /\ MarksStay
<1>1. pc = "create_watermark" /\ pc' = "alter_ledger" /\ crashes' = crashes /\ TypeOK
  BY DEF IInv, CreateWatermark, Goto
<1>2. Seen = db /\ db \in Database
  BY <1>1, SeenIs DEF Rebuild, TypeOK
<1>3. /\ db' = IF db.watermark.shape = "absent"
                 THEN [db EXCEPT !.watermark = Tab("final", NoRows)] ELSE db
      /\ tx' = NoTx
  BY <1>1, <1>2, WriteCommits DEF CreateWatermark, Rebuild
<1>4. CASE db.watermark.shape = "absent"
  <2>1. /\ db' \in Database /\ db'.watermark = Tab("final", NoRows) /\ db'.new = Nothing
        /\ db.watermark = Nothing
    BY <1>2, <1>3, <1>4, DatabaseTypes, TableTypes, RowTypes DEF Database, IInv, Sound
  <2>2. TypeOK'
    BY <1>1, <1>3, <2>1 DEF TypeOK
  <2>3. Sound'
    BY <2>1, TableTypes, RowTypes DEF Sound
  <2>4. db'.watermark.shape = "final" /\ db'.watermark.rows = NoRows
    BY <2>1, TableTypes, RowTypes
  <2>5. QED
    BY <1>1, <2>1, <2>2, <2>3, <2>4 DEF IInv, Progress, InTransaction, Rebuild, MarksStay
<1>5. CASE db.watermark.shape # "absent"
  <2>1. db' = db
    BY <1>3, <1>5
  <2>2. TypeOK'
    BY <1>1, <1>3, <2>1 DEF TypeOK
  <2>3. QED
    BY <1>1, <1>5, <2>1, <2>2
       DEF IInv, Sound, OldRows, Progress, InTransaction, Rebuild, MarksStay
<1>6. QED
  BY <1>4, <1>5

LEMMA AlterLedgerInv == ASSUME IInv, AlterLedger PROVE IInv' /\ MarksStay
<1>1. pc = "alter_ledger" /\ pc' = "check_watermark" /\ crashes' = crashes /\ TypeOK
  BY DEF IInv, AlterLedger, Goto
<1>2. Seen = db /\ db \in Database
  BY <1>1, SeenIs DEF Rebuild, TypeOK
<1>3. db' = [db EXCEPT !.ledger = "final"] /\ tx' = NoTx
  BY <1>1, <1>2, WriteCommits DEF AlterLedger, Rebuild
<1>4. /\ db' \in Database /\ db'.watermark = db.watermark /\ db'.new = db.new
      /\ db'.ledger = "final"
  BY <1>2, <1>3, DatabaseTypes, TableTypes DEF Database
<1>5. TypeOK'
  BY <1>1, <1>3, <1>4 DEF TypeOK
<1>6. QED
  BY <1>1, <1>4, <1>5 DEF IInv, Sound, OldRows, Progress, InTransaction, Rebuild, MarksStay

\* Without an old table to rebuild, the schema is the final one.
LEMMA CheckWatermarkInv == ASSUME IInv, CheckWatermark PROVE IInv' /\ MarksStay
<1>1. /\ pc = "check_watermark" /\ UNCHANGED <<db, tx, crashes>>
      /\ pc' = IF NeedsRebuild THEN "begin" ELSE "up"
  BY DEF CheckWatermark, Goto
<1>2. NeedsRebuild <=> db.watermark.shape = "old"
  BY <1>1, SeenIs DEF IInv, Rebuild, NeedsRebuild
<1>3. TypeOK'
  BY <1>1 DEF IInv, TypeOK
<1>4. QED
  BY <1>1, <1>2, <1>3 DEF IInv, Sound, OldRows, Progress, InTransaction, Rebuild, MarksStay

-----------------------------------------------------------------------------
(* The rebuild.                                                            *)

LEMMA BeginInv == ASSUME IInv, Begin PROVE IInv' /\ MarksStay
<1>1. /\ pc = "begin" /\ pc' = "drop_orphan" /\ UNCHANGED <<db, crashes>>
      /\ tx' = db /\ db \in Database
  BY DEF IInv, TypeOK, Begin, Goto
<1>2. TypeOK'
  BY <1>1, NoTxAssumption DEF IInv, TypeOK
<1>3. QED
  BY <1>1, <1>2 DEF IInv, Sound, OldRows, Progress, InTransaction, Rebuild, MarksStay

\* A statement between BEGIN and COMMIT leaves alone what is committed.
Inside(from, to, d) ==
  /\ pc = from /\ pc' = to /\ from \in Rebuild /\ to \in Rebuild
  /\ UNCHANGED <<db, crashes>>
  /\ tx' = d /\ d \in Database

LEMMA InsideInv ==
  ASSUME IInv, NEW from, NEW to, NEW d, Inside(from, to, d), InTransaction'
  PROVE  IInv' /\ MarksStay
<1>1. TypeOK'
  BY NoTxAssumption DEF IInv, TypeOK, Inside, Rebuild
<1>2. Sound' /\ Progress'
  BY DEF IInv, Sound, OldRows, Progress, Inside, Rebuild
<1>3. QED
  BY <1>1, <1>2 DEF IInv, Inside, MarksStay

LEMMA DropOrphanInv == ASSUME IInv, DropOrphan PROVE IInv' /\ MarksStay
<1> DEFINE d == [tx EXCEPT !.new = Nothing]
<1>1. pc = "drop_orphan" /\ pc' = "create_new" /\ crashes' = crashes /\ TypeOK
  BY DEF IInv, DropOrphan, Goto
<1>2. tx \in Database /\ Seen = tx
  BY <1>1, SeenIs DEF Rebuild
<1>3. Inside("drop_orphan", "create_new", d)
  BY <1>1, <1>2, WriteWaits, DatabaseTypes, TableTypes DEF DropOrphan, Inside, Rebuild
<1>4. d.new = Nothing /\ d.watermark = tx.watermark /\ d.ledger = tx.ledger
  BY <1>2 DEF Database
<1>5. InTransaction'
  BY <1>1, <1>3, <1>4 DEF IInv, InTransaction, Inside, Rebuild
<1>6. QED
  BY <1>3, <1>5, InsideInv

LEMMA CreateNewInv == ASSUME IInv, CreateNew PROVE IInv' /\ MarksStay
<1> DEFINE d == [tx EXCEPT !.new = Tab("final", NoRows)]
<1>1. pc = "create_new" /\ pc' = "copy_rows" /\ crashes' = crashes /\ TypeOK
  BY DEF IInv, CreateNew, Goto
<1>2. tx \in Database /\ Seen = tx
  BY <1>1, SeenIs DEF Rebuild
<1>3. Inside("create_new", "copy_rows", d)
  BY <1>1, <1>2, WriteWaits, DatabaseTypes, TableTypes, RowTypes
     DEF CreateNew, Inside, Rebuild
<1>4. d.new = Tab("final", NoRows) /\ d.watermark = tx.watermark /\ d.ledger = tx.ledger
  BY <1>2 DEF Database
<1>5. InTransaction'
  BY <1>1, <1>3, <1>4 DEF IInv, InTransaction, Inside, Rebuild
<1>6. QED
  BY <1>3, <1>5, InsideInv

LEMMA CopyRowsInv == ASSUME IInv, CopyRows PROVE IInv' /\ MarksStay
<1> DEFINE d == [tx EXCEPT !.new = Tab("final", NewRows)]
<1>1. pc = "copy_rows" /\ pc' = "drop_old" /\ crashes' = crashes /\ TypeOK
  BY DEF IInv, CopyRows, Goto
<1>2. tx \in Database /\ Seen = tx /\ tx.watermark = db.watermark
      /\ tx.new = Tab("final", NoRows)
  BY <1>1, SeenIs DEF IInv, InTransaction, Rebuild
<1>3. Copied = NewRows
  BY <1>2 DEF Copied, NewRows
<1>4. [tx.new EXCEPT !.rows = NewRows] = Tab("final", NewRows)
  BY <1>2 DEF Tab
<1>5. Write([tx EXCEPT !.new = [tx.new EXCEPT !.rows = NewRows]])
  BY <1>2, <1>3, Zenon DEF CopyRows
<1>6. Write(d)
  BY <1>4, <1>5
<1>7. Tab("final", NewRows) \in Table
  BY NewRowsTypes, TableTypes DEF IInv, TypeOK
<1>8. Inside("copy_rows", "drop_old", d)
  BY <1>1, <1>2, <1>6, <1>7, WriteWaits, DatabaseTypes DEF Inside, Rebuild
<1>9. d.new = Tab("final", NewRows) /\ d.watermark = tx.watermark /\ d.ledger = tx.ledger
  BY <1>2 DEF Database
<1>10. InTransaction'
  BY <1>1, <1>2, <1>8, <1>9 DEF IInv, InTransaction, Inside, Rebuild, NewRows
<1>11. QED
  BY <1>8, <1>10, InsideInv

LEMMA DropOldInv == ASSUME IInv, DropOld PROVE IInv' /\ MarksStay
<1> DEFINE d == [tx EXCEPT !.watermark = Nothing]
<1>1. pc = "drop_old" /\ pc' = "rename" /\ crashes' = crashes /\ TypeOK
  BY DEF IInv, DropOld, Goto
<1>2. tx \in Database /\ Seen = tx
  BY <1>1, SeenIs DEF Rebuild
<1>3. Inside("drop_old", "rename", d)
  BY <1>1, <1>2, WriteWaits, DatabaseTypes, TableTypes DEF DropOld, Inside, Rebuild
<1>4. d.new = tx.new /\ d.ledger = tx.ledger
  BY <1>2 DEF Database
<1>5. InTransaction'
  BY <1>1, <1>3, <1>4 DEF IInv, InTransaction, Inside, Rebuild, NewRows
<1>6. QED
  BY <1>3, <1>5, InsideInv

LEMMA RenameInv == ASSUME IInv, Rename PROVE IInv' /\ MarksStay
<1> DEFINE d == [tx EXCEPT !.watermark = tx.new, !.new = Nothing]
<1>1. pc = "rename" /\ pc' = "commit" /\ crashes' = crashes /\ TypeOK
  BY DEF IInv, Rename, Goto
<1>2. tx \in Database /\ Seen = tx /\ tx.new = Tab("final", NewRows)
  BY <1>1, SeenIs DEF IInv, InTransaction, Rebuild
<1>3. d.watermark = tx.new /\ d.new = Nothing /\ d.ledger = tx.ledger /\ d \in Database
  BY <1>2, TableTypes DEF Database
<1>4. Inside("rename", "commit", d)
  BY <1>1, <1>2, <1>3, WriteWaits DEF Rename, Inside, Rebuild
<1>5. InTransaction'
  BY <1>1, <1>2, <1>3, <1>4 DEF IInv, InTransaction, Inside, Rebuild, NewRows
<1>6. QED
  BY <1>4, <1>5, InsideInv

-----------------------------------------------------------------------------
(* What a step does to the committed marks.                                *)

KeptMark(p, k) ==
  LET mark == db.watermark.rows[p][k]  mark2 == db'.watermark.rows[p][k]
  IN  /\ mark # Missing => mark2 # Missing
      /\ \/ pc = "up" /\ pc' = "up"
         \/ mark2 = mark
         \/ mark = Null /\ mark2 = 0

Kept == \A p \in Profiles, k \in Keys : KeptMark(p, k)

LEMMA MarksStayKept == ASSUME IInv, MarksStay PROVE Kept
<1> SUFFICES ASSUME NEW p \in Profiles, NEW k \in Keys
             PROVE  KeptMark(p, k)
  BY DEF Kept
<1>1. CASE db'.watermark = db.watermark
  BY <1>1 DEF KeptMark
<1>2. CASE /\ db.watermark = Nothing
           /\ db'.watermark.rows = NoRows
  BY <1>2, RowTypes, TableTypes DEF KeptMark, Nothing
<1>3. QED
  BY <1>1, <1>2 DEF MarksStay

\* COMMIT puts the rebuilt rows in place of the old ones.
LEMMA CommitInv == ASSUME IInv, Commit PROVE IInv' /\ Kept
<1>1. /\ pc = "commit" /\ pc' = "up" /\ crashes' = crashes /\ tx' = NoTx
      /\ TypeOK /\ db \in Database
  BY DEF IInv, TypeOK, Commit, Goto
<1>2. /\ tx \in Database /\ db' = tx /\ tx.watermark = Tab("final", NewRows)
      /\ tx.new = Nothing /\ tx.ledger = "final"
  BY <1>1, SeenIs DEF IInv, InTransaction, Rebuild, Commit
<1>3. NewRows \in Rows /\ \A p \in Profiles, k \in Keys : NewRows[p][k] # Null
  BY <1>1, NewRowsTypes
<1>4. db'.watermark.shape = "final" /\ db'.watermark.rows = NewRows
  BY <1>2, <1>3, TableTypes
<1>5. TypeOK'
  BY <1>1, <1>2 DEF TypeOK
<1>6. IInv'
  BY <1>1, <1>2, <1>3, <1>4, <1>5 DEF IInv, Sound, Progress, InTransaction, Rebuild
<1>7. Kept
  <2> SUFFICES ASSUME NEW p \in Profiles, NEW k \in Keys
               PROVE  KeptMark(p, k)
    BY DEF Kept
  <2>1. OldRows(db.watermark.rows)
    BY <1>1 DEF IInv, Sound, Progress, Rebuild
  <2>2. db.watermark.rows[p][k] \in Cell
    BY <1>1 DEF Database, Table, Rows
  <2>3. CASE p # Default
    <3>1. db.watermark.rows[p][k] = Missing /\ db'.watermark.rows[p][k] = Missing
      BY <1>4, <2>1, <2>3, RowTypes DEF OldRows, NewRows
    <3>2. QED
      BY <3>1 DEF KeptMark
  <2>4. CASE p = Default
    <3>1. db'.watermark.rows[p][k] = Coalesce(db.watermark.rows[p][k])
      BY <1>4, <2>4 DEF NewRows
    <3>2. QED
      BY <2>2, <3>1 DEF KeptMark, Coalesce, Missing, Null
  <2>5. QED
    BY <2>3, <2>4
<1>8. QED
  BY <1>6, <1>7

LEMMA CrashInv == ASSUME IInv, Crash PROVE IInv' /\ MarksStay
<1>1. /\ UNCHANGED db /\ pc' = "down" /\ tx' = NoTx
      /\ crashes' \in 0..MaxCrashes
  BY BoundsAssumption DEF IInv, TypeOK, Crash
<1>2. TypeOK'
  BY <1>1 DEF IInv, TypeOK
<1>3. QED
  BY <1>1, <1>2 DEF IInv, Sound, OldRows, Progress, InTransaction, Rebuild, MarksStay

\* The poller moves marks of one profile and takes none away.
LEMMA TickInv == ASSUME IInv, NEW p \in Profiles, Tick(p) PROVE IInv' /\ Kept
<1> DEFINE old == db.watermark.rows
<1>0. PICK read \in SUBSET Keys : \E m \in [read -> 0..MaxMark] :
        db' = [db EXCEPT !.watermark.rows[p] =
                 [k \in Keys |-> IF k \in read THEN m[k] ELSE @[k]]]
  BY DEF Tick
<1>1. PICK m \in [read -> 0..MaxMark] :
        db' = [db EXCEPT !.watermark.rows[p] =
                 [k \in Keys |-> IF k \in read THEN m[k] ELSE @[k]]]
  BY <1>0
<1>2. /\ pc = "up" /\ db.watermark.shape = "final" /\ UNCHANGED <<tx, pc, crashes>>
      /\ db \in Database /\ old \in Rows /\ db.watermark \in Table
  BY DatabaseTypes, TableTypes, RowTypes DEF IInv, TypeOK, Tick
<1> DEFINE upsert == [k \in Keys |-> IF k \in read THEN m[k] ELSE old[p][k]]
           new == [old EXCEPT ![p] = upsert]
<1>3. db' = [db EXCEPT !.watermark = [db.watermark EXCEPT !.rows = new]]
  BY <1>1, Zenon
<1>4. ASSUME NEW j \in Keys
      PROVE  /\ upsert[j] \in Cell /\ upsert[j] # Null
             /\ upsert[j] = Missing => old[p][j] = Missing
  <2>1. old[p][j] \in Cell /\ old[p][j] # Null
    BY <1>2 DEF Rows, IInv, Sound
  <2>2. CASE j \in read
    <3>1. m[j] \in 0..MaxMark
      BY <2>2
    <3>2. QED
      BY <2>2, <3>1, BoundsAssumption DEF Cell, Null, Missing
  <2>3. CASE j \notin read
    BY <2>1, <2>3
  <2>4. QED
    BY <2>2, <2>3
<1>5. /\ new \in Rows
      /\ \A q \in Profiles, j \in Keys :
           new[q][j] = IF q = p THEN upsert[j] ELSE old[q][j]
  <2>1. upsert \in [Keys -> Cell]
    BY <1>4
  <2>2. QED
    BY <1>2, <2>1 DEF Rows
<1> HIDE DEF new
<1>6. [db.watermark EXCEPT !.rows = new] = Tab("final", new)
  BY <1>2 DEF Table, Tab
<1>7. /\ db' \in Database /\ db'.watermark = Tab("final", new)
      /\ db'.new = db.new /\ db'.ledger = db.ledger
  BY <1>2, <1>3, <1>5, <1>6, TableTypes DEF Database
<1>8. db'.watermark.shape = "final" /\ db'.watermark.rows = new
  BY <1>5, <1>7, TableTypes
<1>9. TypeOK'
  BY <1>2, <1>7 DEF IInv, TypeOK
<1>10. Sound'
  BY <1>2, <1>4, <1>5, <1>7, <1>8 DEF IInv, Sound
<1>11. IInv'
  BY <1>2, <1>7, <1>8, <1>9, <1>10 DEF IInv, Progress, InTransaction, Rebuild
<1>12. Kept
  <2> SUFFICES ASSUME NEW q \in Profiles, NEW j \in Keys
               PROVE  KeptMark(q, j)
    BY DEF Kept
  <2>1. db'.watermark.rows[q][j] = IF q = p THEN upsert[j] ELSE old[q][j]
    BY <1>5, <1>8
  <2>2. QED
    BY <1>2, <1>4, <2>1 DEF KeptMark, Missing
<1>13. QED
  BY <1>11, <1>12

-----------------------------------------------------------------------------
LEMMA StepInv == ASSUME IInv, [Next]_vars PROVE IInv' /\ Kept
<1>1. CASE UNCHANGED vars
  BY <1>1, MarksStayKept
     DEF IInv, TypeOK, Sound, OldRows, Progress, InTransaction, NewRows, vars, MarksStay
<1>2. CASE Statement
  BY <1>2, MarksStayKept, CreateLedgerInv, CreateWatermarkInv, AlterLedgerInv,
     CheckWatermarkInv, BeginInv, DropOrphanInv, CreateNewInv, CopyRowsInv, DropOldInv,
     RenameInv, CommitInv DEF Statement
<1>3. QED
  BY <1>1, <1>2, MarksStayKept, ConnectInv, CrashInv, TickInv DEF Next

\* What init_db and the poller do to gui.db inside the server is what
\* GuiDbMigration lets them do, whatever Hermes writes and the poller reads.
THEOREM ServerIsAStart == ServerSpec => Spec
<1>1. ServerInit => Init
  BY DEF ServerInit
<1>2. ServerNext => [Next]_vars
  <2> SUFFICES ASSUME ServerNext PROVE [Next]_vars
    OBVIOUS
  <2>1. ASSUME NEW p \in Profiles,
               CopyMain(p) \/ CopyWal(p) \/ Skip(p) \/ ApplyTick(p) \/ HermesStep(p)
        PROVE  [Next]_vars
    BY <2>1, Zenon DEF CopyMain, CopyWal, Skip, ApplyTick, HermesStep, Next
  <2>2. Start \/ Cycle \/ Die => [Next]_vars
    BY Zenon DEF Start, Cycle, Die, Next
  <2>3. QED
    BY <2>1, <2>2, Zenon DEF ServerNext
<1>3. UNCHANGED server => UNCHANGED vars
  BY DEF server
<1>4. QED
  BY <1>1, <1>2, <1>3, PTL DEF ServerSpec, Spec

\* Whatever database an older version left and wherever a start was cut off,
\* the process comes up on the current schema only.
THEOREM UpIsFinal == ServerSpec => []UpMeansFinalSchema
<1>1. IInv => UpMeansFinalSchema
  BY DEF IInv, Sound, Progress, UpMeansFinalSchema
<1>2. QED
  BY <1>1, InitInv, StepInv, ServerIsAStart, PTL DEF Spec

\* No step loses a committed mark, and neither a migration nor a crash in the
\* middle of one moves a mark or makes one up.
THEOREM MarksSurvive == ServerSpec => MarksAreKept
<1>1. IInv /\ [Next]_vars => [Kept]_vars
  BY StepInv
<1>2. [][Kept]_vars => MarksAreKept
  BY PTL DEF Kept, KeptMark, MarksAreKept
<1>3. QED
  BY <1>1, <1>2, InitInv, StepInv, ServerIsAStart, PTL DEF Spec
=============================================================================
