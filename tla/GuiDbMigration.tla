---------------------------- MODULE GuiDbMigration ----------------------------
(***************************************************************************)
(* How openbrain-gui brings gui.db to the current schema at every start    *)
(* (db.init_db): the CREATE TABLE IF NOT EXISTS script, a column added to  *)
(* usage_ledger, and usage_watermark rebuilt under a new primary key.  The *)
(* process may die between any two statements and is started again by the  *)
(* container runtime; what SQLite committed stays, an open transaction is  *)
(* rolled back.  Once up, the process runs the usage poller, whose marks   *)
(* the next start finds.                                                   *)
(*                                                                         *)
(* The tables that never changed their shape (prompts, delete_log and the  *)
(* others) are left out: CREATE ... IF NOT EXISTS is all that they get.    *)
(***************************************************************************)
EXTENDS Integers

CONSTANTS
  Profiles, Default,  \* Default: the profile of rows written before profiles
  Keys,               \* (session_id, model, task) triples
  NoTx,               \* "no transaction is open"
  MaxMark,            \* bound: the largest counter a mark reaches
  MaxCrashes          \* bound: how often the process dies

ASSUME DefaultAssumption == Default \in Profiles
ASSUME BoundsAssumption == MaxMark \in Nat /\ MaxCrashes \in Nat

Missing == -2  \* no such row
Null    == -1  \* a row whose counter is NULL
Cell    == 0..MaxMark \cup {Missing, Null}
Rows    == [Profiles -> [Keys -> Cell]]
NoRows  == [p \in Profiles |-> [k \in Keys |-> Missing]]

\* A table is absent, or has a shape and rows; "old" tables have no profile
\* column, and their rows count as Default's.
Table    == [shape: {"absent", "old", "final", "orphan"}, rows: Rows]
Tab(shape, rows) == [shape |-> shape, rows |-> rows]
Nothing  == Tab("absent", NoRows)
Database == [ledger: {"absent", "old", "final"}, watermark: Table, new: Table]

ASSUME NoTxAssumption == NoTx \notin Database

VARIABLES
  db,      \* what is committed to gui.db
  tx,      \* what the open transaction sees, or NoTx
  pc,      \* the statement init_db is about to run
  crashes

vars == <<db, tx, pc, crashes>>

OldRows(rows) ==
  rows \in Rows /\ \A p \in Profiles \ {Default} : rows[p] = NoRows[p]

\* No gui.db yet, or one from before profiles: its watermark may hold NULL
\* counters, and an aborted rebuild may have left usage_watermark_new behind.
Init ==
  /\ db \in
       {[ledger |-> "absent", watermark |-> Nothing, new |-> Nothing]} \cup
       [ledger: {"old"},
        watermark: {Tab("old", r) : r \in {s \in Rows : OldRows(s)}},
        new: {Nothing, Tab("orphan", NoRows)}]
  /\ tx = NoTx
  /\ pc = "down"
  /\ crashes = 0

-----------------------------------------------------------------------------
(* Running a statement: inside a transaction it changes what the           *)
(* transaction sees, outside it is committed at once.                      *)

Seen == IF tx = NoTx THEN db ELSE tx

Goto(from, to) == pc = from /\ pc' = to /\ UNCHANGED crashes

Write(d) ==
  IF tx = NoTx THEN db' = d /\ UNCHANGED tx ELSE tx' = d /\ UNCHANGED db

Connect == Goto("down", "create_ledger") /\ UNCHANGED <<db, tx>>

CreateLedger ==
  /\ Goto("create_ledger", "create_watermark")
  /\ Write(IF Seen.ledger = "absent" THEN [Seen EXCEPT !.ledger = "final"] ELSE Seen)

CreateWatermark ==
  /\ Goto("create_watermark", "alter_ledger")
  /\ Write(IF Seen.watermark.shape = "absent"
             THEN [Seen EXCEPT !.watermark = Tab("final", NoRows)] ELSE Seen)

\* ALTER TABLE usage_ledger ADD COLUMN profile, when the column is not there
AlterLedger ==
  /\ Goto("alter_ledger", "check_watermark")
  /\ Write([Seen EXCEPT !.ledger = "final"])

\* mutated form: the check looks at the other table's column
ChecksTheLedger == Seen.ledger = "old"

NeedsRebuild == Seen.watermark.shape = "old"

CheckWatermark ==
  /\ \/ NeedsRebuild /\ Goto("check_watermark", "begin")
     \/ ~NeedsRebuild /\ Goto("check_watermark", "up")
  /\ UNCHANGED <<db, tx>>

\* mutated form: the rebuild's statements each commit on their own
NoBegin == Goto("begin", "drop_orphan") /\ UNCHANGED <<db, tx>>

Begin ==
  /\ Goto("begin", "drop_orphan")
  /\ tx' = db
  /\ UNCHANGED db

\* mutated form: no DROP TABLE IF EXISTS
KeepOrphan == Goto("drop_orphan", "create_new") /\ UNCHANGED <<db, tx>>

DropOrphan ==
  /\ Goto("drop_orphan", "create_new")
  /\ Write([Seen EXCEPT !.new = Nothing])

\* fails with "table usage_watermark_new already exists"
CreateNew ==
  /\ Seen.new = Nothing
  /\ Goto("create_new", "copy_rows")
  /\ Write([Seen EXCEPT !.new = Tab("final", NoRows)])

Coalesce(cell) == IF cell = Null THEN 0 ELSE cell

Copied ==
  [p \in Profiles |-> [k \in Keys |->
     IF p = Default THEN Coalesce(Seen.watermark.rows[p][k]) ELSE Missing]]

\* every counter of the new table is NOT NULL
CopyRows ==
  /\ \A p \in Profiles, k \in Keys : Copied[p][k] # Null
  /\ Goto("copy_rows", "drop_old")
  /\ Write([Seen EXCEPT !.new.rows = Copied])

DropOld ==
  /\ Goto("drop_old", "rename")
  /\ Write([Seen EXCEPT !.watermark = Nothing])

Rename ==
  /\ Goto("rename", "commit")
  /\ Write([Seen EXCEPT !.watermark = Seen.new, !.new = Nothing])

Commit ==
  /\ Goto("commit", "up")
  /\ db' = Seen
  /\ tx' = NoTx

Statement ==
  \/ CreateLedger \/ CreateWatermark \/ AlterLedger \/ CheckWatermark
  \/ Begin \/ DropOrphan \/ CreateNew \/ CopyRows \/ DropOld \/ Rename \/ Commit

\* the constraint that the next statement would break
Refused ==
  \/ pc = "create_new" /\ Seen.new # Nothing
  \/ pc = "copy_rows" /\ \E p \in Profiles, k \in Keys : Copied[p][k] = Null

\* The process dies or is stopped, or a statement raises (it is refused, gui.db
\* is locked, the disk is full), which ends the start too.  An open transaction
\* goes with it.  The bound does not apply to a statement that is refused.
Crash ==
  /\ pc # "down"
  /\ crashes < MaxCrashes \/ Refused
  /\ crashes' = IF Refused THEN crashes ELSE crashes + 1
  /\ pc' = "down"
  /\ tx' = NoTx
  /\ UNCHANGED db

\* The poller's upsert gives a mark to every key that it read, also one below
\* the mark it had when a session was reset.  What it reads is up to UsageLedger.
Tick(p) ==
  /\ pc = "up"
  /\ db.watermark.shape = "final"
  /\ \E read \in SUBSET Keys : \E m \in [read -> 0..MaxMark] :
       db' = [db EXCEPT !.watermark.rows[p] =
                [k \in Keys |-> IF k \in read THEN m[k] ELSE @[k]]]
  /\ UNCHANGED <<tx, pc, crashes>>

Next ==
  \/ Connect \/ Statement \/ Crash
  \/ \E p \in Profiles : Tick(p)

\* GuiServer runs these steps together with the poller, and fairly.
Spec == Init /\ [][Next]_vars
-----------------------------------------------------------------------------
\* A transaction is open exactly during the statements of the rebuild.
TypeOK ==
  /\ db \in Database
  /\ tx \in Database \cup {NoTx}
  /\ pc \in {"down", "create_ledger", "create_watermark", "alter_ledger",
             "check_watermark", "begin", "drop_orphan", "create_new",
             "copy_rows", "drop_old", "rename", "commit", "up"}
  /\ crashes \in 0..MaxCrashes
  /\ tx # NoTx <=> pc \in {"drop_orphan", "create_new", "copy_rows",
                           "drop_old", "rename", "commit"}

\* The process serves requests and polls only on the current schema: from
\* whatever point an earlier start was cut off, init_db does not come through
\* with a table in its old shape or with a leftover of the rebuild.
UpMeansFinalSchema ==
  pc = "up" => /\ db.ledger = "final"
               /\ db.watermark.shape = "final"
               /\ db.new = Nothing

\* No committed mark is ever lost, and only the poller moves one: a start, cut
\* off anywhere or not, leaves every counter of every profile at its value (a
\* NULL of the old shape may become 0) and makes up no mark that was not there.
\* A lost mark, or one that a start moved, would book spend a second time or
\* not at all; one made up for a new profile would take its seeding away.
MarksAreKept ==
  [][\A p \in Profiles, k \in Keys :
       LET mark == db.watermark.rows[p][k]  mark2 == db'.watermark.rows[p][k]
       IN  /\ mark # Missing => mark2 # Missing
           /\ \/ pc = "up" /\ pc' = "up"
              \/ mark2 = mark
              \/ mark = Null /\ mark2 = 0]_vars

\* The process does not crash-loop: the container runtime restarts it whenever it
\* is down, and after the last crash it comes up and stays.
ComesUp == <>[](pc = "up")
=============================================================================
