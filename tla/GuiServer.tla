------------------------------- MODULE GuiServer -------------------------------
(***************************************************************************)
(* The backend of openbrain-gui from start to start: init_db brings gui.db *)
(* to the current schema (GuiDbMigration), then the usage poller runs on   *)
(* it (UsageLedger), until the process dies.  Hermes goes on meanwhile.    *)
(* The watermark that the poller diffs against is the table that the       *)
(* migration has left, so a mark that a start loses or moves shows up as   *)
(* spend that is booked twice or never.                                    *)
(***************************************************************************)
EXTENDS GuiDbMigration

VARIABLES
  discovered, main, wal, usage, spent,  \* Hermes
  ledger, prior,                        \* the sum of usage_ledger, and history
  stage, todo, cur, copy                \* the poller

hermes  == <<discovered, main, wal, usage, spent>>
poller  == <<stage, todo, cur, copy>>
polling == <<hermes, ledger, prior, poller>>
server  == <<vars, polling>>

\* The marks as a tick reads them: `(previous or {}).get(source) or 0`.
Marks ==
  [p \in Profiles |-> [k \in Keys |->
     IF db.watermark.rows[p][k] = Missing THEN -1 ELSE Coalesce(db.watermark.rows[p][k])]]

Ledger == INSTANCE UsageLedger
            WITH watermark <- Marks, MaxSpend <- MaxMark,
                 AllowResets <- FALSE, CheckpointDuringCopy <- FALSE

\* An older version has polled the default profile up to its marks.
ServerInit ==
  /\ Init
  /\ discovered \in SUBSET Profiles
  /\ Marks[Default] # Ledger!Empty => Default \in discovered
  /\ usage  = Marks
  /\ main   = Marks
  /\ wal    = [p \in Profiles |-> {}]
  /\ prior  = [p \in Profiles |-> [k \in Keys |-> Ledger!Counter(Marks[p][k])]]
  /\ spent  = prior
  /\ ledger = [p \in Profiles |-> [k \in Keys |-> 0]]
  /\ stage = "idle" /\ todo = {} /\ cur = Default /\ copy = Ledger!Empty

\* init_db of the lifespan handler; the poller is not started yet.
Start == (Connect \/ Statement) /\ UNCHANGED polling

\* The poller thread runs once init_db is through.
CopyMain(p) == pc = "up" /\ UNCHANGED vars /\ Ledger!CopyMain(p)
CopyWal(p)  == pc = "up" /\ UNCHANGED vars /\ Ledger!CopyWal(p)
Skip(p)     == pc = "up" /\ UNCHANGED vars /\ Ledger!Skip(p)
ApplyTick(p) == stage = "read" /\ cur = p /\ Tick(p) /\ Ledger!ApplyTick(p)

Cycle ==
  /\ pc = "up"
  /\ UNCHANGED vars
  /\ Ledger!StartCycle \/ Ledger!EndCycle

HermesStep(p) == UNCHANGED vars /\ Ledger!HermesStep(p)

\* The process dies: its open transaction and the copy it read go with it.
Die ==
  /\ Crash
  /\ stage' = "idle" /\ todo' = {} /\ copy' = Ledger!Empty
  /\ UNCHANGED <<hermes, ledger, prior, cur>>

ServerNext ==
  \/ Start \/ Cycle \/ Die
  \/ \E p \in Profiles :
       CopyMain(p) \/ CopyWal(p) \/ Skip(p) \/ ApplyTick(p) \/ HermesStep(p)

\* The container is restarted whenever it is down, the poller loops for ever and
\* every cycle polls every profile.  Copies and ticks fail now and then (Skip, Die)
\* but not for ever, so a step that is enabled again and again is taken in the end.
Fairness ==
  /\ WF_server(Start) /\ WF_server(Cycle)
  /\ \A p \in Profiles :
       SF_server(CopyMain(p)) /\ SF_server(CopyWal(p)) /\ SF_server(ApplyTick(p))

ServerSpec == ServerInit /\ [][ServerNext]_server /\ Fairness

-----------------------------------------------------------------------------
\* Across upgrades, starts that are cut off, skips and crashes, no spend is
\* booked twice, and a profile's history is not booked as new.
NeverOverRecords == Ledger!NeverOverRecords

\* Whatever Hermes spends reaches the ledger sooner or later, also while the
\* server is down or bringing gui.db to the current schema.
SpendIsRecorded == Ledger!SpendIsRecorded

=============================================================================
