----------------------------- MODULE UsageLedger -----------------------------
(***************************************************************************)
(* The usage ledger of openbrain-gui: a poller that turns the lifetime     *)
(* counters of Hermes' state.db files into a series of increments.         *)
(*                                                                         *)
(* Hermes (not in this repository) keeps one SQLite database per profile   *)
(* in WAL mode: a main file, and a WAL whose frames override it until a    *)
(* checkpoint folds them in.  A read of the GUI copies the main file and   *)
(* then the WAL, in two steps that Hermes may interleave with, and opens   *)
(* the copy (hermes_usage.snapshot).  A tick of the poller compares the    *)
(* copy with the watermark stored in gui.db and appends what grew          *)
(* (ledger_store.apply_tick), one transaction per profile.                 *)
(*                                                                         *)
(* One counter stands for the seven of _COUNTERS, which the code treats    *)
(* alike and independently; a key is a (session_id, model, task) triple.   *)
(***************************************************************************)
EXTENDS Integers

CONSTANTS
  Profiles,            \* keys of the Hermes profiles
  Keys,                \* (session_id, model, task) triples
  MaxSpend,            \* bound: what one key of one profile may ever spend
  AllowResets,         \* may Hermes reset or prune a usage row?
  CheckpointDuringCopy \* may Hermes checkpoint between the two file copies?

ASSUME MaxSpendAssumption == MaxSpend \in Nat
ASSUME ResetsAssumption == AllowResets \in BOOLEAN
ASSUME CheckpointAssumption == CheckpointDuringCopy \in BOOLEAN

VARIABLES
  discovered,  \* profiles whose state.db exists (profiles.list_profiles)
  main,        \* main[p]: the rows in the main file of p's state.db
  wal,         \* wal[p]: the keys whose current row is in the WAL
  usage,       \* usage[p]: session_model_usage as Hermes sees it (main + WAL)
  watermark,   \* usage_watermark of gui.db, per profile and key
  ledger,      \* the sum of the usage_ledger rows, per profile and key
  stage,       \* where the poller thread is
  todo,        \* profiles still to be polled in this cycle
  cur,         \* the profile being polled
  copy,        \* the temporary copy of cur's state.db
  spent,       \* history: everything a key ever spent
  prior        \* history: the part of it the first marks of a profile found

hermes  == <<discovered, main, wal, usage, spent>>
guidb   == <<watermark, ledger, prior>>
poller  == <<stage, todo, cur, copy>>
vars    == <<discovered, main, wal, usage, watermark, ledger, stage, todo,
             cur, copy, spent, prior>>

-----------------------------------------------------------------------------
(* Tables: a cell is a counter or Absent when the table has no such row.   *)

Absent   == -1
Cell     == Nat \cup {Absent}
Table    == [Keys -> Cell]
Empty    == [k \in Keys |-> Absent]

\* `row.get(source) or 0`, `(previous or {}).get(source) or 0`
Counter(cell) == IF cell = Absent THEN 0 ELSE cell

\* mutated form: the increment is not clamped
SignedGrowth(now, before) == Counter(now) - Counter(before)

\* max(current - before, 0): a counter that went backwards counts for nothing
Growth(now, before) ==
  IF Counter(now) > Counter(before) THEN Counter(now) - Counter(before) ELSE 0

\* mutated form: the first tick is billed like any other
NeverSeeding(p) == FALSE

\* mutated form: a single new key makes the whole tick a seeding one
SeedingIfAnyNew(p) == \E k \in Keys : watermark[p][k] = Absent

\* mutated form: marks are looked up without the profile
SeedingOnce(p) == \A q \in Profiles : watermark[q] = Empty

\* `seeding = not marks`: the profile has no watermark row yet
Seeding(p) == watermark[p] = Empty

\* the watermark upsert: a row for every row read, others untouched
Upsert(rows, marks) ==
  [k \in Keys |-> IF rows[k] = Absent THEN marks[k] ELSE rows[k]]

\* mutated form: the copy is opened without its WAL
MainOnly(file, frames, rows) == file

\* opening the copy: WAL frames override the main file
Overlay(file, frames, rows) ==
  [k \in Keys |-> IF k \in frames THEN rows[k] ELSE file[k]]

Init ==
  /\ discovered \in SUBSET Profiles
  /\ main      = [p \in Profiles |-> Empty]
  /\ wal       = [p \in Profiles |-> {}]
  /\ usage     = [p \in Profiles |-> Empty]
  /\ watermark = [p \in Profiles |-> Empty]
  /\ ledger    = [p \in Profiles |-> [k \in Keys |-> 0]]
  /\ spent     = [p \in Profiles |-> [k \in Keys |-> 0]]
  /\ prior     = [p \in Profiles |-> [k \in Keys |-> 0]]
  /\ stage = "idle"
  /\ todo  = {}
  /\ cur \in Profiles
  /\ copy  = Empty

-----------------------------------------------------------------------------
(* Hermes: an external program, known by how the GUI reads its files.      *)

ProfileCreated(p) ==
  /\ p \notin discovered
  /\ discovered' = discovered \cup {p}
  /\ UNCHANGED <<main, wal, usage, spent, guidb, poller>>

Commit(p, k, cell) ==
  /\ usage' = [usage EXCEPT ![p][k] = cell]
  /\ wal'   = [wal EXCEPT ![p] = @ \cup {k}]
  /\ UNCHANGED <<discovered, main, guidb, poller>>

Spend(p, k) ==
  /\ p \in discovered
  /\ spent[p][k] < MaxSpend
  /\ spent' = [spent EXCEPT ![p][k] = @ + 1]
  /\ Commit(p, k, Counter(usage[p][k]) + 1)

\* a session reset or replaced: the row stays, its counter starts again
Reset(p, k) ==
  /\ AllowResets
  /\ usage[p][k] > 0
  /\ UNCHANGED spent
  /\ Commit(p, k, 0)

Prune(p, k) ==
  /\ AllowResets
  /\ usage[p][k] # Absent
  /\ UNCHANGED spent
  /\ Commit(p, k, Absent)

\* A checkpoint moves the WAL's rows to the main file and the WAL starts
\* afresh (the last connection to close also deletes it).
Copying(p) == stage = "copied" /\ cur = p

Checkpoint(p) ==
  /\ wal[p] # {}
  /\ Copying(p) => CheckpointDuringCopy
  /\ main' = [main EXCEPT ![p] = usage[p]]
  /\ wal'  = [wal EXCEPT ![p] = {}]
  /\ UNCHANGED <<discovered, usage, spent, guidb, poller>>

-----------------------------------------------------------------------------
(* The poller: one thread, one cycle at a time, one profile after another. *)

StartCycle ==
  /\ stage = "idle"
  /\ stage' = "next"
  /\ todo'  = discovered
  /\ UNCHANGED <<hermes, guidb, cur, copy>>

CopyMain(p) ==
  /\ stage = "next"
  /\ p \in todo
  /\ stage' = "copied"
  /\ cur'   = p
  /\ copy'  = main[p]
  /\ UNCHANGED <<hermes, guidb, todo>>

\* The copy is private from here on, so the query that follows adds no step.
CopyWal(p) ==
  /\ Copying(p)
  /\ stage' = "read"
  /\ copy'  = Overlay(copy, wal[p], usage[p])
  /\ UNCHANGED <<hermes, guidb, todo, cur>>

\* HermesDataUnavailable (file gone, torn copy), or gui.db locked: run_once
\* reports "skipped", nothing of the tick is committed, run_all goes on.
Skip(p) ==
  /\ stage \in {"copied", "read"}
  /\ cur = p
  /\ stage' = "next"
  /\ todo'  = todo \ {p}
  /\ copy'  = Empty
  /\ UNCHANGED <<hermes, guidb, cur>>

\* apply_tick: read the marks, insert the deltas, upsert the watermark, commit
ApplyTick(p) ==
  /\ stage = "read"
  /\ cur = p
  /\ ledger' = [ledger EXCEPT ![p] = [k \in Keys |->
        IF Seeding(p) THEN @[k] ELSE @[k] + Growth(copy[k], watermark[p][k])]]
  /\ watermark' = [watermark EXCEPT ![p] = Upsert(copy, @)]
  /\ prior' = IF watermark[p] = Empty
                THEN [prior EXCEPT ![p] = [k \in Keys |-> Counter(copy[k])]]
                ELSE prior
  /\ stage' = "next"
  /\ todo'  = todo \ {p}
  /\ copy'  = Empty
  /\ UNCHANGED <<hermes, cur>>

EndCycle ==
  /\ stage = "next"
  /\ todo = {}
  /\ stage' = "idle"
  /\ UNCHANGED <<hermes, guidb, todo, cur, copy>>

\* The container dies and is restarted: the open transaction is rolled back,
\* the copy is lost, and the lifespan handler starts the poller again.
Crash ==
  /\ stage # "idle"
  /\ stage' = "idle"
  /\ todo'  = {}
  /\ copy'  = Empty
  /\ UNCHANGED <<hermes, guidb, cur>>

HermesStep(p) ==
  \/ ProfileCreated(p)
  \/ Checkpoint(p)
  \/ \E k \in Keys : Spend(p, k) \/ Reset(p, k) \/ Prune(p, k)

PollerStep(p) == CopyMain(p) \/ CopyWal(p) \/ Skip(p) \/ ApplyTick(p)

Next ==
  \/ \E p \in Profiles : HermesStep(p) \/ PollerStep(p)
  \/ StartCycle
  \/ EndCycle
  \/ Crash

Spec == Init /\ [][Next]_vars

-----------------------------------------------------------------------------
TypeOK ==
  /\ discovered \in SUBSET Profiles
  /\ main      \in [Profiles -> Table]
  /\ wal       \in [Profiles -> SUBSET Keys]
  /\ usage     \in [Profiles -> Table]
  /\ watermark \in [Profiles -> Table]
  /\ ledger    \in [Profiles -> [Keys -> Nat]]
  /\ spent     \in [Profiles -> [Keys -> Nat]]
  /\ prior     \in [Profiles -> [Keys -> Nat]]
  /\ stage \in {"idle", "next", "copied", "read"}
  /\ todo  \in SUBSET Profiles
  /\ cur   \in Profiles
  /\ copy  \in Table

\* What the ledger shows for a key never exceeds what the key spent after the
\* profile's first marks were taken, whatever resets, prunes, checkpoints,
\* failed copies and restarts came in between: nothing is counted twice and
\* the history found by the first tick is not billed as new.
NeverOverRecords ==
  \A p \in Profiles, k \in Keys : ledger[p][k] + prior[p][k] <= spent[p][k]

\* The other half of a true series: nothing the watermark has moved past is
\* missing from the ledger, although ticks are skipped and transactions rolled
\* back at any point.
NothingMarkedIsLost ==
  \A p \in Profiles, k \in Keys :
    Counter(watermark[p][k]) - prior[p][k] <= ledger[p][k]

\* Recorded spend is never taken back: usage_ledger rows are only appended, and
\* a counter that went backwards is clamped, not booked as negative spend.
LedgerOnlyGrows ==
  [][\A p \in Profiles, k \in Keys : ledger'[p][k] >= ledger[p][k]]_vars

\* Spend of a session that Hermes neither resets nor prunes reaches the ledger
\* sooner or later, whatever is skipped or crashes on the way (checked with
\* AllowResets = FALSE, under the fairness of GuiServer).
SpendIsRecorded ==
  \A p \in Profiles, k \in Keys : \A s \in 1..MaxSpend :
    (spent[p][k] = s) ~> (ledger[p][k] + prior[p][k] >= s)

=============================================================================
