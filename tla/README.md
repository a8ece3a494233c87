# HermesPlusOpenbrain: a TLA+ model of the system

The repository puts a memory ("OpenBrain") and a cost page next to a set of Hermes agents. This
directory holds TLA+ modules translated from its code, TLC configurations that check them on small
instances, and TLAPS proofs of the properties that matter most for every instance.

Paths below are relative to `src/`; `backend/` is `openbrain-gui/backend/app/`, `frontend/` is
`openbrain-gui/frontend/src/`, `mcp/` is `openbrain-mcp/app/`.

Run a check with `tlc -workers 2 -config X.cfg M` and a proof with `tlapm M.tla`; `PROJECT.json`
lists the runs, and for every definition the lines of code it stands for.

## 1. The system

| Part | State it keeps | Operations | Talks to |
|---|---|---|---|
| **openbrain-mcp store** (`mcp/store.py`, `server.py`, `migrations/`) | PostgreSQL table `captures`, unique on `fingerprint` | `save`, `delete`, `update`; reads `search`, `list_recent`, `list_keywords`, `stats`, `cluster_captures`, ... | called by assistants and by the GUI's backend |
| **content fingerprint** (`mcp/fingerprint.py`) | none | URL or text to dedup key | called by `save` |
| **OAuth shim** (`mcp/oauth.py`) | `_clients`, `_auth_codes` in memory | `register`, `authorize`, `token` | claude.ai |
| **gui.db** (`backend/db.py`) | SQLite: ledger, watermarks, costs, rate, reports, delete log, prompts | `init_db` / `_migrate` at every start | all backend stores |
| **usage ledger** (`backend/ledger_store.py`, `hermes_usage.snapshot`, `main.py`) | `usage_watermark`, `usage_ledger` | one poll cycle every five minutes; `timeseries` reads it back by day | copies each bot's `state.db` while Hermes writes it |
| **usage aggregation** (`backend/hermes_usage.py`, `cost_merge.py`) | none | per-bot figures, merged over bots | reads a copy of each `state.db` |
| **cost summary** (`backend/routes.get_cost_summary`, `frontend/CostSummary.jsx`) | none | the header tiles: one answer from up to six reads | aggregation, external costs, rate |
| **external costs and rate** (`backend/external_costs_store.py`, `fx.py`, `frontend/ExternalCostGrid.jsx`) | `external_costs`, `fx_rate`; the grid of each window | load, save grid, delete, set / refresh rate | browser windows, frankfurter.app |
| **deletion audit** (`backend/routes.py`, `delete_log_store.py`) | `delete_log` | log, then delete | openbrain-mcp |
| **keyword graph** (`backend/graph.py`, `routes.get_graph`, `frontend/KeywordGraph.jsx`) | the graph and filter on screen | load, choose k, toggle | two tool calls of openbrain-mcp |
| **search page** (`frontend/App.jsx`) | rows, token, selection, popup | search, browse, similar, delete, change | backend |
| **cost page** (`frontend/CostView.jsx`, `cost_reports_store.py`) | selection, panels, report, drill-down; `cost_reports` | select, load, save / load report | backend |
| **Buzz supervisor** (`scripts/buzz-agent-supervise.sh`, `buzz-agents-watchdog.sh`) | a pid file per agent, a lock file, the processes | sweep: check, fork, record | cron, the kernel |
| saved prompts, bearer middleware, stripe-mcp, compose files, wrapper and backup scripts, gateway watchdog | little or none | | |

What is hard in it:

- *Interleaving.* Concurrent `save` calls meet at a unique index; two windows save whole grids;
  the graph joins two tool calls that see different stores; supervisors overlap.
- *Copies of live files.* The poller copies a WAL-mode database in two steps under its writer.
- *Crashes.* Migrations, poll cycles and supervisors die anywhere and are started again.
- *Asynchronous pages.* Answers arrive in any order, or are lost after the call was executed.
- *Answers put together.* A total is made of reads of several databases, none of which stands still, and some of which fail;
  panels of all bots are made of panels that were averaged or cut per bot.
- *Reuse.* Pids come back, codes are presented twice, sessions are reset and pruned.

What makes each part correct is stated as the properties of section 3; `PROJECT.json` lists the
hazards line by line, with the properties that watch each and a note where none does.

## 2. The modules

| Module | Models | Composition |
|---|---|---|
| `UsageLedger` | poll cycle, two-step copy, Hermes as environment | |
| `UsageLedgerProofs` | theorems on it | extends `UsageLedger` |
| `CaptureSet` | what `save`, `delete`, `update` promise, each one step | abstract specification |
| `CaptureStore` | the same, statement by statement under READ COMMITTED | implements `CaptureSet` |
| `CaptureStoreProofs` | theorems on it, the refinement among them | extends `CaptureStore` |
| `CaptureAudit` | the delete route and the log | composed with `CaptureSet` |
| `GuiDbMigration` | `init_db` as single statements with crashes | |
| `GuiServer` | starts and poll cycles of one server process after another | extends `GuiDbMigration`; instance of `UsageLedger`, whose marks are the table the migration left |
| `GuiDbMigrationProofs` | theorems on both | extends `GuiServer` |
| `OAuthState` | the tables of the OAuth shim and what is promised of them | |
| `OAuthShim` | its handlers, time, restarts | extends `OAuthState` |
| `ExternalCosts` | table, rate, and the grids of several windows | |
| `ExternalCostsProofs` | theorems on it | extends `ExternalCosts` |
| `SearchView` | the result grid with requests, deletions, edits under way | |
| `CostView` | selection, loads, reports, drill-down | |
| `BuzzSupervisor` | supervisors, children, kernel, operator | |
| `BuzzSupervisorProofs` | theorems on it | extends `BuzzSupervisor` |
| `ContentFingerprint` | `_normalize_url` over structured links | |
| `KeywordGraph` | the route, its two calls, and the page | |
| `Pooling` | weighted means, and lists that are sorted and cut | extended by the next two |
| `CostMerge` | aggregation and merge of the panels with money, and the per-bot breakdown | |
| `BotPanels` | prompt sizes and tool counts, per bot and merged | |
| `CostSummary` | `GET /cost/summary`, read by read, and the mark on the total | |
| `UsageChart` | `timeseries` over what the ticks stamped, and the bars of the chart | |
| `Ordering` | rows in the order of a key, and the first n of them | extended by `CaptureQuery` and `ContentFingerprint` |
| `CaptureQuery` | filters, ranking, limits, keywords | |
| `GuiPages` | the pages of one browser, each on its own | instances of `SearchView`, `CostView`, `ExternalCosts` |
| `GuiPagesProofs` | theorems on `SearchView`, `CostView` and, in the composition, the cost grid | extends `GuiPages`, instance of `ExternalCostsProofs` |
| `CaptureServices` | what is done with captures around the store | extends `OAuthState` and `CaptureAudit`; instances of `OAuthShim`, `CaptureQuery`, `ContentFingerprint`, `KeywordGraph` |
| `CaptureServicesProofs` | theorems on the shim, the audit trail, the keyword graph, the answers and the fingerprints | extends `CaptureServices` |
| `CostFigures` | every figure of the cost page | instances of `CostMerge`, `BotPanels`, `CostSummary`, `UsageChart` |
| `CostFiguresProofs` | theorems on the header tiles, the chart and the merged panels | extends `CostFigures` |

Conventions. Each definition's comment or its row in `PROJECT.json` names the code. Variables
marked *history* exist for a property only. Operators introduced by "mutated form" are plausible
bugs of the definition that follows them; no specification uses them. They show that a property can fail:
with the mutated form in its place, TLC finds the property violated. A module with state of some size has a
`TypeOK`, which documents its variables and was checked on the instances below while the module was written. It is no property of a run:
where a proof rests on it, it is a theorem (`UsageLedger`, `CaptureStore`, `BuzzSupervisor`, `ExternalCosts`) or a conjunct of the inductive
invariant (`GuiDbMigration`, `SearchView`), and the runs are left to what could go wrong.

`GuiPages`, `CaptureServices` and `CostFigures` put together modules that share no state: the first state chooses the one that moves, so
the states of the run are the sum of theirs and not the product. The pages meet in the browser only in that `App.jsx`
shows one at a time and mounts the cost page afresh. What the other two join meets in a store that each part models as far as it reads it:
`CaptureAudit` over `CaptureSet`, the rest over inputs that change freely.

How state and actions correspond to the code, where it is not obvious:

- **UsageLedger.** One counter stands for the seven of `_COUNTERS`: the code treats them alike, and
  whether *any* grew only decides if a row is written. `main` and `wal` are the two files, `usage`
  what Hermes sees through both; a copy is `Overlay(main at CopyMain, wal at CopyWal)`. The ledger is
  summed per key, since no property depends on when a row was observed. `ApplyTick` is the whole
  transaction of `apply_tick`; `Skip` is every caught exception of `run_once`; `Crash` loses the
  cycle. `spent` and `prior` are history.
- **CaptureStore.** `pc` is the statement a `save` has reached; `drawn` and `row` are ids handed out
  and rows inserted but not committed; `Blocked` is the wait of `ON CONFLICT` for the transaction that holds
  the fingerprint. Deletes and updates are one statement and commit at once. Whether calls of one process
  overlap depends on how the tool functions are run (synchronous tools run inline in one event loop); the
  code itself provides for the race (`store.py:45`), several clients may run several servers on one
  database, and so the model lets them overlap.
- **GuiDbMigration.** `db` is what is committed, `tx` what the open transaction sees. Each statement of
  the script is an action; `Refused` is a statement that breaks a constraint and ends the start. `Tick` is what a poll cycle may do to the
  marks: set those of one bot's keys to any counters, lower ones included, since `apply_tick` upserts what it has read.
- **GuiServer.** `Start` is the start of the process, `ApplyTick` one transaction seen from both sides: `Tick` on gui.db and `UsageLedger`'s
  on ledger and marks. `Die` rolls the open transaction back and loses the cycle.
- **ExternalCosts.** Every call of the page is three steps: sent (with the grid of that moment),
  executed, answered. `CallFails` is an answer that says so, or that never comes, on either side of execution.
  The rate box works while another call of the window is under way; the reload that follows the rate is then that of the other call, and
  that the end of one call re-enables the buttons while the other is out is left out.
- **SearchView.** A request matches all captures; what it brings is the backend's contents at the
  moment it is executed. The browser runs one handler at a time, so each handler between two `await`s is
  one action. `told` and `toldAt` are history.
- **CostView.** What a load brings is represented by the selection it was made for. Loads overlap and are answered in any order, since
  nothing stops a user from selecting while one is under way. `answered` and `misled` are history: the load that was answered last, and whether
  the user saved, or clicked a row of, panels that an older load than the latest had left.
- **BuzzSupervisor.** A child is `forked` (shares fd 9), `closed` (after `exec 9>&-`), `agent` (after
  `exec`, when its environment names it). The lock is the set of processes that hold the open file.
- **CostMerge.** Costs and counts are small numbers; averages are kept as pairs (sum, weight) so that
  no fraction is needed. A usage row is opened without calls and may stay idle.
- **BotPanels.** A tool list is any list `ORDER BY calls DESC LIMIT` may return, ties in any order; a property holds of all of them.
- **CostSummary.** The handler is synchronous and runs in a worker thread, beside the poller, Hermes and other requests, so every read of
  a database is a step: one per bot in a summary (each bot's `state.db` is copied on its own and may be torn), the rate, the rows, the flagged row. `past` is
  history, the moments the request has lived through; a figure is right if it was so at one of them, each bot's at one of its own. Amounts
  are chosen so that no division leaves a rest. Unpriced use is counted by the row, as `_unpriced` does: a priced call on a row takes the calls the row had
  out of the figure.
- **UsageChart.** Time passes in half days: a window then begins in the middle of a day or at its start. A tick stamps its rows with one
  time; how a tick can fail is `UsageLedger`'s subject. `observed` is history: what the ticks had found by each time.
- **CaptureQuery.** Ids stand in the order of their distance to the query. `Sorted` is the answer when PostgreSQL
  sorts the rows that match, `Indexed` the answer by way of the HNSW index, which looks at `EfSearch` candidates
  before it filters.

## 3. What the runs check

| Run | Instance | Shows |
|---|---|---|
| `LedgerOneProfile` | 1 bot, 2 keys, spend 2, resets, prunes, crashes | `NeverOverRecords`, `NothingMarkedIsLost`, `LedgerOnlyGrows` |
| `LedgerCheckpointRace` | a checkpoint between the two copies | `NeverOverRecords` **fails** (divergence 1) |
| `CaptureStore` | 2 savers, 3 ids, 1 link, fair | unique fingerprints, current embeddings, refinement of `CaptureSet` (and with it: an edit keeps what identifies a capture and only adds metadata keys); every save returns |
| `GuiServer` | 2 bots, 1 key, 2 crashes, no resets, no checkpoint during a copy, fair | comes up, on the final schema, with all marks where the poller left them; bots are seeded separately, nothing is booked twice and `SpendIsRecorded`, across upgrades and restarts |
| `ExternalCosts` | 2 windows, 2 rows, no amounts | at most one flag; rows go only by a delete and stay away |
| `BuzzSupervisor` | 2 agents, 4 pids, 2 supervisors, 1 fault, fair | one sweep at a time; pid files find their agents; agents come back |
| `GuiPages` | grid: 1 capture, 1 edit, 3 requests; cost page: 2 ranges, 2 bots, 3 loads in any order; costs: 1 window, 2 rows, invalid entries | latest wins, honest spinner, results never undo what the user was told; panels are those of the latest load once it is answered last, reports and drill-down of what they are named after; batches are all or nothing |
| `CaptureServices` | access: 3 client ids against a cap of 2, 2 codes, TTL 1 of 2 ticks; answers: 2 captures, 2 words; links: 2 pages, 3 parameters; graph: 3 captures of which 2 are listed, 1 keyword, 1 change; deletions: 2 requests, 2 captures, 1 other client | a code is granted once, to whom it was issued, in time; no under-return, lists are exact; a fingerprint is its content where no slash interferes; the graph adds up; no silent deletion, an orphan row needs a failure, nothing is deleted twice |
| `CostFigures` | panels: 2 bots, 3 usage rows, 3 tools, lists of 1 and 2; tiles: 2 bots, 4 rows, 1 change during the request; chart: 2 bots, 3 calls, 2.5 days | merged sums are the pool's, idle rows included, gaps are named, the top is the top, missed tool calls are bounded; the total is fleet-wide, an unmarked total is whole, the invoice meets 30 days; the bars are the spending |
| `CostViewStale` | the cost page of `GuiPages` | `PanelsFollowSelection` **fails** (divergence 2) |
| `CostSummaryUnmarked` | the instance of `CostFigures` | `UnmarkedIsWholeForEveryBot` **fails** (divergence 3) |
| `FingerprintTracked` | 1 page, 1 tracking parameter | `SharedLinkDedupes` **fails** (divergence 9) |

### Known divergences

Four disagreements between the code and what the repository says of it are kept as runs, and quoted under
"findings" in `PROJECT.json`; the first three here and number 9:

1. A checkpoint between copying `state.db` and its WAL gives a readable old copy; marks go back and
   spend is booked twice (`hermes_usage.py:49`). Run `LedgerCheckpointRace`.
2. The cost page shows panels of a selection that is no longer in force (`CostView.jsx:68`). Run `CostViewStale`. The
   same race lets a report be saved under the name of one selection with the panels of another (`:121`) and a
   drill-down ask the wrong bot (`:98`). `ReportMatchesName` and `SessionIsOfItsBot` therefore except a user who saved such panels, or clicked
   a row of them (`misled`), and nothing else: without that hypothesis TLC finds both violated. `PanelsFollowLatestLoad`
   is what the page does keep for every order of answers.
3. The mark on the fleet-wide total looks at the unpriced calls of the selected bot only (`CostSummary.jsx:16`). Run
   `CostSummaryUnmarked`; on the page of all bots `UnmarkedIsWhole` holds.

Others were met on the way. The modules contain the behaviour, or a named bound leaves it out, and but for number 9 no run is spent on it:

4. A first tick over an empty `state.db` leaves no marks, so the second tick seeds again and a session that
   began in between counts as prior (`ledger_store.py:45`). `UsageLedger` does what the code does, and
   `NothingMarkedIsLost` and `NeverOverRecords` speak of spend since the seed.
5. The loser of an insert race whose winner is deleted before the reselect subscripts `None` (`store.py:49`);
   the refinement maps that to a failed call.
6. Tabbing through a money box rewrites the entered amount or erases it (`ExternalCostGrid.jsx:38`; `PassThrough`).
7. A search that was executed before a deletion brings the row back to the grid (`App.jsx:217`); hence
   `ResultsFollowTheUser` speaks of requests sent after the user was told.
8. A name listed twice in `enabled` runs twice (`buzz-agent-supervise.sh:53`); left out by `MaxLines = 1`.
9. A path that ends in a slash keeps it when a query follows, and a value that ends in one loses it only at the end of the link, so a tracking
   token after `.../` changes the fingerprint (`fingerprint.py:16`). Run `FingerprintTracked`; `FingerprintIsTheLink` promises what is left: two links
   with the same content and no slash before or inside their query have one fingerprint, and two links with one fingerprint are
   written alike but for a slash at the very end.
10. Any clustering error is reported as "need at least 4, you have n", for any n (`routes.py:214`; the result `few`).
11. Filtered searches may miss matches when the planner takes the HNSW index (`store.py:95`); `NeverUnderReturns` claims
   completeness of the index only while there are at most `EfSearch` captures.
12. With a range other than 30 days the invoice is compared with a 30-day figure whose unreadable bots are not reported
    (`routes.py:384`; `skipped_profiles` is the fleet's of the other range). `ComparisonIsOfTheMonth` then only asks for the sum of some bots.
13. The chart of the cost page has no guard against an older answer that arrives later (`CostView.jsx:82`), the race of divergence 2.
14. The merged tool list misses a tool that is below every bot's own list (`cost_merge.py:191`, which says so); `PanelsAreThePool` bounds by how much.
15. `/register` refuses everyone once its table is full, until the process is restarted (`oauth.py:75`).
16. A platform on which a bot has only idle usage rows is dropped from that bot's efficiency panel (`HAVING api_calls > 0`, `hermes_usage.py:269`), but not
    from the panel of a database that also holds the rows of a busier bot. In "all", calls and cost of a platform are therefore those of the pool, its
    sessions and averages those of the bots that made a call there; `AllIsThePool` says exactly that.

### Bounds, and why they suffice

- `UsageLedger`: two spends let a counter grow before and after a seed, a reset, a stale copy; a
  third adds nothing new because an increment depends only on the last mark and the current
  counter. Two bots, in `GuiServer`, suffice for isolation: a tick reads and writes one bot's rows only. (The proofs
  need no bound.)
- `CaptureStore`: two savers and a deleter reach every order of look-up, insert, commit and reselect; three ids let
  a link be stored, deleted and stored again.
- `GuiServer`: two crashes, so that one may cut the rebuild and the next the start that repairs it; the run
  starts from every old database, orphan tables and NULL counters included, with Hermes at the marks found there. One key per bot: the
  rebuild copies all rows in one statement, and how the keys of one bot differ is the subject of `LedgerOneProfile`.
- `OAuthShim`: one id more than the cap; a clock that can pass the lifetime of a code before and after it is presented.
- `SearchView`: three requests make an old, a superseded and a latest one; with one capture, an edit and a
  deletion race each other and the requests. `CostView`: three loads give a stale, a failed and a current answer, in any order.
- `BuzzSupervisor`: four pids hold two agents, a stale child and a stranger; one fault is a death, a
  kill or a restart at any moment, and leaves its stale pid file to every sweep after it. `MaxLines = 1`: divergence 8 is the other case.
  `PromptExec` assumes that a child has exec'ed before the *next sweep* (15 s or a minute later).
- `ExternalCosts`: amounts, rates and errors are left out of the two-window run, and the second window out of `GuiPages`, since
  `AtMostOneFlag` and `RowsGoOnlyByDelete` do not read amounts and a batch is validated by one call.
- `ContentFingerprint`: two ordinary parameters and a tracking one show any reordering, repetition and removal
  over two positions.
- `KeywordGraph`: with a minimum of two captures, three captures can be too few, enough, and change between the calls, and one can be beyond the two that are listed.
- `CostMerge`: three usage rows make ties, empty and idle groups and unequal weights. `CaptureQuery`: two captures of two words in either case make
  filters that match none, one or both, limits below and above the result, and an index that sees only one of the two.
- `BotPanels`: three tools against lists of two make a tool that one bot's list leaves out and the other's does not, and one that both leave out; two prompt
  lengths, four apart from one, tell a mean of means from the pooled mean.
- `CostSummary`: two bots are the selected one and another; one change per request falls between any two of its reads, and the four rows have every period,
  both currencies and two claims on the flag. More changes add more moments to `past` and no new kind of step.
- `UsageChart`: two days and a half hold a whole day, one that the window cuts, and today; three calls make a bot seeded late, one that spends twice between ticks and one in two groups.
- Symmetry is used in `CostFigures` only, for the bots, sessions and models of the panels and the chart: the properties there are invariants, and no `CHOOSE` picks
  among the permuted values. The header tiles number their bots instead, because the handler reads them in an order.
- Deadlock checking is off in `GuiPages`, `CaptureServices`, `CostFigures` and `CostSummaryUnmarked`: a user may stop, a request ends, and calls and clocks are bounded.

### Fairness, and why the code justifies it

- `GuiServer.Fairness`: the container is restarted whenever it is down (compose restart policy) and runs its next statement; `_poll_forever` loops without
  end and `run_all` visits every bot, hence weak fairness of starts and cycles. Copying and ticking are strongly fair, since a skip or a crash may disable them
  again and again but not for ever.
- `CaptureStore.FairSpec`: a running call takes its next statement; PostgreSQL grants a wait when the holder ends (strong
  fairness of `Insert`, which the holder may disable repeatedly).
- `BuzzSupervisor.Fairness`: cron starts the script every minute; a process that can run does.

The safety properties assume no fairness.

## 4. What is proved

TLAPS checks, for all values of the constants that satisfy the named assumptions:

| Theorem | Statement |
|---|---|
| `UsageLedgerProofs!TypeCorrect` | `Spec => []TypeOK` |
| `UsageLedgerProofs!NoOverRecording` | `~CheckpointDuringCopy` implies `Spec => []NeverOverRecords` |
| `UsageLedgerProofs!NothingLost` | `Spec => []NothingMarkedIsLost`, with checkpoints anywhere |
| `UsageLedgerProofs!LedgerMonotone` | `Spec => LedgerOnlyGrows` |
| `CaptureStoreProofs!TypeCorrect` | `Spec => []TypeOK` |
| `CaptureStoreProofs!FingerprintsUnique` | `Spec => []UniqueFingerprint` |
| `CaptureStoreProofs!EmbeddingsCurrent` | `Spec => []EmbeddingIsCurrent` |
| `CaptureStoreProofs!StoreImplementsSet` | `Spec => CaptureSet!Spec` under the mapping of `CaptureStore!Abstract` |
| `CaptureServicesProofs!SingleUse` | `Access!Spec => []CodesAreSingleUse` |
| `CaptureServicesProofs!Bound` | `Access!Spec => []GrantsAreBound` |
| `CaptureServicesProofs!NothingSilent` | `Spec => []NoSilentDeletion`, `Spec` being `CaptureAudit`'s |
| `CaptureServicesProofs!OrphansExplained` | `Spec => []OrphanNeedsFailure` |
| `CaptureServicesProofs!RemovedOnce` | `Spec => []DeletedOnce` |
| `CaptureServicesProofs!GraphsOnDisplayAddUp` | `ServicesSpec => []GraphAddsUp` |
| `CaptureServicesProofs!SearchesFindAll` | `ServicesSpec => []NeverUnderReturns` |
| `CaptureServicesProofs!AnswersExact` | `ServicesSpec => []ListsAreExact` |
| `CaptureServicesProofs!FingerprintsTell` | `ServicesSpec => []FingerprintIsTheLink` |
| `BuzzSupervisorProofs!TypeCorrect` | `Spec => []TypeOK` |
| `BuzzSupervisorProofs!SweepsExclude` | `Spec => []OneSweep` |
| `BuzzSupervisorProofs!PidFilesLead` | `OncePerSweep` implies `Spec => []PidFileFindsAgent` |
| `GuiDbMigrationProofs!ServerIsAStart` | `ServerSpec => Spec`, `Spec` being `GuiDbMigration`'s |
| `GuiDbMigrationProofs!UpIsFinal` | `ServerSpec => []UpMeansFinalSchema` |
| `GuiDbMigrationProofs!MarksSurvive` | `ServerSpec => MarksAreKept` |
| `GuiPagesProofs!SpinnerHonest` | `Spec => []SpinnerIsHonest` |
| `GuiPagesProofs!GridFollowsUser` | `Spec => []ResultsFollowTheUser` |
| `GuiPagesProofs!LatestCommits` | `Spec => LatestWins` |
| `GuiPagesProofs!PanelsFollow` | `Spec => []PanelsFollowLatestLoad` |
| `GuiPagesProofs!ReportsAreNamed` | `Spec => []ReportMatchesName` |
| `GuiPagesProofs!SessionsAskTheirBot` | `Spec => []SessionIsOfItsBot` |
| `GuiPagesProofs!BatchesAreWhole` | `Spec => BatchIsWhole` |
| `ExternalCostsProofs!TypeCorrect` | `Spec => []TypeOK` |
| `ExternalCostsProofs!FlagIsUnique` | `Spec => []AtMostOneFlag` |
| `ExternalCostsProofs!SavesOnlyUpsert` | `Spec => RowsGoOnlyByDelete` |
| `CostFiguresProofs!TotalOfTheFleet` | `Spec => []TotalIsFleetWide` |
| `CostFiguresProofs!UnmarkedMeansWhole` | `Spec => []UnmarkedIsWhole` |
| `CostFiguresProofs!InvoiceAgainstAMonth` | `Spec => []ComparisonIsOfTheMonth` |
| `CostFiguresProofs!BarsAreTheSpend` | `Spec => []ChartIsTheSpend` |
| `CostFiguresProofs!AllIsOnePool` | `Spec => []AllIsThePool` |
| `CostFiguresProofs!DearestOfTheFleet` | `Spec => []TopSessionsAreTheTop` |
| `CostFiguresProofs!PanelsAreOnePool` | `Spec => []PanelsAreThePool` |

The assumptions are the modules' named ones (TLC evaluates each in the run of the module that states it), and in three places a hypothesis
of the theorem itself:

- `None \notin Access!Entry` for the shim and `NoCall \notin BOOLEAN` for the audit trail: the marker for "nothing" is not a value.
- `~CheckpointDuringCopy` for `NoOverRecording`. Without it the statement is false (divergence 1).
- `OncePerSweep == MaxLines = 1 /\ PromptExec` for `PidFilesLead`: no name is listed twice (divergence 8), and a child has exec'ed before the
  next sweep. Until then it does not carry the agent's name, so a second sweep could not tell it from a dead one.

Where the code relies on finiteness, so do the proofs: finitely many captures (`IdsAssumption`; `NumbersAssumption` of `CaptureQuery`), bots (`BotsAssumption`) and
models (`GroupsAssumption`), and of the merged panels bots, sessions, models and tools (`FleetAssumption`, `PanelsAssumption`). The last two also say that the marker `None` is
not an average, and that limits are positive.

*No over-recording.* `NeverOverRecords` is not inductive: it says nothing of growth that is still to be
recorded. The invariant `IInv` charges for it in advance: what is recorded, plus what is prior, plus the growth from
the mark to the live counter never exceeds what was spent (`Accounts`), and while a copy is being ticked, the same along the path
mark, copy, live counter (`InFlight`). `GrowthTriangle`, that growth over a detour is at least the direct growth, carries the
step that replaces the mark by the copy. `FilesAgree` and `CopyAgrees` say that the two files, and a half-made copy with the
WAL still to come, show what Hermes sees or saw; the second is where a checkpoint between the copies breaks the argument, and the
assumption is needed exactly there (the run `LedgerCheckpointRace` is the counterexample without it). `Fresh` says that a bot without
marks has recorded nothing, which makes seeding harmless.

*Unique fingerprints and the refinement.* `UniqueFingerprint` is not inductive either: two uncommitted rows with one
fingerprint would both commit. `Reserved` says that an uncommitted row excludes every other row, committed or not, with its fingerprint;
`RowsAreDrawn`, `IdsAreOwn` and `IdsAreKeys` that ids are not shared. The refinement maps a save's look-up that finds a row and its
reselect that finds one to `Dedupe`, its commit to `Store`, the TypeError of divergence 5 to a failed call, and every other statement to a
stutter. It uses the invariant for `Store`, whose guard is that no capture has the fingerprint.

*Codes.* `CodeInv` says of each code that the table holds nothing but what was issued and not traded yet, so the pop that precedes every check is what makes
the second presentation fail; `AccessInv` adds that only allow-listed callbacks are registered. `GrantsAreBound` is inductive with it, because a code that
was issued is not issued again.

*The audit trail.* `RequestInv` orders the two stores: a request is logged before its call goes out, and a capture the tool has answered for is gone
and, since uuids do not come back, stays gone. Whatever other clients do is one action, `OtherClient`, of which only that is used; the theorems hold over `CaptureSet` and so,
by the refinement, over `CaptureStore`. `RowInv` ties every row of the log to the request that wrote it.

*The keyword graph.* The counts on display are sums over clusters of a reply and must equal the size of one set of captures. `TotalIsSize` shows it for any
labelling of a finite set: counting what has a label, label by label, counts everything that has one; the clusters of a reply are such labels, because a
capture is in one cluster. `GraphsAddUp` shows that a graph built from *any* listed captures and any clusters adds up, those of other captures included, so nothing is asked of the store between
the two calls; `LoadInv` and `GraphInv` carry that through the loads under way to the one on display.

*Supervisors.* The lock is the set of processes that hold the open file, children included; `Exclusive` is the mutual exclusion of the sweeps without counting, which is what a step preserves.
Pid files need more. A child that has not exec'ed yet is invisible to `is_running`, so while a sweep goes on the line of its name must have been read already (`Swept`): that is where
`OncePerSweep` is used. `Recording` says that between fork and pid file the new child is the only process of its name that a pid file could lead to.

*Migration.* `Sound` lists the database states that may be committed at all, `Progress` what is known at each statement outside a transaction, and
`InTransaction` what the open transaction sees at each statement of the rebuild while `db` keeps the old table. A crash drops `tx`, and `Sound` alone is enough to
start again from; the rows copied are the old marks and, once the table is renamed, the new ones (`NewRows`).

*The result grid.* What the user was told must never be undone by what is on its way. `Ahead` says that the backend is never behind what the user was told, and an answer or
the rows on screen never behind what the user had been told when their request was sent; `DeletionDone` and `EditDone` say of a deletion or an edit that was executed and not yet reported that it is in effect, and the newest.

*The cost page.* `PanelsFollowLatestLoad` is inductive with what is known of loads under way (`Loading`): the one that was started last is for the selection, because
every change of the selection starts one, and it has not been answered. No order of answers is assumed. What is saved, fetched or looked at is what its name says (`Named`) as long as
the user was not misled, since saving and clicking then happen while the latest answer is that of the latest load.

*The cost grid.* `save_rows` is a loop, and what it does to a table is shown by induction over its turns (`Turn`, `Done`): ids that are found are kept, a flag clears all others,
new rows get ids never given out. `TableSound` is kept by that; `ScreensSound` says that the ids in any window, in flight or on screen, are never ahead of those given out, which is why a row that
was deleted elsewhere cannot come back under an id of another. `BatchIsWhole` is proved there, and carried to `GuiPages` through the instance of `ExternalCostsProofs`.

*The header tiles.* `SummaryInv` says of every figure of the answer when it was true: a summary, finished or half read, is the sum of its bots' figures, each at a moment the
request has lived through (`IsSummary`); so are the rate, the rows and the flagged row, each of its own moment (`GotInv`). A change of the world adds a moment and takes none back (`WorldKeeps`), which is what makes
these statements last. Sums are again counted as sets, of units this time (`SumIsStack`), from which follow the sum of one bot more (`SumOfOneMore`), and that a sum of zero has only zeros in it
(`SumOfZeros`). The latter is why the mark may look at the *sum* of unpriced calls, and `RateMakesNoDifference` why it may look for euro rows instead of at the rate.

*The chart.* `ChartInv` relates what a bot's ticks found to what they booked: at every time, the one is what it was when the bot was seeded plus the units of cost in the rows up to that time. A tick adds a row
per model that has grown, and several ticks of one time add to the same row; `TickBooks` shows that either way exactly the growth is added, and to no earlier time. Grouping then does not matter, because a bar, a group and a bot are just three ways to label
the same units (`BarIs`, `BarsAre`, `FoundInWindow`).

*The merged panels.* `PooledFigures` takes every figure of "all" back to the rows. A figure of a group is a sum over its rows, and so is the same group's figure in the pool; the rows of the pool are labelled by their bot,
so a sum over bots of sums over each bot's rows is the sum over the pool (`SumIsSize` again, on the units of the figures). `HAVING api_calls > 0` leaves out a group of a bot that may well have rows, idle ones. `ZerosLeftOut` shows that a sum does not notice parts that are zero, and `IdleRows`, that a group
without calls has cost nothing; the latter needs the one fact about states, `MergeInv`: a row that has counted no call has no cost. Hence the platforms, calls and cost of the merged panel are those of the pool, while
its sessions and averages (`PooledMean`) are those of the bots that made a call there (`IdleLeftOut`, `EfficiencyOfPool`). That a hidden cost names its bot follows because the sum of zeros is zero
(a difference between the pool and all bots is a row of a bot that could not be read).
A table that was cut per bot and cut again holds the top of the whole (`CutTwice`): a session left out of its bot's table has `Limit` dearer ones above it there, and these are all of the fleet.
Of a tool that a bot's list leaves out nothing is known but that the list is full and its last entry is used as often; `CountedIs` adds that up over the bots, and `MergedListIs` says how far the order of the merged list may be off.

*Answers.* `Ordering` gives every row a place: the number of rows that come no later. `Places` shows that this numbers any finite set of rows from 1 on without gaps or ties,
so the first n are a bijection's image (`OrderedIs`) and a list that is long enough has exactly its rows, one place each (`NothingCut`). The invariant `QueryInv` adds what the store keeps: ids differ,
and no capture has a keyword twice in whatever case, which is what `Normalize` is for (`NormalizeTyped`). Then a keyword's occurrences correspond to the captures that hold it (`OccurrencesAreRows`), a list of
ids is never shorter than the rows it asks for (`RowsOfIds`), and a match left out of a search has a later place, hence is farther, than all that were returned (`NearestAreComplete`). The index answers the same while
the table fits in what it hands out, because then every row is among the nearest.

*Fingerprints.* A link's query is any finite sequence of parameters (`LinkInv`). Sorting keeps each parameter that is not tracking as often as it occurs (`SortedList`), and a list in order is given by how often each parameter is in it
(`CountsGiveList`): at the first place where two such lists differ, one of them goes on with an earlier parameter, or goes on at all, and so holds that parameter once more (`GoesOn`). The order must tell parameters apart for this
(`KeysTellApart`); Python's sort compares whole pairs.

The library's induction theorems take an operator, which the provers cannot instantiate. Where a proof needs induction it is done over a set of numbers or of subsets: the ones for which the
statement fails have a least element (`Least`, from the well-foundedness of `<`), and that one is refuted. The fold of the community modules is unfolded in the same way, through the function its `CHOOSE` picks.

The proofs changed the model in small ways: two `CASE`s whose arms could both apply became `IF`s (`SearchView.ChangeDone`, `ExternalCosts.Shown`), sums have a name (`AddedUp` in `CostSummary`, `UsageChart` and `Pooling`),
and what is filtered, sorted and cut is stated by the place of a row (`Ordering`) instead of `SelectSeq` and `SortSeq`, of which the provers know nothing; that the two agree was checked with TLC on small
sequences. No invariant had to be given up.

Only model-checked:

- Liveness (`SpendIsRecorded`, `SaveReturns`, `ComesUp`, `AgentsComeBack`), which is out of TLAPS's reach.
- The four runs that end in a violation: their counterexamples are what they are for.

## 5. What is not modelled, and why

- *Values without control.* Summaries, embeddings, tokens and their cost as numbers; JSON; formatting; layout and drawing.
- *Environment.* Hermes, SQLite's and PostgreSQL's internals and the MCP transport appear as actions marked external, or as the
  guarantees the code relies on (atomic commit, READ COMMITTED, exclusive `flock`).
- *Whole parts.* Saved prompts, bearer middleware, stripe-mcp, compose files, wrapper, backup, gateway watchdog: no state, or one
  statement on a table of their own. `PROJECT.json` gives the reason for each.
- *Inside modelled parts.* Date filters and time zones, `stats`, near duplicates and `classify_captures`; `session_detail` and `config_snapshot`; `onetime_usd`; the
  keyword panel; installing the wrapper.
- *stripe-mcp.* It keeps no state and every tool is one read of the Stripe API. Read beside the rest, `revenue_analytics` takes the first page of a hundred subscriptions
  and the first item of each, as monthly; that is arithmetic on one answer.

## 6. Plan

Done: the ledger, the capture store with its abstract specification and proofs, a checked module for each component that has state, the server as a composition of its start and its poller, every figure of the
cost page, and a proof of every safety property that a passing run checks.

Next, modelling: the date filters in a zone; the keyword panel and saved prompts; the
end of every search (`SearchView` with fairness).
