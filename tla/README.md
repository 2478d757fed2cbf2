# Verification of codehelion

codehelion finds duplicated code in a source tree, measures what it costs in
the built artifact, and keeps the history of its scans in a local SQLite
database, the *audit database*. Most of its 795 files are sequential and pure.
What is hard to test is of two kinds. One is what happens between processes:
the database as several commands, failures and crashes leave it, the helper
processes and workers the program talks to. The other is the handful of
algorithms whose answer a test cannot easily know: which copies form a group,
what a symbol retains, what an identity may depend on. This project models
both; parsers, readers and renderers it leaves out.

All paths below are under `src/crates/`. `store` is `codehelion-store/src`,
`cli` is `codehelion-cli/src`, `helper` is `codehelion-helper/src`, `core` is
`codehelion-core/src`, `artifact` is `codehelion-artifact/src`.

## 1. Inventory

| component | state | operations | hard because | correct when |
|---|---|---|---|---|
| snapshot store, writers (`store/snapshot/write*`, `store/lifecycle.rs`) | `scan_run`, `suppression`, `fingerprint`; the process-local `LIVE_RUNS`; the tokens a caller holds | stage, record, confirm reuse, discard, finalize, abort, reap, prune | tokens outlive their rows; shared rows have no owner; finalization cleans up after itself and may fail at that too | no shared row lost or orphaned; tokens name their own run; history only refreshed; live partitions never reaped |
| scan driver (`cli/scan.rs`, `cli/scan/structural.rs`, `cli/scan/**/store.rs`) | start time, lease, loop position, staged and reused partitions, a remembered error | start, acquire, record, reuse, finalize, clean up | opens the store again for each call; every call may fail; a reused partition exists twice for a while; killed anywhere | a scan is published whole or not at all; a failed one leaves nothing |
| run queries (`store/query/run.rs`) | none | latest compatible run, latest invocation | defined by start times that reuse rewrites | they return what the newest scan published |
| database lease and cache commands (`cli/scan_lock.rs`, `cli/cache.rs`) | lock sidecar, advisory lock, the four database files | acquire, probe, clear, prune, status | lock on an inode, commands go by a path; files survive their writer | one holder; no work lost to another command; clear leaves a usable place |
| store opening, schema (`store/lib.rs`, `preflight.rs`, `schema.rs`) | files, schema marker | preflight, initialize, validate | crash while initializing; a writer during the private copy | an incompatible database is left untouched |
| lineage (`store/snapshot/groups/lineage.rs`) | lineage rows | match adoptions, compare | many-to-many matches | deterministic, one identity each |
| retention (`store/lifecycle.rs`) | analyses, comparisons, runs | prune | cascades through foreign keys | what is kept stays closed under references |
| artifact persistence, calibration (`cli/artifact*.rs`, `store/artifact.rs`, `store/calibration.rs`) | analyses, estimates, comparisons, measurements | analyze, compare, calibrate, report | an estimate is read long before the measurement is recorded; reports take no lease; pruned by cascade | measurements endure and belong to the newest estimate; a report shows one analysis |
| helper client, supervisor (`helper/client*`) | child process, reader and writer threads, restart count, quarantine | start, send, receive, restart, analyze | deadlines, late answers, crashes, full pipes | an answer belongs to its request; restarts bounded; calls return; nothing is left behind |
| helper server, sandbox (`helper/server.rs`, `sandbox.rs`) | guarded input, process group | serve, watch, end the group | the client disappears at any moment | children never outlive the client |
| artifact worker (`cli/artifact/worker.rs`, `output.rs`) | child, deadline, claimed destination | claim, spawn, wait, kill, write | the worker commits before its command knows | worker ends with its command; output whole or absent; refused before recorded |
| artifact analysis (`artifact/metrics/callgraph.rs`, `identity.rs`) | call graph, dominator tree, colours | walk, dominate, attribute, refine | graphs with missing edges, cycles, copies and equal bytes | dead is dead; retained is what dies; identities do not depend on layout unless marked |
| clone detection (`core/candidate.rs`, `grouping.rs`, `maximal.rs`, `structural/`) | candidates, groups, runs | propose, verify, group, fold, confirm, join, drop | similarity is not transitive; budgets; preprocessor arms; repetition | groups cohere; nothing accepted is lost; what is reported is a copy, once |
| baselines (`cli/baseline*.rs`, `cli/scan/baseline.rs`) | the baseline file | create, update, refresh, scan against | read and rewritten in place, without the lease | hides only what was shown and accepted |
| pure parts: frontends, backends, artifact readers, reporting, history, seam, evaluation tools, configuration | – | – | – | – |

`PROJECT.json` lists every component with its status, and the hazards of this
code at the line where they bite.

How they interact: a scan takes the lease, opens the store once *per call*
(each opening reaps abandoned runs), stages one run per build variant,
discards those an earlier run already answers, and finalizes the others
together with the suppression policy in one transaction. An artifact command
claims its destination and starts a worker, which takes the lease and records.
Readers (`report`, baselines, `cache status`, artifact reports) take no lease;
`cache prune`, `cache clear`, `artifact compare` do.
Every lock is the operating system's, so a killed process gives it back; rows
and files are not given back, and the reaper, `prune` and `clear` deal with
them.

## 2. Modules

**`SnapshotStore`**: the tables and transactions of `store/snapshot/write.rs`
and `store/lifecycle.rs`, one operator per transaction (SQLite makes each one
step) with everything the transaction changes: promotion, refresh of reused
runs, policy, orphan removal, `LIVE_RUNS`. `run` is `scan_run` with the rows a
run owns, `token` the `StagedSnapshotPart` values of the writing process.
`StoreNext` is an *arbitrary* caller: any call, any token, any order, a crash
between any two.

**`ScanInvocation`** EXTENDS `SnapshotStore`: the scan processes, the lease,
`run_with` and `record` step by step, with the failure branch of each call.
`step` is the position in `run_with`, `parts` and `retired` are
`staged_parts` and `retired_parts`, `pending` is the partition between its
staging and its discard, `failed` is `recording_error`. Opening the store is a
step of its own because it reaps. `before` and `cohort` are ghosts and appear
in properties only.

**`AuditHistory`**: the abstract specification. A reader sees completed runs
and the active policy; both change only when a planned scan is published
whole. `ScanInvocation` implements it (`AllOrNothing`) under the mapping
visible = completed runs, policy = active rules, plan = the scan under way.

**`DatabaseLease`**: the commands of the database as processes: lock sidecar
(with inodes), advisory lock, database and sidecar files, the row a scan
stages. Each system call another process can get in between is a step: opening
the sidecar, trying the lock, unlinking each file, the three stages of the
first transaction, the open, read and close of `cache status` and the two of
its probe.

**`StoreOpen`**: `Store::open` and `open_existing` by several processes while
another build writes the same file: each read of the path, each copied member,
each stamp, the connection, the immediate transaction. What the database holds
before anyone comes, what the other build writes, how often, and which faults
it suffers are parameters. SQLite's journal and WAL are external operators
(`RolledBack`, `Latest`, `Checkpointed`), and so is the empty WAL that reading
a database in write-ahead mode leaves beside it, be it the reading in place or
one on the kept connection (`Readings`). `ghost` is what others did since an
opening began and since its connection read; it appears in properties only.

**`LineageHistory`**: `matching_adoptions` and the rows a scan records, over a
history of runs; `run` is what the newest completed run holds of each group.

**`HelperAnswers`**: the abstract promise of the supervisor: every `analyze`
ends, a unit set aside stays so. **`HelperSupervisor`** implements it
(`PromiseKept`): attempts, restarts, quarantine, what is said and when.
**`HelperExchange`** is the exchange below: one client, its writer and reader
threads, two bounded pipes, the bounded channel, the helper, its compilers and
its process id, which the system gives to a stranger once it is reaped.
**`HelperInput`** is the helper's side: the reading thread, the flag, the
serving thread, the group.

**`ArtifactWorker`**: commands and their workers as processes, the destination
as an inode, the lease, the deadline as "may pass at any time".

**`AnalysisLedger`**: analyses, estimates, comparisons, measurements and
abandoned partitions as rows; writers hold the lease, readers go statement by
statement; `prune` is one action with its cascades and its counts.

**`CallGraph`**: a program, extended call by call, together with what a parser
recorded of it, and the verdicts read off one walk. **`DominatorTree`**:
`lengauer_tarjan` turn by turn, with the arrays of the code as functions on
depth-first positions, then retained sizes and toolchain holdings, against
dominance by removal of a vertex. **`SharedDependencies`**: the walk that marks
what two roots reach, one pop at a time, in any order. **`SymbolIdentity`**:
colour refinement by components and rounds, on two builds at once: `Rebuilds`
are the pairs of builds that are compared, the second in another file order,
joined by code that shares nothing with the first, or both.

**`CloneGrouping`**: posting lists, budget, arms, verification, components,
ceilings, complete linkage, medoids, carried-out pairs, nested units, groups
folded into longer ones. A program and the
budgets of its trials are an input (`Inputs`); each trial analyses it once more.
**`SharedRuns`**:
windows, `consolidate` with its Fenwick-tree containment index, confirmation,
joining, folding by content, `drop_subsumed`.

**`BaselineFile`**: the file, the commands that rewrite it in place statement
by statement, the scans that read it, and the scans that move the rows it is
made from.

**Sums.** `MCProcesses` (helper exchange, helper input, supervisor, artifact
commands), `MCSharedFiles` (openings, baselines), `MCArtifactAnalysis` (call
graph, trees, shared dependencies, identities), `MCCloneFindings` (groups, runs)
and `MCRecords` (ledger, lineage) each put several components, with their small
instances, under one next-state relation. The components of a sum share no
state, so a behaviour is *of one subject* (`subject`), the others stay at a
first state, and a property of the sum says the component's property of its
subject. What a component's own specification says is neither added to nor
restricted, but for the bounds named in section 3.

`*_proofs` modules hold the theorems (section 5), the other `MC*` modules the
small instances of `SnapshotStore`, `ScanInvocation` and `DatabaseLease`.

Operators whose comment starts with "Mutant" are wrong versions of the one
that follows; no specification uses them. Putting one in the place of its
original must break the property named in `PROJECT.json`, which shows that the
property depends on that piece of code.

### Abstractions

* A run's rows are what decides them: its build variant, its tree (files,
  detectors, baseline digest), its rules, and the rules its findings
  reference. Two runs with equal values hold equal rows.
* A suppression row is its (scope, pattern); row ids of that table, which may
  be reused after a cleanup, are not told apart.
* The rules of scope `baseline` are `Spellings`: `reuse_config_hash` leaves
  the path out, so two spellings are one configuration.
* The analysis between two store calls is one nondeterministic outcome.
* Comparisons, lineage and disagreeing reasons can only make finalization
  refuse; `FinalizeFail` may be taken at any time.
* `record_snapshot` is `record_snapshot_with_predecessor` without predecessor;
  `record_snapshot_part` and `complete_snapshot_parts` are called by tests
  only and left out.
* In `DatabaseLease` the connections a scan opens one after the other are one,
  and the reaper, modelled in `SnapshotStore`, is left out. SQLite's journal
  and WAL files are external: they appear with a connection's first read and go
  with the last connection, unless the main file was unlinked before. `strays`
  are those made after that. Opening the lock sidecar may fail with an I/O
  error; the command then ends, as in `Crash`. `cache status` stands for every
  reader without the lease.
* `StoreOpen`: a file's content is its schema marker and a generation; a
  rollback restores the same bytes. A WAL is absent, empty or holds a content;
  `-shm` is left out. Which journal mode a database is in is not recorded: a
  reading may make an empty WAL or not. Ceilings on member sizes are left out,
  as are faults of the other build beyond a rollback and a crash.
* `LineageHistory`: a group's fingerprint is its name and does not follow from
  its contents. `adopt_lineage` and `adopt_matching_lineages` have no caller
  but tests and are left out.
* Helper models: a frame is two chunks, a pipe holds one, ids run to a bound.
  A helper that lies does so at most once. `HelperSupervisor` takes an exchange
  as one outcome. A helper that crashes by itself leaves its compilers to the
  system; the code promises nothing about them.
* `ArtifactWorker`: commands without `--output` are left out (they have no
  destination to settle). Two forced commands on one destination may remove
  each other's report by its path; properties speak of one forced command.
* `CallGraph`: a recorded call has a target or a reason why it has none; one
  with both is left out.
* Artifact analysis: a symbol's size is a power of two, so that equal sums mean
  equal sets; saturation of sizes is left out. In `SymbolIdentity` a hash is
  a round and a symbol with that input, the same for all that have it.
* `CloneGrouping`: similarity is a function of two contents (similarities are
  the hashes' doing, and any pair of scores may occur); posting lists are sets
  of contents; there is one conditional. Where units sit is a relation and a
  number of bytes; verbatim and renamed copies are one class, so of the
  strictness of a cover only "near" against "copies" is seen. The widest-first
  order of `contained_groups` is left out: a cover is never covered itself
  (section 5). `CopiesStayTogether` speaks of posting lists that hold all
  copies of a content.
* `SharedRuns`: statements, window lengths, caps and budgets are small; a hash
  is what it is of; a byte is a token; a name is numbered by its first
  occurrence; ties of one fragment in two units go by unit; the union-find is
  merged sets; the coverage index of `drop_subsumed` is a quantifier. Subtree
  seeds and the minimum of tokens are left out.
* `AnalysisLedger`: one completed source run; a row of the history tables per
  partition; savings rows of one build variant; tables with the same parents
  as one already there are left out; the listing of a report is one read per
  group; no run keeps zero analyses.
* `BaselineFile`: scans commit in the order they started (`ScanInvocation`
  shows what happens otherwise); noise and every scope but `baseline` are one
  rule; settings are covered by the config hash; `--no-reuse` is left out and
  recording never fails; a family is a clone group. `asOf`, `shown`,
  `resolved` and `published` are ghosts.

## 3. Runs

| run | question | checked | bounds |
|---|---|---|---|
| `store_any_caller` | can any sequence of calls orphan or lose a shared row, confuse tokens, rewrite history, remove a live partition? | `StoreTypeOK`, `NoOrphanFingerprint`, `NoDanglingRule`, `TokenNamesItsOwnRun`, `CompletedIsHistory`, `LiveRunVanishesOnlyWhenReleased` | 2 run rows, 2 trees, 2 rules (one a baseline), clock 0..1, grace 1 |
| `scan_sequential` | is every driver step a legal call of the store, the newest invocation whole, and does a scan always give the lease back? | `TypeOK`, `LatestInvocationWhole`, `DriverIsACaller`, `LeaseReleased` | 1 process, 4 run rows, clock 0..3, grace 1, three plans |
| `scan_concurrent` | is a scan atomic for readers and traceless on failure, also when scans overlap? | `OwnPartitionsSurvive`, `FailedScanLeavesNoTrace`, `AllOrNothing` | the same with 2 processes |
| `stale_start_time` | *violation*: is the newest invocation whole when starts overlap? | `LatestInvocationWhole` | as above |
| `database_lease` | is the lease exclusive, work safe from other commands, a clear complete, every command finite? | `TypeOK`, `LeaseExclusive`, `StagedWorkSurvives`, `OnlyStraysAreLeft`, `CommandsEnd` | 2 processes, 2 inodes, 2 rows |
| `probe_refuses` | *violation*: is a command refused only when a scan, clear or prune is at work? | `RefusedOnlyWhenInUse` | 2 processes, 1 row |
| `stale_status` | *violation*: are the runs `cache status` calls abandoned really so? | `AbandonedMeansAbandoned` | 2 processes, 1 row |
| `processes` | do answers belong to questions, is input read exactly and only an orphan ended, are restarts bounded and never wasted, do workers end with commands, does every wait end? | `ConversationIsSound`, `InputIsSound`, `SupervisionIsSound`, `PromiseKept`, `CommandsAreSound`, `EveryWaitEnds` | exchange: 1 request after the handshake, pipes and answer channel of 1, 1 lie; input: 6 pieces, so 3 requests; supervisor: 2 units, 2 restarts; artifact: 2 commands, with and without `--force` |
| `shared_files` | is an incompatible or foreign database left alone, what is opened ours, the private copy a state there was; does a baseline hide only what was shown and resolve only what went? | `OpeningsAreSafe`, `BaselineIsHonest`, `IncompatibleIsLeftAlone`, `OpeningsEnd`, `HiddenWasShown` | 2 attempts, anything found and written; 1 opener, which does not die, with a writer that commits once, crashes, and from a rollback on only rolls back, any number of times; 2 openers that crash, nobody else; 1 opener and 2 commits. 3 sites, 1 family, two sites alike and one of the two edited; 3 scans and 1 change, or 2 scans of 2 variants without `baseline compare` |
| `artifact_analysis` | is proven dead dead and retained live, does any order of the walk mark what two roots reach, are identities unique, found in bounded rounds and free of layout, is the tree dominance and does refinement leave only symmetric symbols alike? | `SharedIsReachedTwice`, `GraphIsHonest`, `SmallIsExact`, `IdentitiesLast` | all graphs of 3 symbols; 3 functions, 2 calls, 1 missing symbol, 1 reference; trees of 4 symbols, and of 3 with toolchain code; 4 symbols of 2 contents, 2 calls or odd symbols, two neighbours exchanged or 2 newcomers |
| `clone_findings` | do groups cohere and lose no verified pair, do findings have their own identities, whatever the discovery order, are reported runs copies, exactly folded, contained, confirmed, joined and dropped? | `GroupsAreTrue`, `FindingsAreStable`, `RunsAreTrue` | 4 units of 3 contents, side by side or nested in 5 ways; 4 units of 2 contents in arms, with budgets that bite; 2 to 6 blocks of 1 to 4 statements, windows of 2 and 4 |
| `records` | do measurements endure, compares measure the newest, prunes tell all they took, summaries find their rows, lineages pass on evidence? | `SummariesComplete`, `LedgerIsKept`, `PruneIsHonest`, `LineageIsHonest` | 2 commands, 2 times, 3 rows; 1 reader with 2 rows and a pass that keeps 1; 3 fingerprints, 3 contents, any number of runs |

**Why the bounds are enough.** Two trees and two rules are what it takes to
share or not to share a content identity or a rule between two runs. Four run
rows hold two scans of two partitions, or one completed, one failed and one
reusing scan. Grace is 1, so a scan of two clock steps outlives it. The three
plans are the interesting neighbours: the second repeats a partition of the
first up to the baseline's spelling and changes the other, the third is a tree
no compilation database splits. `MaxRun`, `MaxTime` and `MaxRow` stand in
guards; at the bound the models stop, hence `CHECK_DEADLOCK FALSE`. `MaxScan`
bounds how long before a call its scan may have started; it equals `MaxTime` in
the scan runs, so excludes nothing there, and is 0 in `store_any_caller`, where
no invariant compares start times. For `DatabaseLease` one process at work and
one that meets it show every pairwise race. A late answer needs one request
that timed out and a next one; a full pipe needs one frame of two chunks and
room for one; a cut request needs a client that dies between two pieces. Two
units and two restarts let a unit break a helper twice, another inherit the
spoiled one, and the budget run out. A private copy is torn by one transaction
between two reads, and two attempts are the last that may fail and the one
after it. A retry without end needs another build that changes the files
without end: it may roll back any number of times. A baseline goes stale by one
change between two scans. Graphs of three and four symbols contain every shape
the walks tell apart: diamonds, cycles, back edges across a tree, and
unreachable parts; four-symbol trees have one entry, which is the tool's own
root. For the results of section 5 the bounds matter no longer.

**Symmetry** is used in runs without liveness properties only (trees in
`store_any_caller`, processes in `scan_concurrent`, commands and contents in
`records`), over values nothing distinguishes: no `CHOOSE` ranges over them.

**Fairness.** Nothing makes a command start, a process crash, a helper or a
client act, a prune happen or time pass. What is fair, and why:

* `ScanInvocation`: the driver, once it holds the lease. Its thread goes on and
  every call returns with success or failure (SQLite's busy timeout is finite).
* `DatabaseLease`: each process's `Step`; no step waits for another process.
* `HelperExchange`: the client, its writer and its reader thread. The helper
  has none; deadlines end what it leaves undone.
* `HelperInput`: the reading and the serving thread, and a backend whose client
  is there. A backend whose client disappeared may take for ever, which is what
  the reading thread is for.
* `HelperSupervisor`: its `Step`; an exchange is one outcome because
  `HelperExchange` shows that it ends.
* `ArtifactWorker`: each command; the deadline ends its worker.
* `StoreOpen`: each opening; busy timeouts end its waits, however often others
  write.

## 4. What the runs found

* `stale_start_time`: `run_with` reads `started_at` before it takes the lease,
  and reuse gives a run that start time. Of two overlapping scans, the one
  that started first and got the lease last moves a run of the other back in
  time; `latest_completed_invocation` then returns a part of that scan.
* `probe_refuses`: `lease_status` asks by taking the lock; a scan that asks at
  that moment is told that another scan or clear is at work.
* `stale_status`: the count of running rows is read before the lease is
  probed; a scan that completes in between is reported as abandoned runs.

Met while modelling, and stated here rather than checked; each is a behaviour
the models have:

* A `cache status` (or another reader without the lease) that has opened the
  database, but not read it, when a clear unlinks it makes `-wal` and `-shm`
  afterwards, which stay: the clear said "removed", and the next `Store::open`
  refuses the place as orphaned until another clear. The comment on
  `database_files` has `cache clear` never leave such a file;
  `OnlyStraysAreLeft` says that these are the only ones.
* A larger pair budget may report more findings, fewer, or others (near copies
  that several lists propose); the comment at `core/candidate.rs:47` reads as
  if it could never report more.
* A crash after staging leaves *inactive* suppression rows that no token names
  any more; row ids of that table may be given out again. They are inert.
* The unit whose second break spends the last restart is answered without a
  diagnostic of its own; a unit is set aside after one break of its own when
  the other was charged to the helper it inherited.
* A client that disappears between the last piece of a request and the moment
  the serving thread clears `waiting` is not noticed at once: the request is
  served to its end.
* A private copy may mix a state with its own rollback: the stamps agree again.
* A group that disappears and comes back unchanged begins a new lineage.
* A forced artifact command truncates what was there before it knows that its
  report can be written.
* A report of artifact analyses takes no lease: its listings may be of two
  analyses, and of one measurement two samples. A prune counts what it exempts.
* Symbols of equal bytes and equal neighbours are told apart by position.
* Clone identities are of contents: two builds of one unit may share one.
* A baseline of a part of a scan hides that part only; two spellings of its
  path are one configuration.

## 5. Proofs

Every theorem holds for every value of the constants, under the named
assumption of its module (`SnapshotAssumption`, `ScanAssumption`,
`LeaseAssumption`, `LineageAssumption`, `LedgerAssumption`,
`SupervisorAssumption`, `WorkerAssumption`, `SharedAssumption`,
`InputAssumption`, `ExchangeAssumption`, `BaselineAssumption`,
`OpenAssumption`, `GraphAssumption`, `GroupingAssumption`,
`IdentityAssumption`), which TLC evaluates in the runs. They say that the
stand-ins for "nothing" are none of the values, that bounds are numbers, that a
tree has finitely many sites, a program finitely many functions, symbols or
units, and of a scan that its plans are made of the model's variants and
policies and that `MaxTime <= MaxScan`: a scan may take as long as it takes. Of
grouping they say that the floor of a group is not above what accepts a pair
(0.60 and 0.70 in the code's defaults), and of two builds what makes the second
a rebuild of the first (`Rebuilt`).

**`SnapshotStore_proofs`**, any caller. The inductive invariant `StoreInv` adds
to the types: row ids and tokens lie at or below `lastId` (`FreshIds`), the
fingerprint table equals the content of the recorded runs, and every rule a
finding references is present. `FreshIds` is what makes `TokenNamesItsOwnRun`
inductive: a token outlives its row, and only because `AUTOINCREMENT` never
gives an id out again can no later run take its place. There is a lemma for
each kind of write (a new run, a removal, a refresh, a cleanup) and one step
for each transaction. From it follow `NoOrphans`, `NoDanglingRules`,
`TokensNameTheirRuns`, and the action properties `HistoryIsKept` and
`LiveRunsAreKept`.

**`ScanInvocation_proofs`**, any number of scans of any plans. First that every
driver step is a call the arbitrary caller may make (`CallerStep`,
`ScanIsACaller`), which carries `StoreInv` and all of the above over to scans.
`DriverInv` adds where the driver is: only the holder of the lease has
partitions, what it staged is running and live and carries its start time, and
what is still to do, staged and reused make up the plan. Hence
`OwnPartitionsKept`. `FailedScansLeaveNoTrace` needs `TracesAreOwn`: whatever
is in the tables and was not there before belongs to a partition the scan still
holds a token of. `ScanIsAllOrNothing` is the refinement of `AuditHistory`,
step by step: every step but a successful finalization leaves completed runs
and active rules alone, and that one step does everything the plan asked for,
because at that point each variant of the plan is answered by exactly one run
(`PlanAnswered`, `PlanInPlace`). `NewestIsWhole` assumes one scan process, and
`stale_start_time` shows that it must: then nothing completed has started after
the scan under way (`StartsInOrder`), so what it publishes is newest, together
and whole (`NewestTogether`, `WholeRow`). That a newest run exists is a least
counterexample over finite sets of row ids.

**`DatabaseLease_proofs`**, any number of processes. `LockInv`: every open
handle is on the file at the lock path (nothing deletes the sidecar), and a
command at work is named by the lock of its handle. Two commands at work are
therefore one (`LeaseIsExclusive`). `WorkInv` adds what each command builds on
(the scan's full database and running row; for a clear, that what it has
removed is gone, but for strays). Only commands at work disturb files or rows,
and a reader adds sidecars, never to a database a clear has begun to remove
unless it had it open before: `StagedWorkIsKept` and `ClearLeavesStraysOnly`.

**`Records_proofs`**, any number of commands, readers, artifacts and
groups. `Recorded` (a measurement's analysis is there while it is compared or
read) gives `SummariesAreComplete`; `Exclusive` (only the lease holder writes,
so what a compare selected is still newest when it records) gives
`ComparesMeasureTheNewest`; with `MeasurementsEndure` they make `LedgerKept`.
`PrunesAreHonest` is about the reachability closure of `Store::prune` and needs
`RetentionInv`: rows are finite and have their own ids, so recency is a total
order and "the newest `keep`" a rank by cardinality. The rounds of the closure
are compared with the cascade by a least counterexample.

The same module proves of `LineageHistory`, for any groups and contents and any
number of runs: what a step records of a group is read off `RowOfAStep`, the
parent it adopts is the strongest of the eligible ones, so it was held by the
run before, shares half of the contents and has the lineage handed on.
`HonestLineage` joins
`HandedOn`, `EdgesHaveEvidence` and `ParentsHandOn`.

**`StoreOpen_proofs`**, any number of openers, anything found at the path, any
number of transactions, rollbacks, crashes and checkpoints of another build.
`OpenInv` has a part for the files (a transaction's journal holds what was
there), one for who holds the lock, and one for each opening: which way it
came, what its stamps and its private copy still say of the database, and what
its connection has read. An opening shares the files with all others, so each
step is also taken against a bystander. `Step` sums up what it does to the
files, `HasSeen` and `TakesAway` what the bystander's ghosts then hold, and
`UndisturbedSound` says that a stamp still compares as it did, or somebody else
is to blame. `OpeningsSafe`: tables of two builds are never mixed, what opens
was this build's when the connection that is kept read it, newcomers accept one
another, and a private copy holds what the database held at some moment since
the opening began, if others only wrote forwards or read. `TakesOn` compares
files up to an empty WAL for that, because one may come and go between two
stamps. `IncompatibleLeftAlone`: a database another build wrote keeps every
byte through an opening nobody else disturbs, however it ends; beside it at
most an empty WAL appears, as preflight's own test says.

**`Analyses_proofs`**, what a scan computes. *The walk*, any graph and any
order. The invariant says that every mark is justified by a path and that every
arc out of a marked symbol has been followed or is pending. That nothing
reachable is missed when nothing is pending is shown with closed sets: the
symbols marked by a root are closed under calls, and reachability is the least
closed set. So no induction over paths is needed (`WalkIsCorrect`).

*The graph*, any program and whatever a parser records of it within what it
means. `GraphInv`: a recorded call is meant, and what has no symbol shares its
content with nothing that has one. Then the functions whose content is reached
are closed under the true calls and hold all that can run, unless a dispatch
was not followed, and the verdicts know that (`GraphHonest`).

*Groups*, any units, contents, arms, similarities, posting lists and budgets.
`GroupingInv` divides the units among groups, sets still to be refined and the
one in hand; what is kept in hand is close to the medoid, and where only the
medoid is kept the rest is far from it; each accepted pair no ceiling cut is
inside one set until an end of it is in a group. Hence groups cohere, no unit
is in two, and no verified pair is lost (`GroupsTrue`): where a group describes
a pair and is then folded, what it is folded into stands, because it holds
declarations, and no third group can account for those (`GroupsStand`). That a
medoid, a worst pair and a next unit exist rests on the lemmas on finite sets
in an order (`LeastExists`, `EveryPosition`).

*Identities*, any program, any other order of its symbols, any unrelated code
that joins it. `IdentityInv` keeps the two builds in step: a member has the
same colour in both and is refined in both or in neither, because its
neighbours, and the copies it is connected with, are the same ones. A colour
stands for one content, for which it has to be known that what is refined is at
the latest round (`Latest`); so newcomers tie with no member. A component that
is still refined has gained a colour in every round (`Gained`), which bounds
the rounds as the comment on `refine` does. Ties are numbered by place, as many
numbers as there are symbols, so the same ones in both builds
(`IdentitiesLasting`).

**`Processes_proofs`**, who starts a process and lives with how it ends. The
supervisor, any set of units and any budget: `SupervisorInv` says that inside a
call the unit asked about is open, the helper a unit is asked of has not been
spoiled, spawns are counted by restarts, the lines kept for a unit reached the
client, and no line is another's words. It gives `SupervisorSound` and the
refinement `SupervisorKeepsPromise`: each answer is one `HelperAnswers` allows.

Artifact commands, any number on one destination: `ArtifactInv` says that
command and worker agree on the stage they are in, the lease is a running
worker's, an inode claimed is its command's, and what an inode holds was
written by its owner or is what was there. `CommandsSound` is what TLC checks
as `CommandsAreSound`.

Inside a helper, `InputSound`, any number of pieces: there are marks, one
before and after each chunk, such that what is taken, pending, in the channel,
carried by the watcher and in the pipe are the pieces from one mark to the next
(`InOrder`), wherever the watcher cuts. That chunks in a row, put together, are
one run again is a least counterexample over the length of the list, since
`FlattenSeq` is recursive. Who waits and who has ended is `ThreadsAgree`.
`ConversationSound`, any number of requests, any capacity of pipes and channel,
any number of lies. The hard part is `KeepsItsPlace`: a conversation that is
kept has nothing under way that the next request would meet, and for that
`ConversationInv` has to say where everything is. `OneRequest`: while the
conversation is live (no deadline has passed, the client is not leaving) the
request is in one place, the channel or the writer's hands or reported.
`InStep`, as long as the helper has not lied: what the writer has written and
what has come back, counted in chunks with an answer counting two, fit the
helper's state (`Placed`), and all chunks on their way back are of one response
(`Genuine`). Neither survives a deadline, and neither has to: `EndsWell` and
`LateIsKnown` say that the client then ends the helper, reaps it and takes no
further answer from it.

**`BaselineFile_proofs`**, any tree, families of copies, build variants,
settings and rules, any number of commands, scans and edits. Three things make
`BaselineInv` inductive. *Entries were shown* (`EntriesSound`, `RunSound`): what
a run froze was visible in its report, or hidden by an entry that stands for as
many, so by induction over the steps something visible is behind every entry,
also behind those of a text a command still holds. Hence `HiddenShown`. *A text
is as it was* (`PartsSound`): runs are only added and started again, which
changes nothing they find (`SameFindings`), so what was derived from one stays
derived from it; an entry is missing only if it is gone from the run the update
read (`AreGone`). *What starts together is of one scan* (`StartsTogether`): a
command reads the ids of an invocation and then each start by itself, and a scan
may move any of these runs in between. Every start ever read or recorded at one
time is of a run which the one scan of that time published, since a start is
given out by one publication only and nothing has it before; starts that agree,
whenever each was read, are therefore of one scan. With the lemmas
that a group is named uniquely within a run (`GroupsAreNamed`) and that one
entry decides alike in both modes (`ModesFindAlike`) this is `BaselineHonest`.

Only model-checked, and why:

* Liveness (`LeaseReleased`, `CommandsEnd`, `EveryWaitEnds`, `OpeningsEnd`) and
  what needs `ENABLED`: out of the prover's reach.
* `RunsAreTrue`: `SharedRuns` is written with `RECURSIVE` operators, as the
  code's loops over sequences are; what they compute is data induction.
* `SmallIsExact`: that the tree is dominance is induction over a depth-first
  search and a union-find. That connected copies refinement leaves alike are
  exchanged by a symmetry is true of small programs only: colour refinement
  does not tell all graphs apart, and the code marks what it leaves.
* `FindingsAreStable`: that another discovery order gives the same findings
  holds where no budget bites and there are no arms, and folds over components
  are compared with each other: induction over data again.

## 6. Plan

Modelled and proved: store, scan, lease, openings, ledger, lineage, supervisor,
helper conversation and input, artifact commands, baselines, call graph, shared
dependencies, identities, clone groups. Next would be a `SharedRuns` whose loops
are functions over positions, so that "what is reported is a copy" can be proved
of one confirmation step, and the siblings and near-match stages.

Not modelled, and why: language frontends, compiler backends, object-file and
DWARF readers and reporting are sequential and data-heavy, and their answers
are inputs of the models; so are configuration and command line. The token
engine, siblings, near-match and skeleton stages of clone detection work on
hashes of text and follow the same propose-verify-group scheme as
`CloneGrouping`. History and seam analysis are statistics over version control.
Evaluation and conformance tools are not part of the shipped program.
