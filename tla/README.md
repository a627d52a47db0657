# TLA+ models of the compound-aggregator

The compound-aggregator is a set of NestJS commands that run one after the
other in CI or on an operator's machine.  They index who ever used Compound V2
and V3 on some twenty networks, and from that index and from historical
contract reads they compute what the protocol owes (`owes:*`), what users
earned in a period (`rewards:*`), and the airdrop files for Merkl.  Nothing of
it is a server: what makes it hard is that a run takes hours against unreliable
JSON-RPC endpoints, that it is killed and resumed, that its state lives in
files which CI jobs copy from and to two repositories, and that a number which
is silently too low looks exactly like a correct one.

This directory holds TLA+ models of those parts, TLC configurations that check
them on small instances, and TLAPS proofs for every value of the constants.

## 1. Inventory

Paths are relative to `src/src/`.

| Component | Source | State it keeps | Operations | Talks to |
|---|---|---|---|---|
| Log range scan | `indexer/indexer.service.ts` 470-504, `generation/v2-period-rewards.service.ts` 860-895, `common/helpers/with-retries.ts` | a stack of block ranges, the logs so far, the attempt | answer, retry, split, give up | the endpoint |
| Indexer | `indexer/indexer.service.ts`, `sqlite-api.ts`, `topics.ts` | tables `markets`, `users`, `cursors`; per network the chunk in work | run, worker pool, discover markets, scan users in address batches, move the cursor, skip a network | range scan, runtime database |
| Snapshot storage | `indexer/runtime-db.service.ts`, `chunks.service.ts`, `manifests.service.ts`, `meta.ts` | runtime SQLite file, chunk files, `manifest.json`, `meta.sqlite` | assemble, validate, import, coverage check, flush, save manifest, sync meta | the artifacts repository, indexer |
| Historical calls | `generation/historical-call.service.ts` | multicall version per block, chunk limit per block, permit semaphore | callMany, probe, chunk workers, halve, direct fan-out, repeat | the endpoint; used by owes and rewards |
| Owes commands | `generation/generate-owes-v2.command.ts`, `-v3`, `owes-export.service.ts`, `v2-owes.math.ts`, `contract/rewards.service.ts` | table `owes`, two JSON files per version, exit code | page over users, read pending and accrued, refuse or publish | index, historical calls, ranges |
| V2 COMP state, reward math | `generation/v2-comp-state.service.ts`, `period-rewards.math.ts` | none | market boundary, two passes over a page of users, index projection, pending amounts, FIFO split of what remains | historical calls |
| V2, V3 period rewards | `generation/v2-period-rewards.service.ts`, `v3-period-rewards.service.ts` | per-period maps of amounts | index check, boundary state, claims, amounts per user | index, historical calls |
| Merkl export | `generation/merkl-airdrop-export.service.ts` | export files and their temporary and backup copies | group, prepare, replace, roll back | rewards |
| Ranges | `generation/ranges.service.ts`, `update-ranges-v3.command.ts` | `ranges.json` | validate and load, move the ends on | every command after the index |
| CI workflows | `.github/workflows/update-owes.yml`, `run-owes-v3.yml`, `run-indexing.yml` (of the repository's root) | the files published in two repositories | checkout, fetch storage, refresh ranges, index, generate, two pushes | all commands |
| Retry wrapper | `retry.ts` | one child process tree | run, recognise a transient failure, kill, run again | the commands |
| Tables, contract reader, GitHub client, networks, shell | `generation/markdown.service.ts`, `contract/contract.service.ts`, `github/`, `network/`, `config/` | the file written | formatting, read-only calls, configuration | - |

How they interact: `assemble` builds the runtime database from the snapshot,
the indexer extends it, `flush` writes the new part back; the owes and rewards
commands assemble it again (in another process, often on another machine) and
page over its users, reading amounts by historical calls at blocks that
`ranges.json` gives.  The workflows chain these commands and publish what they
leave; the operator does the same by hand with `yarn full-index` and the
rewards commands.

What is hard about each, and what makes it correct:

* **Range scan** - re-orders its own work when a provider refuses a range.
  Every block exactly once, in block order (the indexer dates a user by the
  first log it sees), an end whatever the provider answers.
* **Indexer** - networks interleave on a worker pool; a market found in the
  middle of a chunk cuts the chunk; any call may fail, the process may die,
  the head may go back.  Rows are exact, nobody behind a cursor is missing,
  the cursor only moves forward.
* **Snapshot** - four stores written one after the other without a common
  transaction, by a process that may die, and read by a process that may find
  only some of them.  Published cursors never vouch for users that are nowhere.
* **Historical calls** - chunks in flight change the size of later chunks,
  halve themselves, fall back to single calls under a shared semaphore, and
  one caller's abort leaves its other workers running.  Results at the index
  of their call, balanced permits, an end for every caller.
* **Owes** - amounts of a user are spread over pages; failures are counted or
  swallowed at different levels.  A published total is the sum of exact rows.
* **V2 COMP state** - the answers of the second pass come as one flat list, and
  any subset of the calls of both passes may fail.  A user gets what a claim
  would credit, or is counted as failed.
* **Period rewards** - what a user earned is never read, it is the difference
  of two states plus events, corrected by transfers, in integer arithmetic
  that rounds at each step; markets, users and the reward contract itself may
  appear inside the period, and some events credit nothing.  Earned, paid and
  owed amounts balance to the wei, and the correction takes only what was
  never credited.
* **Merkl export** - its checks may refuse what the calculation produced; its
  files are replaced one after the other by a process that may fail or die in
  between, in the rollback as well.  It pays the debt, and the files that lie
  side by side are those of one export.
* **Ranges, workflows** - nodes lag; runs of three workflows overlap, cancel
  each other and push old checkouts.  Published owes are of the published
  ranges and of blocks the index had covered; nothing moves back.
* **Retry** - the wrapper judges a child by an exit code that is 0 for most
  failures and by lines it may not get to read.  "Done" means done, and the
  wrapper comes to an end.

The hazards are listed in `PROJECT.json`, each at its line, with the
properties that would catch it.

## 2. Modules

| Module | Models | Extends / instantiates |
|---|---|---|
| `RangeScan` | `getLogsAdaptive` with `withRetries` | - |
| `UserIndex` | what an index promises: abstract specification | - |
| `Indexer` | `IndexerService.run` and everything below it | `INSTANCE UserIndex` (refinement) |
| `Snapshot` | `RuntimeDbService`, `ChunksService`, `ManifestsService` around the indexer | `Indexer`; `INSTANCE UserIndex` over what is published |
| `HistoricalCall` | `HistoricalCallService` | - |
| `Owes` | the two owes commands | - |
| `RewardMath` | `period-rewards.math.ts`: index projection, pending and period amounts | - |
| `MerklAllocation` | `prepareGroup` of the export: allocation and checks | - |
| `V2PeriodRewards` | `V2PeriodRewardsService.calculateNetwork` over a chain that grows | `RewardMath`, `MerklAllocation` |
| `V2CompState` | `V2CompStateService` on the same chain | `V2PeriodRewards` |
| `V3PeriodRewards` | `V3PeriodRewardsService.calculateNetwork` over a chain that grows | `RewardMath`, `MerklAllocation` |
| `Ranges` | `ranges.json`: validation, loading, `ranges:update-v3` | - |
| `OwesWorkflows` | the three GitHub workflows and the two repositories | `Ranges` |
| `Retry` | `retry.ts` and the indexer as its child | - |
| `MerklExport` | `writePreparedExports` | - |
| `RewardsSession` | an operator's clone: full-index, moving the ranges, exports | `Retry`, `MerklExport` |
| `*Proofs` | theorems; those of `Indexer` are in `SnapshotProofs`, of `MerklExport`, `Retry` and `RangeScan` in `RewardsSessionProofs`, of `V2CompState` in `V2PeriodRewardsProofs` | the module of the same name |
| `SumTheorems` | lemmas about finite sums, for both reward proofs | - |
| `MC*` | instances for TLC | the module of the same name |

### RangeScan

State: `stack` and `out` of the code (a log is represented by the range that
was asked for), `attempt` of `withRetries`, `status`.  One action per outcome
of a call: `Answer`, `Retry` (retryable error, attempts left), `Split` (final
error, more than one block), `GiveUp` (final error, one block), and `Return`.
The indexer pushes the later half first and fetches the earlier one; the V2
reward service pushes the halves the other way round.  The constant
`EarlierHalfFirst` chooses; the run takes the indexer's order, the proofs cover
both.

### UserIndex and Indexer

`UserIndex` is the promise: a table of users and one cursor per network;
`Learn` adds rows with the exact time of first activity, `Advance` moves a
cursor forward over blocks whose users are all in the table.

`Indexer` has the three tables (`db`) and, per network, where its function is
(`pc`: off, queued, discover, scan, commit, done, failed) and the locals
`finalizedTo`, `from`, `to`, `known`, `todo`.  `StartRun` is `run`; `Begin` is
the start of `indexNetwork` up to the loop, with the head read from the
endpoint, which may be behind the cursor; `Discover` is one iteration up to
the list of markets to scan, including the cut at `minNewBlock - 1`;
`DiscoverFails` leaves the markets handled before the failure; `ScanBatch`
stores one address batch (V3 markets first, then V2); `CommitCursor` moves the
cursor; `Skip` is the catch of the pool; `Crash` forgets everything but the
tables.  The chain (listing blocks of markets, blocks with logs about users)
is a variable that never changes, so one run covers several chains.

### Snapshot

Adds the runtime file, the chunk files, the manifest and `meta.sqlite` (the
`disk`) and the phase of the process: import, users, check, ready, index,
flush, sync.  Each write that can be separated from the next by a crash is an
action: `ImportMeta`, `ImportChunk`, one transaction per chunk in `FlushChunk`,
`SaveManifest`, `EnsureMeta`, `SyncMeta`.  `ProcessDies` may happen in the
phases `CrashPoints`; between processes the parts in `Losable` may get lost,
as they do when CI starts on a fresh machine or a checkout is incomplete.

### HistoricalCall

Per caller a phase and the result array, per worker a small record (`NewJob`):
the mode, the ranges of its chunk still to be answered, the fan-out lanes.
`ProbeAnswers`/`ProbeFails` settle the probe all callers share;
`MultiAnswers`, `MultiSplits`, `MultiFallsBack`, `MultiUnavailable` are the
outcomes of a multicall; `LaneTakes`, `CallSettles`, `CallUnavailable`,
`FanoutEnds`, `RetryTakes`, `RetryEnds` are `callDirect` and
`callDirectOne` with `Acquire` and `Release` of the permit.  JavaScript runs
every continuation that is ready before it looks at the network again, so an
RPC call settles only when nothing else can run (`Quiet`); continuations that
are ready at the same time run in any order.

### Owes

`version` says which command runs.  `Take` gives a network to a free worker;
`ReadPending` is the first pass of V2 over one market of one page; `ReadAccrued`
and `ReadOwed` are the page bodies of V2 and V3 with `owedForUsers` and the
upsert inside; `EndPass`, `FinishCalc` (refuse or go on), `WriteTotals`,
`OpenDetail`, `AppendDetail`, `CloseDetail`.  A read in the set `F` fails and
is counted; a read in the set `D` fails inside `owedForUsers` and is swallowed,
which the history variable `dropped` records; `PageThrows` fails the page;
`Stop` is everything that ends the run with exit code 1, a kill included.

### RewardMath, V2PeriodRewards, V2CompState

`RewardMath` has one operator per function of `period-rewards.math.ts`, with
the two scales as constants.

`V2PeriodRewards` needs something to calculate from, so it has a chain
(external): the sequence `blocks` of the states of a Comptroller and its
markets, one transaction per block - `MintOrRedeem`, `BorrowOrRepay`, `Claim`,
`SetSpeed`, `Interest`, and `Phantom`, a `Distributed` event that credits
nothing, which is the reason the service corrects its sums.  When the chain is
complete `Begin` chooses a range, a cursor of the index and the block in which
the token was deployed (before the rewards begin, at the latest then), and
refuses or collects users from the index and from events; `CalculateMarket` is
one iteration over markets, in their order, with both boundaries, rows and
totals; `Finish`
reconciles the sums with the transfers, reduces rows and builds the result;
`ReadFails` is every request that fails for good.  A start boundary whose
calls fail looks like one without rewards; the history variable `lost` records
that this happened.  `why` is the error thrown.

`V2CompState` reads the same chain the way the owes command does:
`BoundaryRead`, `Holders` (first pass: places in the page), `IndexCalls` and
`CallList` (the calls of the second and their flat list), `Cursor` and
`IndexTaken` (which answer of the list a user is given), and
`ReadPendingByUser`, a function of the page and of the sets of calls that fail.

### V3PeriodRewards and MerklAllocation

The external chain of `V3PeriodRewards` has Comets that track what users
accrue, and a rewards contract that is deployed, configures Comets and pays.
`Begin` does the index check and collects users, `SkipMarket` and
`CalculateMarket` are one iteration over the Comets with the boundary of the
market's own start, `Finish` ends.  A failed read of the reward token at the
start is taken for a Comet without rewards (`lost`); every other one ends the
calculation.

`MerklAllocation` is `prepareGroup` as a function from rows and totals to a
refusal or to what is paid.  Both reward modules apply it to their results, so
that the checks of the export and the calculation are verified together.

### Ranges and OwesWorkflows

`Ranges` has `ValidEntry`, `Accepts`/`CanUpdate`/`Updated` (the update command,
all networks or none) and `Loads`.

`OwesWorkflows` has the heads of the chains, the two published repositories
(`org`: `ranges.json` and `owes-v3.json`; `artifacts`: the storage, abstracted
to its cursors) and, per workflow, its last run: the step it is at, its
checkout (`base`), its working copies.  `Checkout` starts a run and thereby
cancels the one before (`cancel-in-progress`); `Fetch`, `Refresh`, `Index`,
`Generate`, `Push`, `PushStorage` are its steps, in the order `After` reads off
the workflow files; `Stop` is a step that fails or a runner that dies.  `Push`
is `git pull --rebase` with a conflict where both sides changed a file;
`PushStorage` is the rebase with `-X ours`.  Owes are abstracted to the block
they are of and the cursor they were made from.

`Index` exits with 0 whatever happens, as the command does, and may skip
networks.  History: `faulty` are the networks with such a fault in the last run
of update that pushed, `excused` those the published owes were made with;
`unsettled` says that update has pushed the ranges and that the storage that goes
with them is not in place, `between` that the published owes were made by a
run-owes-v3 that had fetched its storage while it was not.

### Retry, MerklExport, RewardsSession

`Retry` has the wrapper (`wrapper`, `restarts`, `matched`), the child and the
pipe between them.  `Serve`, `SkipNetwork` (an error is logged, and a line that
the wrapper looks for may be in it), `FallShort` (the node lags, nothing is
logged), `Finish`, `FailQuietly` (error logged, exit code 0), `Crash` and
`Signalled` are what the indexer may do; `ReadLine`, `HandleExit`, `StartAgain`
are the wrapper.  The exit may be handled before or after the line is read.
`unheard` records that a failure was hidden from the wrapper.

`MerklExport` has one action per file and loop of `writePreparedExports`: stage,
back up, promote, on an error remove and restore in reverse order, clean up;
each may fail, in the rollback too, and the process may die at any point.  Files
are numbered in the order of the list; a group has two, the Merkl file and its
audit.  `orphans` are the backups nobody looks at any more; `published` (what
was committed last), `before`, `faults` and `outcome` are history.

`RewardsSession` runs both in one clone, one command at a time.  An export
begins only when no network is behind the end of its range.

## 3. Runs

| Run | Configuration | Shows |
|---|---|---|
| `range_scan` | `MCRangeScan` | A request of seven blocks, three attempts: exactly once, in order, ends. |
| `indexer` | `MCIndexer` | Three networks, of which two workers interleave two while the third waits, three markets, V2 and V3: rows exact, nobody behind a cursor missing, refinement of `UserIndex`, the head is reached, and every queued network is served, also after others failed. |
| `snapshot` | `MCSnapshot` | Two series, death in any phase, loss of the runtime file, meta or chunk files: published cursors are covered by the chunks as long as no declared file is missing, and a process that passes its checks works on a complete runtime database. |
| `snapshot_valid` | `MCSnapshotValid` | One series of several chunks.  Without death during import and flush, the snapshot validates and what is published refines `UserIndex`. |
| `historical_call` | `MCHistoricalCall` | Two callers with every outcome of probe, multicall and direct call. |
| `owes` | `MCOwes` | Both commands, two networks in parallel, two snapshot blocks, failures of all three kinds. |
| `v2_rewards` | `MCV2PeriodRewards` | Every chain of three transactions and every range in it, full or filtered: earned amounts are exact, the export accepts the result and pays the debt, the pending reads of the owes command are exact whichever calls fail, honest users are left alone but for rounding, and real chains are refused for what rounding does to borrows and nothing else. |
| `v3_rewards` | `MCV3PeriodRewards` | Every chain of three blocks over two Comets and every range and selection: rows agree with the chain, the export accepts and pays the debt. |
| `rewards_session` | `MCRewardsSession` | Full-index, moved ranges and two exports with every failure: "Done" means mainnet is indexed, pairs match, nothing is lost, all or nothing, the wrapper ends. |
| `owes_workflows` | `MCOwesWorkflows` | The three workflows overlap, are cancelled and stop anywhere: owes are of the published ranges; of blocks their index covered, unless a network was skipped, a node lagged or run-owes-v3 fetched between update's two pushes; nothing moves back. |
| `batch_fails` | `MCBatchFails` | *Violation*, see section 6. |
| `empty_storage` | `MCEmptyStorage` | *Violation*, see section 6. |

Further instances are kept beside the runs, each with one property that TLC
finds violated: what the code does when a condition that a passing run names is
lifted.  `tlc -config X.cfg M` shows the trace, in at most a minute and a half.

| Instance | Module | Property | Lifts |
|---|---|---|---|
| `MCSharedTime` | `MCSnapshot` | `SnapshotComplete` | Every block has its own time. |
| `MCLostManifest` | `MCSnapshot` | `RuntimeComplete` | The manifest is not lost alone. |
| `MCV2HonestUntouched` | `MCV2PeriodRewards` | `HonestUntouched` | No market drifts (honest rows). |
| `MCV2DriftHarmless` | `MCV2PeriodRewards` | `DriftHarmless` | No market drifts (claims). |
| `MCV2LostStart` | `MCV2PeriodRewards` | `EarnedAsStated` | No start boundary is lost. |
| `MCV3LostStart` | `MCV3PeriodRewards` | `EarnedAsStated` | The same in V3. |
| `MCTruncatedExport` | `MCRewardsSession` | `ExportedWhole` | Staged files are whole. |
| `MCOwesBetweenPushes` | `MCOwesWorkflows` | `CoveredUnlessFaulty` | run-owes-v3 does not fetch between update's two pushes. |

### Bounds, and why they are enough

* **RangeScan**: seven blocks split unevenly (4+3, 2+2, 2+1), which covers
  odd and even splits and stacks of depth three; three attempts cover first,
  middle and last.  The proofs remove the bound.
* **Indexer**: blocks 0..3 with `BlockStep` 3, so a network needs two chunks
  when uncut and three when cut; m2 is listed at block 1 or 2, inside the first
  chunk, twice; `BatchSize` 1 makes the two markets two batches, so one can be
  stored and the other fail; two workers, as many as the code has, and three
  networks, so that the steps of two interleave and one has to wait.
  Timestamps of two adjacent blocks coincide.  The proofs remove the bounds for
  safety.
* **Snapshot**: four blocks, two markets, two users each: four rows, chunks of
  two rows.  In `snapshot_valid` the four rows are one series, so that a chunk
  is exactly full and a second one is opened; in `snapshot` they are two series
  (V2 and V3) of up to two rows, whose chunks are lost and checked
  separately.  `MaxChunks`, a guard
  of `FlushChunk`, is never reached by either.  Every block has its own
  time, and the manifest is not lost alone; the instances `MCSharedTime` and
  `MCLostManifest` show why.
* **HistoricalCall**: a chunk of three and one of two calls, minimum chunk
  size 1, two workers, two permits.  A three-call chunk halves into 2+1 and
  again; three direct calls with two permits make one wait, and the second
  caller contends.  Multicall versions 3 and 1 and none.
* **Owes**: pages of two over three entries, so a user's two markets are on
  two pages and a market fills a page; export pages of two over up to four
  rows, so the last page may be short, full or empty; two blocks with
  amounts that become zero and non-zero between them; unboundedly many runs.
* **V2PeriodRewards**: block 0 and three transactions, so a range can begin
  and end before, at and after each; two markets, the second listed in block 1
  and so inside, before or after the range; two users; blocks 1 and 2 share a
  timestamp; both scales are 2, so that divisions round; balances 0 and 2
  (and 1 from the past); a phantom event of 3, more than anyone earns in a
  block.  The past ends before the rewards begin, or has a user whose index was
  never set, or leaves the rewards to begin with the last block, so that ranges
  end before them; the token is deployed then or earlier.  The filter is empty
  or selects one market.  For
  `V2CompState` every order of the users is a page, and every subset of the
  calls of either pass fails.
* **V3PeriodRewards**: the same shape; the past has a Comet without rewards
  contract, or one that has paid a part; the ranges file names no market, one,
  or both with different starts.
* **RewardsSession**: two networks, so mainnet is served first, last or not at
  all; two restarts, so the wrapper may give up; one group (two files) and two
  exports, the second of which meets the files, backups and failures of the
  first.  The proofs cover any number of groups, exports and restarts.
* **OwesWorkflows**: one network (networks do not interact but through the
  files, and the proofs take any set of them), a head that can grow twice
  beyond the range's end, unboundedly many runs.

`MCRangeScan`, `MCHistoricalCall`, `MCV2PeriodRewards` and `MCV3PeriodRewards`
switch deadlock checking off because a scan, a set of callers and a calculation
that are done have nothing more to do.

The type invariants of `HistoricalCall`, `Owes`, `V2PeriodRewards`,
`V3PeriodRewards`, `MerklExport` and `Retry` are not among the runs' properties,
which are kept for what could be wrong; they are proved.

Every inductive invariant of section 5 was first checked by TLC as an invariant
of the instances above: the one of `Snapshot` on 649,008 states of the two-series
instance and 195,742 of one with a single series, `Matching` on 24,891 and
`Ahead` on 210,686 states of instances with the crashes and losses they allow,
`WorkInv` of `HistoricalCall` on three instances (the largest with 332,000
states), those of `Owes` on 593,556 states, `CalcInv` of `V3PeriodRewards` on the
143,143 states of its run, and `CalcInv` of `V2PeriodRewards` on the 30,390
states of its instance with two transactions instead of three, since it takes
too long on the third.

### Fairness

* `RangeScan`: `WF(ScanNext)` - a request ends because every RPC call has a
  timeout (`rpc` wraps calls in a timeout and `withRetries` bounds attempts).
* `Indexer`: weak fairness of `IndexStep(n)` for each network: a network that
  holds a worker has exactly one pending await, which settles by the timeout.
  Nothing is assumed about `StartRun` or about success.
* `HistoricalCall`: `WF(Progress)`: the event loop runs whatever is ready and
  every RPC call settles.  No fairness among callers is assumed.
* `Owes`: `WF(Progress)`, for the same reasons.
* `RewardsSession`: `WF(WrapperStep)`: node and the operating system run the
  wrapper and its child on; the child's RPC calls time out.  How the child ends
  is not assumed, nor that a line is read before the exit.
* The other modules have safety properties only.

## 4. What the properties say

Each property has its statement in a comment above it.  The central ones:

* `ExactlyOnce`, `InBlockOrder` (RangeScan).
* `RowsExact`, `IndexComplete`, `MarketsExact`, `ImplementsUserIndex` (Indexer).
  `RowsExact` is what the reward services rely on when they date a user;
  `IndexComplete` is the meaning of a cursor.
* `SnapshotComplete`, `RuntimeComplete`, `SnapshotValid`,
  `SnapshotImplementsIndex` (Snapshot).
* `ResultsInPlace`, `PermitsBalanced`, `FailureConfirmed`, `LimitOnlyShrinks`,
  `EveryCallSettles` (HistoricalCall).  `FailureConfirmed` is the reason for
  the repetition: without it a call that is fine on chain may be reported as
  failed because its neighbours were refused.
* `RowsExact`, `FilesAgree`, `RefusedKeepsFiles`, `RunEnds` (Owes).
* `EarnedExact`, `ExportPaysDebt`, `HonestRowsExact`, `RealChainAccepted`
  (V2PeriodRewards), `PendingExact` (V2CompState), `EarnedExact`,
  `ExportPaysDebt` (V3PeriodRewards).  The right-hand sides are computed from
  the chain alone (`Owed`, `Earned`: what a claim at the end of a block would
  pay), not with the service's formulas.  `EarnedExact` and `HonestRowsExact`
  except calculations that lost a start boundary and, in V2, ranges in which
  interest changed the rounding of a market that earned nothing; both
  exceptions are discussed in section 6.  `ExportPaysDebt` has no exception: the
  debt at the end of the range does not depend on what was missed at its start.
* `PairNeverMixed`, `NothingLost`, `AllOrNothing` (MerklExport), `DoneServed`,
  `WrapperEnds` (Retry).
* `OwesCovered`, `OwesOfRanges`, `NeverBack` (OwesWorkflows).  `OwesCovered`
  is why the scheduled workflow refreshes the ranges before it indexes: a head
  that only grows makes the index reach at least as far.  It says nothing of owes
  that run-owes-v3 made from a storage it fetched after update had pushed the
  ranges and before their storage was in place (`between`): these may be of a
  block that no index covers, as `CoveredUnlessFaulty` shows (section 6).

Each property of a passing run has a mutant: an operator, placed just before
the definition it replaces, that changes it the way a plausible slip would
(a chunk that starts at the end of the last, a watermark compared with `>=`, a
permit released twice, ...) and makes TLC find the property violated.  Mutants
are not part of any specification.

## 5. What is proved

`RewardsSessionProofs`, last part, for every request, number of attempts and
push order of `RangeScan`: `ScanTypes`, `EveryBlockOnce`, `ReturnedIsComplete`,
`LogsInBlockOrder`.
The strengthening says that the answered ranges followed by the stack, read
from the top, partition the request into adjacent ranges.

`SnapshotProofs`, first part, for every set of networks, markets and users, every
chain, step, batch size and number of workers of `Indexer`: `IndexInvariant`, its
consequences `TypeCorrect`, `RowsAreExact`, `NobodyMissing`, `MarketTableExact`, and `Refinement`: every
step of the indexer is a step of `UserIndex` or changes neither table nor
cursor.  `IndexComplete` alone is not inductive, because `CommitCursor` moves
the cursor over a chunk at once.  So `Inductive` says what is already true of
the chunk in work: `Position` (the chunk starts right behind the cursor and
ends at or before the head that was read), `MarketsBehind` (every market listed
up to the end of the chunk has a row, because of the cut), `UsersBehind` (every
user active up to there has a row unless the market is still in `todo`); and
`FirstSeenExact` and `RowsExact`, because a row stored by a failed or repeated
chunk is kept.

`RewardsSessionProofs`, first part, for any number of groups and exports of
`MerklExport`: `ExportTypes`,
`PairsMatch`, `PublishedKept`, `ExportAtomic`.  The invariant has one part per
loop (`StageInv`, `BackupInv`, `PromoteInv`, `RemoveInv`, `RestoreInv`,
`CleanupInv`, `IdleInv`): which files the loop has passed, and for those and
the others where the old content and the new one are.  It needs that the loops
go through the list in one order and the rollback in the other.

Second part: every step of the session is a step of the export or
leaves it alone, so `SessionKeepsExports` follows from the same invariant;
`WrapperTypes` and `DoneMeansServed` from `MainnetServed`: an indexer that may
still end well and has come to mainnet has served it, or has left a line, or
something was hidden.

`OwesWorkflowsProofs`, for every set of networks, ranges file and bound:
`OwesAreCovered`, `OwesMatchRanges`, `NothingMovesBack`.  None of the three is
inductive: a push publishes what was worked out from a checkout that may be
old.  `RunOK` says what the working copies of a run have to do with its
checkout and with the repository now.  Two facts carry it: ends of ranges only
grow, and nobody but the scheduled workflow moves them, so that it finds the
ranges it checked out when it pushes; and a push of owes made from old ranges
conflicts, because new ranges came with new owes.  `OwesAreCovered` is about
`OwesCovered`, with its exception for run-owes-v3 between the two pushes.  What
update makes is never under that exception, since its index step clears `early`.

`HistoricalCallProofs`, for any callers, calls, chunk sizes and limits:
`TypeCorrect`, `PermitsAlwaysBalanced`, `FlightsAlwaysFit`, `LimitNeverGrows`,
`ResultsAlwaysInPlace`, `FailureAlwaysConfirmed`.  That the count
of permits equals the number of calls in flight needs that no call is in flight
or waiting twice, and this is a matter of the workers: `Fits` says that a call
of a fan-out is one that its lanes have passed and that has no result yet, that
a fan-out which another lane rejected keeps the calls it left behind, and that
the repetition has one call out at a time; `JobOK` says that a fan-out whose
results are all there has handed out all its calls.  `LimitNeverGrows` needs
that the range of a multicall is one of integers at the moment it is halved.

The two about results rest on `WorkInv`, which says where every call of a caller
is: the chunks of its workers are apart and lie below `cut`; within a chunk, the
answers so far and the ranges in `todo` make up the chunk without a gap or an
overlap; whatever lies below `cut` has its final result in its place (`Good`) or
belongs to a worker that is busy; and the first worker ends only when the last
chunk has been handed out.  For `FailureAlwaysConfirmed` it adds that a direct
call which is in flight in the repetition is one that failed before.

`SnapshotProofs`, second part, for any networks, markets, users, chains and chunk sizes and
any deaths of the process: `SnapshotTypeCorrect`, `SnapshotIsComplete` (whatever
the published cursors cover is in the published chunks) and `RuntimeIsComplete`
(a process that passed its checks works on a complete runtime database).
Neither property is inductive: the published cursors move in the last step of a
process, and what they cover was put into the chunks by steps before, some of
earlier processes.  The parts of `SnapInv` that carry this: `Closed` (whoever
came before a stored user of the same series is stored too, so that what a flush
skips as old has been there before), `Covers` (users up to the watermark of a
series are in its files), `FlushOK` (during the flush every user is in a file,
in the queue, or waits for its series), `MetaOK` (markets and files are complete
behind the cursors of `meta.sqlite`), `Rely` (what the coverage check is worth:
a runtime database with all users of the declared files is complete behind its
own cursors, although a process may have died while it imported or indexed), and
`Working` (the invariant of the indexer holds once the checks are passed).
All assume `Orderly`, three conditions that TLC shows to be needed: `OneBatch`
(otherwise the run `batch_fails`), `TimesDiffer` (otherwise the instance
`MCSharedTime`), and that `manifest.json` is not lost alone (otherwise
`MCLostManifest`).
`SnapshotIsValid` has the further invariant `Matching` (row counts and last times
of the files are those of the manifest, and there are no other files) and is
stated for a process that does not die in the flush and for chunks that are not
lost: with either the snapshot rejects itself, as it is meant to (section 6,
torn flush).
`PublishedRefines` is the refinement: what is published implements `UserIndex`.
Its invariants are `PresentOnDisk` (what the storage declares is there) and
`Ahead` (the runtime database holds all published rows).  It is stated for
losses of the runtime file only and for a process that does not die between
`createEmptyRuntime` and the import of `meta.sqlite`: the empty database it
leaves would pass the next process's check as long as no user is published.

`OwesProofs`, for any networks, entries, amounts and page sizes: `TypeCorrect`,
`RowsAlwaysExact`, `FilesAlwaysAgree`, `RefusalKeepsFiles`.  A network fails
early and the files are written late, so `PublishInv` carries the refusal:
whoever writes has seen every network through, and none with a counted failure.
`FilesInv` says that the totals are those of the table in memory and the pages
exported so far a prefix of its sorted rows.  For the rows, `ExactInv` says of
each network how far its loop has come: `PendingOK` (the pending amounts are the
sums over the entries passed), `UsersOK` (V2: the rows are those of the users
passed, but for reads that were swallowed) and `MarketsOK` (V3: the same for the
entries passed).  It needs that the entries are ordered by market and then by
user, as the query returns them, since then a page is an interval of them and
holds the same entries when it is read again.  The sums are partial sums along
the entries (`SumAt`), a recursive function whose existence and additivity are
lemmas (`SumExists`, `SumUnion`); that a finite set of rows has a sorted sequence
is another (`OrderExists`, `SortedLemma`).

`V3PeriodRewardsProofs`, for any finite sets of Comets and users, any tokens,
chain, past and markets list: `TypeCorrect`, `CalculationInvariant`,
`EarnedAlwaysExact`, `ExportAlwaysPaysDebt`. The report and the export are
about sums, and the library folds a function in the order in which `CHOOSE`
takes the elements of a set. `SumTheorems` therefore shows that
the fold exists (on subsets of ever larger cardinality; where an induction is
meant, the proofs take a least counterexample), that any element may be taken
out first (`SumRemove`), and from this that a sum may leave out zeros
(`SumWithin`), rename its elements (`SumRenamed`), be taken by classes
(`SumClasses`) or in two directions (`SumSwap`), and that a sum over blocks
telescopes (`Telescope`). `ChainOK` says of the chain what the calculation relies on:
only what was tracked is paid, and only by a Comet that is configured; what is
claimed grows by what is paid, so that the payments of a range are a difference
of two states (`PaidBetween`); a user who was never active has nothing, so that
those without a date or with one after the boundary may be taken to start from
nothing (`DatesOK`, `AbsentEarned`). `CalcInv` then says that a Comet that is
through agrees with the chain for every user (`Settled`), that one that is left
has no rows (`Progress`), and that every total is the sum of its rows
(`TotalsFit`). Of the export, `GroupAccepted` shows that no check of
`prepareGroup` refuses rows and totals that fit, and `DebtOfRows` that what it
pays is what the selected Comets owe. A lost start changes what was earned but
neither the debt nor the agreement of rows and totals, so
`ExportAlwaysPaysDebt` does not except it.

`V2PeriodRewardsProofs`, for any finite sets of markets and users, any amounts,
speeds, past and scales, every chain of any length and every range:
`CalculationInvariant`, `TypeCorrect`, `EarnedAlwaysExact`,
`HonestRowsAlwaysExact`, `RealChainAlwaysAccepted`, `ExportAlwaysPaysDebt` and,
for `V2CompState`, `PendingAlwaysExact`.

The first half is about the chain.  `StateOK` says of a block that the indexes of
a pool and its users are in order and that a user who was never active in a
market holds nothing there; `Follows` says of two blocks that follow each other
that the ledger is kept: what a user is paid and has accrued after the block is
what was accrued before plus what the block credited (`accrued` and `paid`
against `CreditsOf`); only pools with rewards credit, and only users with a
share; and in a pool whose share no interest has rounded (`Quiet`), the index
is where it would have been had nothing happened in the block, and each user
either is credited up to it (`CreditedIn`) or keeps share and index (`LeftIn`).
Each of the six transactions keeps this (`MintFollows`,
`BorrowFollows`, `ClaimFollows`, ...).  `ChainInv` is this of every pair of
blocks.  Over a range it telescopes (`TelescopeAtLeast`, `TelescopeExact`): what
is owed at the end plus what was credited is at least what was owed at the
start (`EarnedQuiet`), so `EarnedOn` is never negative, and it is zero where the
index did not move, which is why `periodReward` may skip such a market unless
interest has changed the rounding in between (`QuietPool`, `Drifts`).  With
interest the inequality is lost for the borrows of that market and kept for all
others.

The second half is the calculation.  `BoundaryAt` shows that what the service
works out of the state it reads is what the Comptroller would credit, to the
wei, so that the reward of a row (`RewardOf`) is what the pool paid and owes plus
the phantom events.  `CalcInv` then says of a calculation in work that every row
of a market that is through is this reward and every other row is empty
(`RowsInv`), that the totals are the sums over the markets that are through
(`WorkInv`), and of one that is done that the rows add up to what the transfers
prove (`DoneInv`).  For the last the loop of `reduceUserRows` is shown to take
exactly the difference: what it drains from the markets it has passed is the
smaller of the amount and the sum of their rows, by induction over the order in
which rows are drained (`LastOne`, `TakenIs`), so all of it comes out when the
rows cover it (`DrainedIs`).
`RealChainAlwaysAccepted` follows through the two checks for negative amounts.
The reward of a row is what the pool earned and its phantom events, or zero, so
one that is negative was earned on borrows with interest (`NegativeFound`).  For
the other check, what the service finds is at least what was earned in every
market that does not drift (`MarketDrift`); summed over the markets, a user earned
at most what is found and what rounding gave where markets drift (`GainsDrift`),
so a negative claim means that this was more than the user was paid
(`ClaimDrift`).
`ExportAlwaysPaysDebt` combines it with `GroupAccepted`: rows and totals that
fit pass every check of `prepareGroup`.

`PendingAlwaysExact` is about a page.  The number of a call in the flat list is
the number of calls pushed before it (`Number`), which is different for every
call (`NumberGrows`), so the list has every call at its number (`ListAt`).  The
cursor of the k-th user counts, user by user, the same calls (`CursorCounts`, by
`SumClasses`), so `AnswerIs` follows: a user is given the answer to the own call,
whichever calls failed.  The rest is that a page is a one-to-one numbering of
the users (`PageIs`), that with the right index a side pays what is owed
(`SideExact`), and that who holds nothing is owed nothing (`NothingHeld`), which
is what makes the first pass exact.

The theorems assume what the modules name: `ScanAssumption` (a non-empty
request, at least one attempt), `IndexerAssumption` (numbers are numbers),
`ChainAssumption` (no market is listed before the network's start block, no log
of a market before its listing), `TimestampAssumption` (block times do not
decrease), `SnapshotAssumption`, `ExportAssumption`, `RetryAssumption`,
`RangesAssumption`, `WorkflowsAssumption`, `HistoricalAssumption`,
`OwesAssumption`, `RewardsAssumption`, `PastAssumption` (types of the
constants; limits and sizes that are not zero; the mark for "no result" is not
a result; the order of the entries; a valid file to start with; a past in which
only what was tracked was paid, by Comets that were configured; for V2, a past
in which no index was below the initial one, as the Comptroller starts every
index there), `TotalsAssumption` (the mark for "none" is not a record of
totals). TLC evaluates them in every run. The theorems about `Snapshot` name further hypotheses in
their statements, with the reasons given above.

Only model-checked: all liveness properties (`Terminates`, `ReachesHead`,
`EveryNetworkServed`, `EveryCallSettles`, `RunEnds`, `WrapperEnds`), since the
prover has no rule for fairness that it could apply here.  Every safety property
of a run has a theorem.

## 6. Disagreements between code and documents

With a run each:

* **A batch that fails** (`batch_fails`).  Rows stored by the first batch of a
  chunk move the flush watermark past rows that a later run will store with an
  earlier time; those never reach a chunk.
* **Empty storage** (`empty_storage`).  `runtime-db.service.ts:22-24` says that
  a CI run whose snapshot failed to download "fails loudly".  The index command
  catches the refusal and exits with 0 (`index.command.ts:23`), and the empty
  runtime database that `assemble` opened before stays: the next step of the
  job takes it for a valid one and publishes owes of nobody.

With one of the further instances of section 3 each:

* **Shared time** (`MCSharedTime`).  Two blocks that share a timestamp on both
  sides of a run boundary put a row on the watermark, which the strict
  comparison of the flush then skips (`chunks.service.ts:204`).  The passing runs
  of `Snapshot` therefore use strictly increasing times.
* **Lost manifest** (`MCLostManifest`).  `runtime-db.service.ts:343-345` wants a
  snapshot whose `manifest.json` did not arrive not to look empty; the check is
  only reached when `meta.sqlite` is missing too (353).  With `meta.sqlite` there,
  the cursors are imported and no user, and indexing goes on from them.  The
  passing runs therefore never lose the manifest alone.
* **Truncated export** (`MCTruncatedExport`).  `HOWTO-REWARDS.md:251-253` says
  that files are first written under temporary names and that a failure rolls
  back the whole export.  The callback of `stream.end()` is called with the error
  of the last write before the stream emits it, and `writeJsonFile` passes
  `resolve` as callback (`merkl-airdrop-export.service.ts:511`): the truncated
  file is promoted.
* **Between the pushes** (`MCOwesBetweenPushes`).  `update-owes.yml:104-109` says
  that the block owes are read at "has to be one the indexer has already
  covered".  `run-owes-v3.yml` has a concurrency group of its own and no index
  step, and takes ranges and storage as it finds them; started after update pushed
  the ranges and before it pushed the storage, or after an update that was
  cancelled in between, it publishes owes of a block its storage does not reach.
* **Rounding drift** (`MCV2HonestUntouched`).  `v2-period-rewards.service.ts:327-332` says
  that the accounting identity holds to the wei for every honest account and
  that the correction leaves their rows byte-identical.  The market-index
  shortcut of `periodReward` (an unchanged index earned nothing) ignores that the
  stored borrow over the borrow index rounds differently after interest.  The
  difference is then treated as phantom and taken from other rows of an honest
  user.  `EarnedExact` and `HonestRowsExact` except ranges in which some market
  drifts (`Drifts`); `RealChainAccepted` and `ExportPaysDebt` do not.
* **Negative claims** (`MCV2DriftHarmless`).  `HOWTO-REWARDS.md` says of the same
  shortcut that it "prevents harmless integer-rounding drift ... from appearing as
  a negative reward".  When the drift raises what remains, the shortcut leaves it
  out of what was earned, the claim comes out negative, and the calculation is
  refused (`v2-period-rewards.service.ts:370`).  The other error about negative
  amounts (`period-rewards.math.ts:110`) is documented as one: rounding can make
  it happen in a market with interest whose index moved.  `RealChainAccepted` says
  that there is no other way to meet either of them.
* **Lost starts** (`MCV2LostStart`, `MCV3LostStart`).  A failed read of a market's
  reward state at the start boundary is taken for a market without one
  (`v2-period-rewards.service.ts:633`, `v3-period-rewards.service.ts:432`), so what
  was owed before the range counts as earned in it, against the definition of
  earned in `HOWTO-REWARDS.md`.  `EarnedExact` and `HonestRowsExact` except it
  (`lost`); `ExportPaysDebt` does not.

Seen while modelling, without an instance (each can be had from the models by
the property named):

* **Cold start**: in the same way, a second index command finds the empty
  runtime file of a refused one and indexes from scratch without the opt-in.
* **Torn flush**: a chunk is committed before the manifest is saved; if the
  process dies in between, the snapshot rejects itself (`SnapshotValid` with
  death during the flush).
* **Swallowed reads**: `owedForUsers` drops failed chunks and rows without
  telling its caller (`rewards.service.ts:514`), which therefore publishes
  totals that are too low with exit code 0 (`dropped` in `Owes`).
* `HOWTO-REWARDS.md:35-43` has an operator start with `yarn full-index`; in a
  clone without a snapshot the index command refuses and exits with 0, so the
  wrapper says "Done" (`FailQuietly`).
* With and without `--period` the export writes files of the same name.

## 7. Not modelled

Log decoding and address normalisation (an event is about a user or it is
not), delays and back-off times, logging, the conversion of totals to doubles,
the layout of the audit file, Markdown tables, the contract reader, the GitHub
client, configuration and dependency injection: all of these are formatting,
read-only calls or constants, without state that a step could leave wrong.

Abstractions to know of: `Owes` takes the indexed users as given.
`V2PeriodRewards` takes the choice between the two generations of speed getters
to give the speed in force; neither reward module has symbols, decimals or
addresses.  `OwesWorkflows` merges the storage as one file, takes it that nobody
edits `ranges.json` by hand, and leaves out `owes-v2.json`, `REWARDS.md` and the
detailed snapshots, which are pushed the same way, and with them
`run-owes-v2.yml`, `run-owes-md.yml` and `update-market-data.yml`.  `RewardsSession` runs one
command at a time, and a network it has served stays served until the ranges
move.  `Snapshot` does not model several versions of the artifacts repository:
a runtime database that is older than a snapshot pulled later is the one hazard
of the index that no property covers.

## 8. Plan

Done: the modules above, in the order in which the results depend on each
other: index, snapshot, reads, owes, rewards, export, then the workflows and
the operator's session that compose them.  What would come next:

1. Two versions of the artifacts repository in `Snapshot`, composed with the
   pushes of `OwesWorkflows`, whose storage would then be chunks rather than
   cursors.
