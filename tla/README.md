# TLA+ verification of the eSSVI volatility-surface pipeline

This directory holds TLA+ models of the option-data backfill (`src/dataingestion/`) and of
the surface calibration engine (`src/essvi/`), TLC configurations that check them on small
instances, and proofs that TLAPS checks for every value of the constants.
`PROJECT.json` is the index: for each definition the source lines it models, for each run its
properties, for each property a mutation of the code it catches, the hazards, the findings.

Contents

1. The system
2. Modules and how they correspond to the code
3. Runs, bounds and results
4. Fairness
5. Proofs
6. Where code and documentation disagree
7. What is not modelled
8. Plan

---

## 1. The system

Two programs share one database.

**Ingestion** (`dataingestion/`) walks over the expirations of a ticker. For each expiration it
cuts the days on which its options are wanted into chunks (`chunking.py`); for each chunk it
asks Theta Terminal for greeks, open interest, stock bars, rates and contract lists
(`orchestrator.py`, `fetchers.py`), joins the answers (`joins.py`), sorts the rows into clean
and rejected ones (`cleaning.py`, `joins.py`), and writes clean rows, rejected rows and a
watermark in one transaction (`db_writer.py`). A chunk that has a watermark is skipped by
later runs.

**Calibration** (`essvi/`) takes the clean rows of one minute after the other (`runtime.py`,
`loader.py`), fits one slice per expiry in ascending order, each against the last accepted one
(`sequential.py`, `solver.py`), audits the surface (`audit.py`), answers with it, with an
older one or with none, and can store what it fitted (`persistence.py`).

| Component | State it keeps | Operations | Interacts through | What is hard | What makes it correct |
|---|---|---|---|---|---|
| Backfill loop and chunk transaction (`orchestrator.py`, `db_writer.py`) | five tables and a sequence in PostgreSQL; run id, position, batch and totals in memory | start a run, fetch a batch, eight statements of a transaction, roll back, report | shared tables, server locks, the watermark | several processes at once, READ COMMITTED, deadlock of two TRUNCATEs, crash between statements, commit whose answer is lost | no row is lost, mixed up or rewritten; a chunk is whole or absent; a run returns |
| Chunk calendar (`chunking.py`, `run_backfill`) | last days of completed chunks | clip, cut, skip, store, fail | `ingest_progress` between runs | windows that differ from run to run, a growing day, a chunk stored without the days whose contract list failed, boundaries of chunks | a run without failures, and a skip, leave nothing out but what the store of the chunk itself missed |
| Fetch pipeline (`orchestrator.py`, `fetchers.py`, `joins.py`) | three caches, the answers in hand | prefetch, gather, list per day, join, judge | HTTP requests, caches that outlive a chunk | answers in any order, empty answers that mean failure, cached failures, joins by less than the key of a row | an accepted row rests on answers of its own run; failures elsewhere lose nothing; each listed row is stored or filed |
| Cleaning and filters (`cleaning.py`, `joins.py`) | a frame that shrinks, rejected rows, a flag | twelve checks in a fixed order | order of the checks | positional lookups, neighbours that were already removed | every row has one fate and the first code that fits |
| Minute loop, calibration, audit (`runtime.py`, `sequential.py`, `solver.py`, `audit.py`) | `RuntimeState`: last surface, clock, flags; the slices of the minute | skip, load, fit, defer, copy, audit, publish, re-use, kill | `RuntimeState` from minute to minute; optional prior | deferred slices, NaN results, exceptions in the middle, re-use across minutes, restart | what is emitted is ordered, truthfully flagged, never from another session |
| Surface tables (`persistence.py`) | two tables, one open transaction per connection | upsert slices, commit, report, read the prior | SQLite or PostgreSQL | nothing rolls back; minutes calibrated again; NaN is NULL on one database | what a call returned for stays stored; a warm start gets the latest valid minute |
| Theta client, retry, semaphores (`theta_client.py`, `retry.py`, the groups of `run_backfill`) | permits and who waits for them, the lock and next slot of the throttle, attempts of each fetch | acquire, throttle, ask, back off, retry, give up, cancel | every fetch of the run shares them | attempts inside attempts, sleepers that hold a permit or the lock, exceptions that leave fetches behind | permits are neither lost nor made up, requests keep their distance, every group is answered once, the run returns |
| Bounded cache (`cache.py`) | entries, access order, times | get, set, evict | fetches that look up, ask and set, with other fetches in between | `set` does not see to a key that is already listed; an empty order list | the order lists each held key once; never over capacity |
| Ingestion logger and pool (`logging.py`, `db.py`) | a list of entries, one pool | append, flush | nothing: no caller in the repository | entries appended while a flush awaits | not part of the program's behaviour |
| Market mathematics, eSSVI numerics, configuration, verification, experiments | none, or none that outlives a call | formulas, reports | - | floating point | out of reach here, see section 7 |

---

## 2. Modules and how they correspond to the code

```
ChunkLedger  <--implements--  Backfill        (the chunk as a transaction)
                              Coverage        (the chunk as days of a calendar)
ChunkLedger  <--implements--  FetchPipeline   (the chunk as answers to requests)
                              ChainFilter     (the chunk as rows under checks)
Gather       <--implements--  Requests        (the chunk as fetches of one event loop)
                              BoundedCache    (extended by Requests: its three caches)
SurfaceFeed  <--implements--  SurfaceRuntime  (the minute as slices)
                              Persistence     (the minute as stored rows)
```

The five views of a chunk fit together by what each leaves as one step. `Backfill` takes a
batch of clean and rejected rows from anywhere; `FetchPipeline` says which batches the
requests produce and takes the transaction as one step; its constant `Sound` (rows whose
quotes pass) is what `ChainFilter` computes; `Requests` says when and how often each request is
made and that its answers come once and to the group that asked, which `FetchPipeline` takes as
given (`Gather` is what it relies on); `Coverage` takes storing a chunk as one step and
asks which days the chunks cover. Each component `X` has `MCX.tla`, which gives its constants
values for TLC, `MCX_<run>.cfg`, and `XProofs.tla`. (`BoundedCache` has no state of its own and is checked by
`MCRequests.tla`.) Every component with state has exactly one type
invariant, `TypeOK`; definitions that begin with "Mutant" in their comment are variations of
the code which no specification uses: they document what each property would catch.

### Backfill and ChunkLedger

*State.* `surface`, `staging`, `quarantine`, `progress` and `lastRun` are the committed tables
and `ingest_run_id_seq`; `pc`, `run`, `pos`, `clean`, `quar`, `totalClean`, `errors` belong to a
process; `staged` and `loaded` are what its open transaction wrote; `owner` is history (who drew
a run id). A surface row is the run id it is stamped with, a quarantine row how often its key
was filed, a watermark the chunk, the run and the rows that `rows_loaded` counts. A batch is any set of
clean and any set of rejected rows of the chunk, and the two may overlap, because the joins make copies of
a row (see `FetchPipeline`); copies of one key in one batch count once.

*Actions*, one per statement: `StartRun`, `FetchBatch`/`FetchFails`/`FetchEmpty`/`FetchRaises`,
`CheckWatermark` (`_process_chunk` :580-592), `WriteStaging`, `LoadFromStaging`, `TruncateStaging`, `WriteQuarantine`, `AdvanceWatermark`, `Commit`;
`CommitUnacknowledged` takes effect while the program sees an error; `StatementFails`,
`DeadlockVictim` and `Crash` roll back. Locks are modelled where they bite: COPY takes ROW
EXCLUSIVE on the staging table and TRUNCATE takes ACCESS EXCLUSIVE, an INSERT waits for an
open transaction that holds the same key, and the deadlock detector breaks a cycle.

*Abstract specification.* In `ChunkLedger` a chunk is completed in one atomic step, `Store` of its clean
rows together with `File` of its rejected ones, and nothing else is ever visible. `ImplementsLedger` says that `Backfill` implements it, the four tables
mapping to themselves.

*Progress.* `StepsLeft(p)` counts the statements a run has left at most; `RunsAdvance` says that each
of its steps lowers it, a failed statement too, and `NobodyIsStuck` that a process at work can go on or
waits for one that can (a cycle of two waits counts as going on, because the detector ends it).

### Coverage

One expiration, days as numbers, bars in a day. `StartRun(s)` clips `[First, Last]` (the days on
which the expiration is wanted) to `[s, today - Lag]`; `ChunkEnd` and `NextChunk` are
`_month_chunks`; `SkipChunk` is the look at the watermark, `StoreChunk`, `EmptyChunk` and
`FailChunk` the outcomes of `_process_chunk`. The day and its bars go on during a run.

`StoreChunk(failed)` marks the chunk and loads what is quoted by then, without the days in `failed`: those
whose contract list was answered with an error. Their rows find no contract in the merge
(`orchestrator.py:361-371`, :515-535), the others are stored, and the watermark (:600) covers
them all. Nor does it load what is quoted later on a day that is not over, as the last day of a run
with the default end date. Both are kept as history, `unlisted` and `late`, so that the properties can tell
what the store of a chunk misses itself, which the code as it stands does and section 6 says, from what
would be lost by the calendar: a skip for the mark of another chunk, a day between two chunks, a failed
chunk that is remembered. `Accounted` is all that is loaded or in one of the two. `due` is
history as well: what had been quoted in the window when the run began.

### FetchPipeline

`rates`, `ohlc` and `lists` are the caches; `greeks`, `oi`, `bars` the three gathered requests,
which return in any order with rows, with nothing or with an exception; `listed` the contract
lists, one request per day; `entries` what was stored. `Leave` drops what a chunk holds.
`FetchError`, `NoData`, `NoSurvivors`, `StoreFails`, `StoreChunk` are the exits of
`_process_chunk`. Entries may leave a cache at any time, so the model covers every capacity and
age. `got` and `known` are history: the requests that
were really answered, at the time and as recorded with the entry.

Two joins choose by less than the key of a row, and the model keeps what follows from that. A contract
list is kept as strikes and rights (`fetchers.py:356`), so `ListAnswer(d)` forgets the expirations
of `Listed[d]`, and a contract of another expiration lets a row through `Survivors`. An answer about open
interest has the reports of every contract of the expiration, of which the fetcher keeps date and number
(`fetchers.py:295-298`), and the merge is by date (`joins.py:82-87`): `ReportsFor` is all reports of
the expiration on the session before, each of which makes a copy of the row. `Verdicts(row)` is the set of
what the copies get, in the order of the checks: one code if the row fails before the interest is looked at or
none is known, and otherwise one verdict for each report, so that one key can be both stored and
filed as `LOW_OI`.

*Abstract specification.* `ChunkLedger` again, with another mapping: all runs of the model are run 1,
`progress` lists the entries, a row is in `surface` if an entry has it among its
clean ones, and filed once if an entry has a code for it. `ImplementsLedger` therefore says that the answers,
in whatever order and from whatever cache, can only ever complete whole chunks, with rows of their own.
It needs `ChunksAreApart`: two chunks of one expiration share no
session day, which is what the plan of one start date is (`NextChunk` of `Coverage`: each chunk begins the day after the
last one ends, `chunking.py`). It is proved (`LedgerImplemented`) and not run: TLC would evaluate the sets of the
ledger at each step.

`Frames` says what the greeks frame looks like when it meets the bars: `"placeholder"`, with
an empty `spot_close` column, is what the fetcher builds (`fetchers.py:132`); `"bare"` is what
the unit tests of the joins build. Under the first, every row is rejected (section 6), and
nothing else could be learned; `pipeline_safety` therefore checks both, and the two runs on the
code as it stands use the first alone.

### Requests and Gather

*State.* `stage` and `pos` say which `await` of `run_backfill` the run is in, for which chunk;
`beats` counts heartbeats that failed. Each fetch has a `pc` (`"start"`; `"queued"` for a permit;
`"slot"` with a permit, before the throttle; `"line"` for the lock of the throttle; `"sleep"` in it; `"asked"`;
`"pause"` between two attempts of the client; `"done"`), the attempts of the client (`tries`) and of
`fetch_with_retry` (`attempts`), and its `answer`. `free` and `queue` are the two semaphores, `line`, `due` and
`wake` the throttle, `cache` the three caches. `since` is history: the time since the last request.

*Actions.* `LookUp`, `Acquire`; `JoinLine`, `SleepUntilDue`, `SendInTurn` (`_throttle`);
`Respond`, `Refused`, `Breaks`, `TryAgain`, `GiveUp` (the ways an attempt of `get` ends, and what the
wrapper around it then does); `Expire` (time to live of an entry); `Tick`; `Cancel` (what
`asyncio.run` does to the fetches that an exception left behind). The run itself has
`HeartbeatOK`, `HeartbeatFails` and one action for each group that is complete: `ExpirationsIn`,
`RatesIn`, `PrefetchIn`, `GatherIn`, `ListsIn`, and `ListRaises`: the gather of the contract lists is the
only one whose first exception ends the run while other fetches go on. Between two of these
steps anything else may run, as between two awaits. Sleeps of a back-off have no length, since
nothing compares them with each other; the throttle does have a clock.

*Abstract specification.* `Gather`: the next group is asked for only when nothing of the last one is open,
each fetch of a group is answered once, and after the run has stopped nobody asks any more. The
refinement maps `open` to the fetches that are not done.

*Progress.* `FetchesAdvance` says that a fetch only comes closer to its end, by attempts of the wrapper, then
attempts of the client, then the way through one attempt; `RunAdvances` the same of the run, by
chunks and stages; `NobodyIsStuck` that who waits for a permit or for the lock of the throttle waits for a
fetch that can go on.

### BoundedCache

A cache is a record of the keys held and of the list of keys in order of use; `Evict`, `Touch` and `Put`
are `get` and `set` as functions from one cache to the next, which is what they are on an event
loop: the lock around them is never contended, because nothing inside awaits. `Put` evicts in a loop,
hence `Freed` and `Evictions`, the number of rounds. `Sound` is what the code takes for granted.

### ChainFilter

A frame is a set of rows; a row carries the set of single-row checks it fails, whether its spread
is wide, and a strike and a rank of its mid price for the monotonicity check. `Checks` is the
order of the code: the orchestrator's band, `clean_option_chain`, `apply_post_join_filters`.
Three checks have actions of their own: `RejectSpreads` (two tiers), `RejectIntrinsic` (spares
flagged rows, and may raise: see section 6) and `RejectKinks` (compares with the row before,
also if that one is rejected too). `CleanRowsAreSpecified` gives the result without the order
of the steps.

### SurfaceRuntime and SurfaceFeed

*State.* `params`, `calTime`, `passed`, `stale`, `cold` are the fields of `RuntimeState` that
decide something; `now` and `out` the minute asked for and its answer; `pc`, `todo`, `thin`,
`deferred`, `results`, `locked` the locals of `calibrate_one_minute`. A slice is its level of
total variance (0 is NaN), whether the other tests of the audit pass on it, the solver's
verdict, and the minute of the quotes it was fitted to.

*Actions.* `SkipMinute`, `LoadRaises`, `TooFewSlices`, `LoadMinute` are the exits of
`calibrate_minute` before the fit; `DeferSlice`, `FitSlice`, `CopySlice` the loop in ascending
order; `FitDeferred`, `CopyDeferred` the second loop; `SolverRaises` is the
`TypeError` of the solver's check against a locked slice (section 6); `PublishSurface`, `ReusePrior`, `KillMinute` the three ends;
`Restart` a new process with a fresh `RuntimeState`. The solver returns any slice that the
corridor allows. An exception anywhere else in the minute leaves the state as `LoadRaises` does.

Three simplifications. The minutes of one process are asked for in ascending order (`Ask`): `calibrate_batch`
sorts its timestamps, while `calibrate_minute` by itself takes any, and with an earlier one the elapsed time is
negative and counts as not stale. The audit's `THETA_MONOTONICITY_EPS` is 0, so that
"non-decreasing" in `EmittedSurfaceIsOrdered` is up to that tolerance in the code. And the model gives each
slice its expiry and its quotes, while `loader.py:300` returns neither `dte` nor `implied_vol`, which
`sequential.py:82-95` and `solver.py:65` read.

`PairCheck` says what the solver's own calendar check against a locked slice does. In the code
as it stands it raises (section 6), so no minute of the program as it is has two accepted slices. `surface_safety`
has both outcomes: the one of the code, and the return that its tests expect, so that the rest of the loop is
checked as well. `AcceptedSlicesAscend` and `AcceptedDeferredSliceIsFlat` say something under the second only.

*Abstract specification.* `SurfaceFeed` is what a consumer may rely on: a fresh audited surface,
or the held one, flagged, while no gap between answers exceeds `Patience`, or none. The
refinement maps `origin`, `clock` and `flagged` to the minute of the held surface, `calTime`
and the flag.

### Persistence

`stored` is `essvi_surface_params` as committed, `view` the same as the connection sees it,
`audits` the audit table, `calls` the history of calls of `insert_minute_params`. `Begin`,
`PutSlice`, `Commit` are its statements; `PutRaises`, `CommitRaises`, `CommitUnanswered` their
failures; `InsertAudit`, `AuditRaises` and `InitSchema` the other transactions, which commit
what a failed call left behind; `Reconnect` the death of process or connection. `Fail` is the
difference between the two databases: SQLite goes on, PostgreSQL refuses everything until the
transaction is rolled back, which nothing does. `LoadPrior` is `load_prior_minute_params` with
its two queries. Each `c` in `calls` stands for all the parameters it brought.

---

## 3. Runs, bounds and results

| Run | Instance | States | Result |
|---|---|---|---|
| `backfill_safety` | 2 processes, 3 runs, chunks c1 (2 rows, both processes) and c2 (1 row) | 2,111,175 | all properties hold |
| `backfill_liveness` | the same, 2 runs | 283,611 | `RunsReturn` and `ImplementsLedger` hold |
| `backfill_once` | the same, 3 runs | | violated: finding 1 |
| `coverage_safety` | days 0-12, wanted 2-10, chunks of 3 days, 2 bars a day, starts 3 and 6, end today (the default) | 1,039,183 | all hold |
| `coverage_starts` | the same, starts 2 and 4 | | violated: finding 2 |
| `pipeline_safety` | 2 expirations, 3 chunks in 2 windows, 2 contracts, 4 sessions, 1 run | 993,322 | all hold |
| `pipeline_failures`, `pipeline_spot` | the same, frames as the fetcher builds them | | violated: findings 3, 4 |
| `chain_safety` | every frame of 4 rows in 2 chains over 6 mixtures of faults | 845,964 | all hold |
| `surface_safety` | 3 expiries, 2 levels of variance, 5 minutes, a day of 4 | 6,424,472 | all hold |
| `persistence_safety` | 2 minutes, 2 expiries, 3 calls, 7 kinds of surface, both databases | 1,658,876 | all hold |
| `requests_safety` | 2 chunks with one window, 1 rate symbol, 3 days, 1 permit a tier, caches of 2, 2 attempts and 1 retry | 490,952 | all hold, `AllReturn` among them |

Why the bounds are enough, and what each run asks:

* **backfill_safety.** Two processes are the smallest number that races, waits and deadlocks;
  a third run lets one of them restart while the other still works. They race for both rows of
  c1, while c2 lets different chunks meet in the shared staging table. The rows of c1 are
  interchangeable, hence the symmetry set, which is sound for these properties. Asked: no row a
  watermark counts is missing (`WatermarkImpliesLoaded`), a stored row belongs to a chunk its
  run completed (`StampedRowsHaveWatermark`), transactions do not mix in staging
  (`StagingIsolated`), a process completes a chunk once across its restarts
  (`RestartIsIdempotent`), no rejected copy outlives its transaction (`QuarantineExplained`), and every step of
  a run brings its end nearer (`RunsAdvance`). A batch may hold a row clean and rejected.
* **backfill_liveness.** Two runs are enough for two processes to wait for each other. The run also asks that the
  transactions implement `ChunkLedger` (`ImplementsLedger`); the action property makes TLC evaluate the sets of the
  ledger at each step, which is why it is asked of the smaller instance, and proved for all.
* **coverage_safety.** Nine wanted days in chunks of three, trading days with holes, and a
  calendar that runs two days past the window: runs begin before, within and after it, chunks
  are cut, late runs meet the marks of clipped ones, and a chunk of one holiday is empty. The first chunk of the
  grid has two trading days, so that the contract list of either can fail while the other is stored. The two starts
  are a whole chunk apart: runs of either find the marks of the other, and the boundaries agree
  (`AlignedStarts`). Runs end today, so that each bar of a running day is quoted before or after
  its chunk is stored. Asked: a run without failures leaves out nothing that was due (`ClearRunLeavesNoGap`), and a skip
  nothing that will ever be quoted (`SkippedChunkIsAccounted`), beyond what the store of that chunk missed itself;
  a chunk is not remembered for a day that runs have not reached, and what it misses for being early is of the very
  day it is remembered for (`MarksAreReached`), never of a day in its middle. `coverage_starts` takes two starts that
  do not agree.
* **pipeline_safety.** Two expirations that share a window let cached answers pass from chunk to
  chunk; a window of its own, a day without a session, a contract delisted in between, one listed for the other
  expiration alone and a rejected quote make the keys of the caches, the joins and the verdicts matter. The open interest of
  the day before lies on both sides of the limit, above it, below it, or in another chunk. Asked: a row
  is accepted exactly if its quotes pass, its strike and right were listed on its day, and rate, bars and prior open interest
  came from answers of its run (`CleanRowsAreTheBackedOnes`); and of a completed chunk each row listed on a day whose
  list is known is stored or filed under one code, and both only where the interest joined to it lies on both
  sides of the limit (`CompletedChunkAccountsForRows`).
* **chain_safety.** Faults are chosen so that each kind of check meets each other: one before the
  intrinsic check, which shifts positions; two on one row, for the order; the flag; a second
  chain, for the grouping; mids in every relation, for monotonicity.
* **surface_safety.** Three expiries, of which the shortest may be deferred (`Imminent = 1`, as in the
  code), before two that may be locked, or alone (`MinSlices = 1`; 5 in the code, but the number
  matters to no step, except that only with 1 a deferred slice may find nothing longer); five
  minutes with a day of four cross a night after three that trade, enough for a surface to be
  repeated twice; `Patience = 1` (5 in the code), and two levels of variance besides NaN let every
  comparison of two slices come out either way.
* **persistence_safety.** Three calls for two minutes are the fewest with a minute calibrated
  again and another minute, each failing, in between; two expiries allow a surface that shrinks.

* **requests_safety.** One permit a tier makes fetches queue; bars and rates share a tier, greeks, open
  interest and lists the other. Two days or a third one, with caches of two, make hits, misses
  and evictions of lists; the second chunk finds rates and bars of the first. Two attempts of the
  client inside one retry are the fewest that nest; two heartbeats the fewest of which one fails and the
  run goes on; `Interval = 1` makes the second fetch wait for the throttle. The code has 4 and 10
  permits, 3 attempts and 5 heartbeats: larger numbers add rounds, not kinds of steps, and the
  proofs hold for all.

`MaxRuns`, `MaxMinute`, `MaxTheta`, `MaxCalls`, `MaxDay` and `Bars` are bounds on counters. Where a
counter reaches its bound the model may stop where the program would go on; `Backfill`,
`FetchPipeline`, `ChainFilter` and `Requests` have explicit stuttering ends for that (`AllFinished`,
`AllRunsDone`, `Cleaned`, `Returned`), and the others can always restart or reconnect, so deadlock is checked
in every run.

---

## 4. Fairness

`backfill_liveness` and `requests_safety` need it.

*Backfill.* `Fairness` is weak fairness of `Fetch(p)` and of
`Statement(p)` for every process: a run is one coroutine on one event loop, so its next step is
always eventually taken; the server answers a statement that waits for nobody; and its detector
breaks a cycle of waiting transactions. Nothing is assumed of failures, crashes or of anybody
starting a run: `Failure`, `Crash` and `StartRun` are outside it. `RunsReturn` then says that
every run that is at work finishes or dies; the risk it excludes is two processes waiting for each
other's staging lock for ever.

`Fetch` being fair includes that every request ends. That is what `AllReturn` of `Requests` says.

*Requests.* `Fairness` is weak fairness of `FetchStep(f)` for every fetch, of `RunStep` and of `Tick`: the
event loop resumes every coroutine that can go on, each attempt ends by the timeout of the
session at the latest (`Refused`), and time passes. That a queued fetch is ever served, that attempts end
and that nobody sleeps in the throttle for ever is not assumed but follows. `Expire` and `Cancel` are
outside it; `Cancel` too is not needed, because what is left behind ends by itself.

---

## 5. Proofs

`tlapm` proves these for every value of the constants that meets the named assumptions. In each
module the pattern is the same: an inductive invariant `IInv` of named parts (at the end of the
component's module), one lemma per action, `Invariance == Spec => []IInv`, and a theorem per
property.

| Module | Theorems | Assumptions |
|---|---|---|
| `BackfillProofs` | `TypeCorrect`, `NoRowLost`, `NoForeignRow`, `StagingKeptApart`, `RestartsComplete`, `LedgerImplemented`, `RowsKept`, `QuarantineIsExplained`, `ReportsAccount`; progress: `NobodyStuck`, `RunsAlwaysAdvance`, `RunsAreBounded` | any processes, chunks, plans; finitely many rows |
| `CoverageProofs` | `TypeCorrect`, `Reached`; `NoGap` and `SkipIsSafe` if the starts lie on one grid (`AlignedStarts(w)`), which `OneStartIsAligned` and `EarlyStartsAreAligned` show of one start date and of any start dates up to the first wanted day | any window, chunk size, calendar, end dates of any lag |
| `FetchPipelineProofs` | `TypeCorrect`, `AcceptedIffBacked`, `RowsAccounted`, `LedgerImplemented` | any sessions, listings and reports, both kinds of frames, any plan whose chunks do not overlap (`ChunksAreApart`) |
| `ChainFilterProofs` | `TypeCorrect`, `OneFate`, `Specified`, `FirstFailure` | any set of frames |
| `SurfaceRuntimeProofs` | `TypeCorrect`, `OrderedSurfaces`, `FlagsTellTheTruth`, `ReuseEndsWithSession`, `AcceptedAscend`, `DeferredIsFlat`, `ProvenanceKept`, `ImplementsSurfaceFeed`; progress: `SettledOnce`, `AlwaysGoesOn` | `SessionAssumption`: the market is closed for longer than `Patience`; at least one level of variance |
| `PersistenceProofs` | `TypeCorrect`, `ReturnedAreStored`, `SettledIsOne`, `PriorIsLatest`, `OnlyNewer` | any expiries, surfaces, number of calls |
| `RequestsProofs` | `TypeCorrect`, `PermitsCorrect`, `CachesCorrect`, `SpacedCorrect`, `RefinesGather`; progress: `NobodyStuck`, `FetchesOnlyAdvance`, `RunOnlyAdvances` | `RequestsAssumption`: finitely many symbols and days, at least one permit and one attempt; `CacheAssumption` |
| `BoundedCacheProofs` | `EmptySound`, `EvictSound`, `TouchSound`, `PutSound`, `PutEvictsOldest` (with `EvictionsEnough`: the loop of `set` stops) | `CacheAssumption`: room for one entry |

Why the invariants must be stronger than the properties:

* **Backfill.** That a watermark implies stored rows hangs on `HoldInv`: from its INSERT to its
  COMMIT a transaction holds exactly the clean rows that nobody stored. It survives the step of
  another process because that one would have to store one of the same keys, and it waits
  (`StagingIsolated`: two transactions hold different rows). `CheckedInv` carries the re-check of
  the watermark to the commit, `FreshInv` and `RunInv` that run ids are never shared.
  The refinement follows: `Commit` and `CommitUnacknowledged` are `Store` and `File`, all else stutters.
  The two properties that count, `QuarantineExplained` and `ReportAccountsForRows`, are invariant only
  together and only over finite sets: `CountInv`. A commit adds one watermark and the rows it
  counts, which are new because `HoldInv` says that nobody stored them, so the cardinalities
  add up; a rejected key is filed at most once by it. `ReportAccountsForRows` states what the `total_clean_rows` of a
  run is good for: an upper bound of the rows it stored, and without errors the sum of its `rows_loaded`. It is not
  the number of stored rows that the docstring promises (section 6), so it is a theorem about the code and no run.
  `NobodyStuck` rests on the shape of the waits. COPY waits only for a transaction past its TRUNCATE, which waits
  for nobody; an INSERT that waits for keys and a TRUNCATE that waits for the lock of that INSERT are
  a cycle, which the detector breaks; and whoever a TRUNCATE waits for otherwise can go on, because nobody
  else can have truncated while both hold the lock. `RunsAreBounded` gives the bound
  of eight statements a chunk.
* **Coverage.** `OnGrid`: starts that lie on one grid put the chunks of all runs on it, and chunks of one
  grid that share a day are the same chunk (`GridChunksAreApart`), so a last day
  identifies a whole chunk, and a running day too, since whatever comes of it later is of the chunk that is marked for
  it. `MarkInv` says that everything of that chunk is `Accounted`, `LoopInv`
  carries it along the run, and `WindowInv` and `MarksAreReached` keep the marks among the days that runs have reached, whatever
  the starts. That `AlignedStarts` cannot be dropped is finding 2.
* **FetchPipeline.** `CacheInv`: what a cache holds is what its own request was answered with;
  `HandInv` the same for the answers of the chunk in hand. Entries are then right when made, and
  never change. `EntryInv` keeps verdicts to the rows of their chunk; with `ChunksAreApart` a new
  entry then touches only rows that no earlier entry has, which is what the
  ledger asks of a completed chunk.
* **ChainFilter.** `SplitInv`: after i checks the frame is split into the rows that pass the first
  i and the ones filed; the belly flags are those of the fifth check. Two checks are
  safety nets: the DTE band of the cleaning and the test of the mid price find nothing that the
  orchestrator's band and the test for quotes have left.
* **SurfaceRuntime.** `LockInv` bounds every accepted slice of the minute by the locked one,
  `OrderInv` gives the order of all accepted ones, `ClockInv` and `HeldInv` tie the clock to the
  held surface and its session, `FittedInv` gives the provenance. `SettledOnce` says that each step of
  the two loops settles one expiry or puts it off for good, `AlwaysGoesOn` that the loop always has a
  next step, since a slice that is reached can be put off, copied or reported as unsolved.
* **Persistence.** `Own`: a row comes from a call for its minute that has this expiry. `Written`:
  the latest call for a minute has written what it got to, in the committed table if it
  returned, and in the connection's view if it is open. `Ahead`: the view is never older than the table, so
  what a commit writes is newer than what it replaces (`OnlyNewer`).

* **Requests.** `QueueInv`: a queue lists fetches of its tier that wait, each once.
  `PermitsAccounted` counts the holders, and says that nobody waits for a free permit; it is preserved because `Return` hands a permit to one fetch of the
  same tier or counts it as free. `LineInv`: the first in line, and nobody else, sleeps in the throttle.
  `ClockInv` ties `since` to `due` and `wake`, which gives the spacing. `CacheInv`: the fetches of a
  group have different keys, so the key that one of them missed is still missing when it sets it.
  `TriesInv` and `StageInv` keep the counters in their ranges. `NobodyStuck` follows from `PermitsAccounted`
  (a queued fetch means that all permits of its tier are held), `QueueInv` and `LineInv`: a holder is on its way, or
  in line behind the sleeper. `FetchesOnlyAdvance` compares attempts, tries and place of a fetch
  lexicographically, `RunOnlyAdvances` chunk and stage.

Only model-checked: `RunsReturn` and `AllReturn` (liveness under fairness and ENABLED are out of the
prover's reach). What they rest on besides fairness is proved: a measure that each step of a run or of a
fetch lowers and nobody else raises (`RunsAlwaysAdvance`, `FetchesOnlyAdvance`, `RunOnlyAdvances`), and that
somebody can always go on (`NobodyStuck` of both modules). What is left to TLC is that a step that is
possible is taken. `NobodyIsStuck` (both modules), `FetchesAdvance`, `RunAdvances`, `SlicesSettleOnce`,
`MinuteGoesOn`, `RowsOnlyGetNewer`, `RowsNeverRewritten`, `ReportAccountsForRows` and `ImplementsLedger` of
`FetchPipeline` are stated by a theorem and by no run.
No module uses a recursive operator; statements by induction over data, such
as what `_month_chunks` returns for every window as a list, are stated on the steps of the loop
instead.

---

## 6. Where code and documentation disagree

Shown by a run:

1. **A chunk can be completed twice** (`backfill_once`). `orchestrator.py:432-434` promises
   exactly-once, :604 waits for a unique violation. The key of the watermark includes the run id,
   so it never comes, and two processes file the rejected rows twice. Clean rows are safe.
2. **A second start date leaves gaps** (`coverage_starts`). Watermarks hold last days only, while
   the first day of a chunk depends on the start of the run.
3. **A failed request is no fetch error** (`pipeline_failures`). The client answers a final failure
   with a status, the fetchers make it an empty frame, the chunk is completed without the data.
4. **No row has a spot price** (`pipeline_spot`). Both sides of the merge have a `spot_close`
   column (`fetchers.py:132`, `joins.py:37-40`).

Read in the code, without a run of their own:

* A minute with a locked slice raises: `solver.py:339` calls `check_calendar_pasquazzi` with two dicts,
  `constraints.py:416` takes six numbers, and nobody up to `calibrate_minute` catches the `TypeError`.
  `test_solver.py:152-157` expects a result of such a call, `test_sequential.py:184` passes two dicts
  as well. `SolverRaises` is this exception.
* The default end date is today (`orchestrator.py:642`), so a chunk is remembered as complete
  while its last day still grows, and the rest of the day is never loaded: `late` in `Coverage`.
* A contract list that fails with a status drops the rows of its day (`orchestrator.py:364-370`, :515-535); if other days
  of the chunk have rows, the watermark covers that day too, and it is never loaded: `unlisted` in `Coverage`. The run
  `pipeline_failures` shows such an entry.
* The docstring of `_process_chunk` (`orchestrator.py:454`) has `clean_rows` as "Number of rows successfully written to
  the final table". A chunk that was rolled back returns its rows as well (:619), which `run_backfill` adds to its
  total (:772); rows that `ON CONFLICT DO NOTHING` left alone are counted (`db_writer.py:287`), and so are copies of one key.
* Open interest is per contract and per day (`dataingestion.md:161`), but the fetcher keeps date and number
  (`fetchers.py:295-298`) and the merge is by date (`joins.py:82-87`): a row is repeated once for each contract of its
  expiration, with that one's interest, and can be stored and filed as `LOW_OI` at once (`ReportsFor`, `Verdicts`).
* Contract lists are kept without expirations (`fetchers.py:356`), so "contracts that actually existed on that date"
  (`orchestrator.py:341`, rule 7 at `dataingestion.md:386`) includes every strike and right that any
  expiration had (`ListAnswer`).
* `dataingestion.md:387` has open interest of the prior session joined to every day; the request covers
  the days of the chunk only, so the first session of every chunk is rejected for low open
  interest. `Prior` and `Verdicts` model this.
* `cleaning.py:170` indexes an array of the filtered frame with labels of the fetched one; after
  rejected rows it names another row's value, or raises `IndexError` and ends the run
  (`RejectIntrinsic`).
* The monotonicity check compares with the row before even if that row is rejected as well
  (`joins.py:270-277`; `dataingestion.md:160` reads as if the clean rows were monotone), and the open-interest
  check comes before it, not after.
* Re-use moves `last_calibration_time` (`runtime.py:253`) though `runtime.py:172` calls it the
  time since the last *successful* calibration: within a session a surface can be repeated without
  end. `SurfaceFeed!Repeat` states what holds instead: the gap between answers is bounded, and
  `ReuseStaysInSession`.
* `_parse_ts` (`persistence.py:245`) passes `tz=` to pandas next to a datetime that has a zone: on
  PostgreSQL the prior is never read (`LoadPriorRaises`).
* `insert_minute_params` neither deletes nor rolls back, so a stored minute can mix two
  calibrations; `SettledMinuteIsOneCalibration` states when it does not.
* `persistence.py:150` declares `is_valid BOOLEAN NOT NULL DEFAULT 1` on PostgreSQL, which refuses an integer as the
  default of a boolean. The model takes the table as made.
* `db_writer.py:262` and :321 call `conn.copy_from(..., query=...)`, which is no method of an asyncpg connection. The
  model takes these statements as the COPY they spell out.
* On a PostgreSQL without TimescaleDB, `_try_create_hypertable` rolls the new tables back before
  their indexes are made.
* `parse.py:14-25`: a body of several JSON lines begins with a brace, so it is never read as lines.
* `loader.py:300` drops `dte` and `dte_calendar`, which `sequential.py:82-96` needs to part the slices, and `implied_vol`,
  which `solver.py:65` reads.
* `calibrate_minute` takes timestamps in any order; with an earlier one than the last the elapsed time is negative and
  the surface counts as not stale (`runtime.py:164-178`).
* `orchestrator.py:645` awaits `init_schema()` without its pool.
* `dataingestion.md:589-591` and `retry.py:67-69` say that permits are released during back-off. That is so
  for the sleep of `fetch_with_retry`, but the client's own sleeps between its three attempts, and
  the throttle, hold one (`"pause"`, `"sleep"` are in `Inside`).
* The client answers a status instead of raising for every failure that `fetch_with_retry` would retry, so
  its retries are reached by exceptions of the socket only (`Breaks(f, TRUE)`).
* The contract lists are gathered without `return_exceptions`: one that raises ends the whole run,
  while the same exception of greeks only costs the chunk; the others go on after the run has failed,
  against a closed session (`ListRaises`, `Send`).
* `BoundedCache.set` of a key it holds lists the key twice, and with a size of 0 it raises `IndexError`.
  `CachesSound` shows that this program never does the first.
* `async_validate_theta_port` calls `heartbeat`, which `fetchers.py` does not import; the `NameError` is
  caught and the validation always fails.
* `compute_business_T` (`math.py:403`) takes the last prefix of the whole schedule for an expiration
  that is no trading day, so the sessions counted may go on past it.
* `src/dataingestion/README.md` documents commands and modules (`universe_cli`, `theta_limiter`) that
  this repository does not have.

---

## 7. What is not modelled

* `math.py`, `dividends.py`, `anchors.py` of ingestion, and `constraints.py` (beyond the signature
  that `SolverRaises` needs), `objective.py`, `regularize.py`, `anchor.py`, `surface.py` of essvi:
  floating-point formulas and an optimiser. Their outcomes are nondeterministic choices here.
* `verify.py`, `verify_phase3.py`, `scripts/`, `prime_intellect_experiment/`, `agentic_campaign/`:
  offline reports and experiments beside the system.
* `core_engine/shared/config.py`, `constants.py`, `calibration_config.py`, `essvi/config.py`: values,
  which appear as CONSTANTS.
* Of `Backfill`: how many copies of one key a batch has, since storing ignores them and filing counts a key once per
  batch. Of `Persistence`: a second connection that writes; the others only read. `PriorIsTheLatestValidMinute` says
  something on SQLite alone, because on PostgreSQL the read raises; and `SettledMinuteIsOneCalibration` and it leave
  out minutes with a failed call or a recalibration with fewer expiries, which are mixtures in the code (section 6).
* `IngestionLogger` (`logging.py`, `db.py`): nothing creates one. Its flush awaits the database
  and then clears the list, so an entry appended in between would be lost; a program that used it
  would need a model of it.
* Of the modelled parts: the length of back-off sleeps, `clear` and `stats` of the cache, the contents of rows, the formulas of the
  joins, the tallies that only summaries read, the readers of stored history, and the time a
  statement takes.

---

## 8. Plan

The order of work was the order of section 2: the chunk as a transaction and the minute as slices
first, then what feeds them, then the requests under it all. What is left:

1. A composition of `FetchPipeline` and `ChainFilter` by `Sound`, and of `Backfill` and `Coverage` by
   the watermark. Each shares one set with the other now, and neither knows the other's state.
2. `FetchPipeline` on the caches of `Requests` in place of an eviction at any time; that is more than
   the caches can do, so it is safe as it is.
3. `SurfaceFeed` and `Persistence` together: what `PublishSurface` emits is what a call stores.
4. The business time of `math.py` as arithmetic over a calendar (prefix sums against a sum of sessions),
   and the choice of starts and penalties in `solver.py`: their control, without the optimiser.
5. A model of `IngestionLogger`, when something uses it.
