# Verification of the Wartosc perpetual-futures research platform

TLA+ models of the platform in `src/`, TLC configurations that model-check them on small instances,
and TLAPS proofs of theorems about them. `PROJECT.json` lists the components, the runs, the source
lines every definition stands for, the hazards of the code and the theorems. Paths below are
relative to `src/src/wartosc_perp_research/`.

1. [The system](#1-the-system)
2. [What is modelled](#2-what-is-modelled)
3. [The runs](#3-the-runs)
4. [What is proved](#4-what-is-proved)
5. [Disagreements between code and documents](#5-disagreements-between-code-and-documents)
6. [What is not modelled, and known limits](#6-what-is-not-modelled-and-known-limits)
7. [What is left](#7-what-is-left)

## 1. The system

The platform is a set of command-line programs over one data directory and one SQL database
(SQLite by default). There is no server: what is concurrent are *processes*, of which an operator
may start as many as he likes, and each of which may fail at any file-system, network or database
step or be killed. Within a process the code is sequential, except for the collector's request
lock. Everything that matters for correctness is therefore in what is on disk between two steps.

    exchange API --> collector --> raw archive
                         |
                         +--> quality gate --> ingestion --+
    S3 archives --> oracle fetch --> parser --> oracle     |
                                              ingestion ---+--> database
                                                                  |
          funding analysis, price export, oracle alignment <------+
                                                                  |
    baselines --> schedules --> assembly <------------------------+
                                   |
                                   +--> accounting --> metrics --> study bundle
                                                                      |
    tool registry --> dispatcher --> session store <-- evaluations <--+

| component | state it keeps | operations | hard behaviour | what makes it correct |
|---|---|---|---|---|
| research session store, `research_tools/sessions.py` | a directory: event segments, head file, writer lock | create, verify, append a batch, invoke a tool | several processes; a load is four reads of a changing directory; death between two renames | one writer; committed history only grows; a returned snapshot is committed; a crash leaves a mendable disk |
| tool registry and dispatcher, `research_tools/registry.py` | none; a read barrier on the database while a tool runs | prepare, execute, reuse an earlier result | inputs are hashed, used, and hashed again while others write | a result describes the inputs its identity names; a reused result is what a new run would give |
| research evaluations, `research_tools/evaluations.py` | an output directory | evaluate a session prefix, publish, verify | evidence may change between reading, judging and publishing | the effective status follows the gates; published bundles rest on unchanged evidence |
| historical-study bundle, `backtests/study_report.py` | an output directory and hidden siblings | write, validate, replace, roll back | each rename, write and removal may fail, and so may each way back; writers share an output | replaced whole or not at all; failures restore |
| study runner, `backtests/study.py` | none | assemble, account, measure | composition only | as its parts |
| scenario assembly, `backtests/assembly.py`, `scenario.py` | none | schedule + assumptions + rows to a scenario | no look-ahead, gaps, ambiguous funding, the terminal mark | fills after decisions; each open hour funded once; marked to the end |
| accounting engine, `backtests/engine.py` | cash, position, average entry, attributions | fold funding, fills and marks | rounding, flips, order within one timestamp | identities; equity equals an independent reckoning |
| performance metrics, `backtests/metrics.py` | none | curves, sampling, drawdown, turnover, exposure | staleness and gaps in sampling | consistency with the ledger |
| baseline policies, `research/baselines.py`, `baseline_attestation.py` | a five-file bundle | decide targets from funding; attest origin | decision at the first grid time after information | no decision before its evidence |
| Hyperliquid collector, `collectors/hyperliquid.py` | position in a range, rows seen | candles by chunks, funding by pages, snapshots | retries, boundary rows, candles that close while a response is on its way | no hole, no duplicate, nothing unfinished |
| raw response archive, `storage/raw_archive.py` | one envelope per response | archive | torn or repeated envelopes | what is curated can be replayed |
| normalized ingestion, `ingestion/service.py` | ingestion runs, rows | ingest a batch | concurrent writers, partial failure, death between units of work | one row per key; the first observation stands; true audit |
| database storage, `storage/database.py`, `models.py` | the database | unit of work | lock taken only at the first insertion | all or nothing |
| data quality checks, `quality.py` | none | gate a batch | gaps and overlaps | what it refuses is never written |
| oracle archive acquisition, `oracle_archive.py` | archive files and manifests | fetch | republished objects, death between file and manifest | never mutated; manifests true; repeatable |
| oracle archive parser, `oracle_archive.py` | none | rows, quarantine | malformed rows | every row is counted once |
| oracle ingestion, `ingestion/oracle_archive.py` | archive objects, observations, links | ingest a parsed archive | revisions, conflicts, repetition | idempotent; conflicts flagged |
| funding-oracle alignment, `research/funding_oracle.py` | none | latest observation at or before settlement | staleness, conflicts | no look-ahead |
| point-in-time candles, `research/price_repository.py`, `price_export.py` | none | observed and retrospective reads | a cut-off at a time at which a writer is active | a past read can be repeated |
| funding analysis, `research/funding.py` | none | hourly grid, streaks | ambiguous slots | the grid agrees with the events |
| single-file reports; command line; configuration; domain records | none | render, parse, validate | none beyond the components they call | - |

Components interact through the disk (archive, database, bundles, sessions) and by plain calls
inside a process; `cli.py` composes them. There are no callbacks and no background work.

## 2. What is modelled

| module | extends or uses | models |
|---|---|---|
| `SessionLog` | | what the session store promises |
| `SessionStore` | `SessionLog` | the files of a session, step by step |
| `StudyBundle` | | replacing the output directory of a study |
| `OracleFetch` | | acquiring one archive object |
| `OracleIngestion` | `OracleFetch` | parsing and storing acquired archives |
| `Collector` | | candles and funding from the exchange |
| `Ingestion` | | the units of work of one batch |
| `MarketData` | `Collector`, `Ingestion` | the command line's collections |
| `Orders` | | sorting by a key that no two elements share |
| `Decimals`, `Accounting` | `Orders` | decimal arithmetic, the accounting engine |
| `Metrics` | `Accounting` | curves, samples, drawdown, turnover, exposure, Sharpe-like figure |
| `Alignment` | | funding events and the oracle prices they settle on |
| `Baselines` | `Alignment`, `Orders` | target schedules and their attestation |
| `Assembly` | `Baselines`, `Decimals` | schedule, assumptions and market rows to a scenario |
| `Study` | `Metrics`, `Assembly` | a study end to end |
| `Evaluation` | | the policy that judges a study from a session prefix |
| `ToolInvocation` | `Evaluation` | tools invoked through a session, beside each other and others |

`MC*` modules hold the instances. `SessionStoreProofs`, `StudyBundleProofs`, `OracleProofs`,
`IngestionProofs`, `MarketDataProofs`, `OrderProofs`, `StudyProofs` and `ToolProofs` hold the proofs.

### SessionStore, SessionLog: the research session store

`SessionLog` is the promise: one log, extended by whole batches through compare-and-swap; an offer
is made on top of the log and may be committed later or never; at most one offer ever follows a
given history. `SessionStore` is the code: every file-system step of `create_research_session`,
`verify_research_session`/`_load_snapshot`, `_WriterLock` and `append_event_batch` is an action of
its own, each may fail, and a process may die in front of any of them. The operator's documented
repairs (`RemoveLock`, `RemoveTemps`, `AdvanceHead`) are actions that nobody is obliged to take.

| state | code |
|---|---|
| `lock` | the token in `.writer.lock` |
| `segments`, `segTemps` | the files of `events/` and the temporary files there |
| `head`, `headTemps` | the history that `head.json` closes; temporary files beside it |
| `pc`, `mode`, `seen`, `base`, `batch`, `snap`, `result` | a call's position and local variables; the caller's snapshot; its outcome |

Hashes are perfect: an event's hash stands for the history up to it, so a head file *is* a sequence
of events, and the chain check of `_load_snapshot` becomes `Matches`. One call's event is a value
nobody else writes. A single `read`, `rename` or exclusive creation is atomic. What a tool call puts
into a batch is the subject of `ToolInvocation`, which in turn takes the session as the
compare-and-swap log that `SessionStore` is shown to implement.

### StudyBundle: replacing a historical-study bundle

`write_historical_study_bundle` with `_restore_prior_bundle_after_cleanup_failure` and the nested
`finally` blocks: one action per rename, write and removal, each with its handler. A directory is one
bundle, absent, damaged (part of a bundle) or foreign. A removal that fails leaves a damaged
directory; a process dies between two steps, so that a death within a removal is a removal that fails
and then a death.

### OracleFetch, OracleIngestion: oracle archives

`OracleFetch` is `fetch_archive` with its exclusive manifests, over an official key whose bytes the
exchange may replace at any moment. Bytes stand for their SHA-256; S3 metadata shows only their
length. `OracleIngestion` adds any number of ingestions that may begin as soon as a file exists, so
that they meet manifests that are absent, torn or written.

| state | code |
|---|---|
| `files`, `manifests`, `remote` | the archive files, the provenance beside each, the exchange's object |
| `pc`, `metadata`, `temp`, `original` | a fetch's position and local variables |
| `archives`, `observations`, `links`, `quarantine` | the tables `oracle_archive_objects`, `historical_oracle_observations`, `oracle_observation_sources`, `oracle_malformed_rows` |
| `runs`, `lock` | `ingestion_runs.status`; SQLite's write lock |
| `step`, `provenance`, `earlier` | an ingestion's position; what it parsed; the first archive of the key that it saw |
| `glimpse` | of an archive stored before: the first row found new, and the prices of its time (`same_time`) that were read before the insertion of that row takes the lock |
| `overtaken` | history: who looked before another's commit and inserts after it |

The parser is what it decides: which rows of a content are observations and which are malformed,
where a row dated after the retrieval is malformed only if the retrieval is on record. That a content
is refused by the limits, the decompressor or the schema is a step that may always be taken.

What an ingestion reads before its first insertion, it reads without the write lock. For an archive
that is not stored yet this is only whether it is, and which archive is the first (`Look`): the
archive's own insertion takes the lock. For one that is stored, the first insertion is that of a new
row (`Add`), so its row and the prices of its time were read before (`LookFor`); `Unseen` are those
that were committed in between.

### Collector, Ingestion, MarketData: from the exchange to the database

`Collector` is `iter_candles` and `iter_funding_rates` with the transport's retries and the raw
archive, over an exchange with a clock: a candle is *forming*, then *closed*, then perhaps *revised*;
a response shows the exchange as it was when it was made and is received later. Time is counted in
candle slots. `Ingestion` is `_execute` with its three units of work, as SQLite runs them: queries
before the first insertion see what is committed at that moment, the first insertion takes the write
lock, a failure or a death rolls back. `MarketData` composes them as `cli.py` does: a call collects,
hands over what it gathered (`HandOver`), or reports its failure (`ReportFailure`).

| state | code |
|---|---|
| `now`, `revised` | the exchange |
| `phase`, `cursor`, `answer`, `seen`, `gathered` | `chunk_start`/`next_start_ms`, the response under way, `seen_payloads`, the list the command line builds |
| `archive` | raw envelopes: who received which rows when |
| `stored`, `runs`, `written` | `price_candles` and `funding_rates`; `ingestion_runs.status`; the insertions of a run |
| `writer`, `step`, `batch`, `pending` | SQLite's write lock; position in `_execute`; the records; the record whose insertion takes the lock |

One instrument and one interval stand for all: their rows have different keys, and `seen_payloads`
starts empty for each symbol.

### Alignment, Baselines, Assembly, Accounting, Metrics, Study: a historical study

One module per source module, composed as `backtests/study.py` composes them. `Assemble` turns a
request (a market, a plan, terms) into the events of a scenario or refuses it; the kernel then folds
one event per step (`account`, `ledger`), and the metrics are computed when it is done. The model
also lets a scenario be supplied by hand, event by event, as the kernel's and the metrics' own
callers may.

| definition | code |
|---|---|
| `Dataset`, `Alignment`, `FundingSlot` | `load_funding_oracle_dataset`, the alignment of one event, the hour it belongs to |
| `Bundle`, `Observe`, `CeilDecision`, `Attests` | the baseline policies; their attestation by making the schedule again |
| `Assembled`, `IsAligned`, `HeldAt` | `assemble_scenario`: candles, latency, fills, funding, marks |
| `ApplyFunding`, `ApplyFill`, `Reduced`, `Priority` | `_apply_funding`, `_apply_fill`, the order within one timestamp |
| `ValuationCurve`, `Fall`, `TimeHeld`, ... | the figures of `metrics.py` |

A market is what the database holds: funding rows, oracle observations with their archive, candles
of two intervals. Time is counted in ticks, of which an hour has four; the one-second tolerance
around an hour is one tick. Amounts are `Decimals`: numbers of `Digits` significant digits, rounded half to even
as Python's `decimal` context does (`prec` 80 in the code). A kernel that contradicts its own
identities reaches the status `contradicted`. Ratios are kept as pairs and compared by multiplying
across.

### Evaluation, ToolInvocation: research tools

`Evaluation` is the built-in policy of `evaluations.py` as operators on a session prefix: findings,
recommendation, effective status, and the eleven gates. `ToolInvocation` is `invoke_research_tool`
with the six tools of the registry. A call opens the session, identifies its inputs, takes the read
barrier on the database if its tool reads it, reuses an earlier result or executes the `Plan` of its
tool one step at a time, and stores its result by compare-and-swap. Between any two steps other
calls, the researcher, collectors and other programs may change files, and processes may die.

| state | code |
|---|---|
| `disk` | database, policy, study specification, the bundles, the evaluation request |
| `log` | the results and conclusions of the session, by whole batches |
| `barrier` | who holds `_SQLiteReadBarrier` |
| `pc`, `call` | a call's position; its base, its identified inputs (`resolved`), what it drafted, what it rests on, its result |
| `meddled` | history: what others changed in a running call against the rules |

A file's content stands for its hash. A database is a version from which a study selects some
`Evidence` and a baseline some `Lineage`; two versions may give the same. Each tool is requested with
one fixed set of arguments, so a request is its tool.

### Variants

Each module also holds *variants*: an operation the way a plausible bug would have it (a dropped
check, a lost rollback, a wrong order). No specification uses them. Every property of a passing run
is violated when one of the variants takes the place of the operation it is beside.

## 3. The runs

| run | instance | question |
|---|---|---|
| `session_safety` | 2 processes, 3 calls each, batches of up to 2, 1 failing step, 1 death | Is there one writer, is the disk always mendable, are snapshots committed, batches in place, history append-only, and is it all the compare-and-swap log (`ImplementsLog`)? |
| `session_fair` | 2 calls each, the same failures, fairness | Does every call return, and does a session become usable again if an operator keeps coming? |
| `session_conflict` | no failure | A conflict does not always fail closed (section 5). |
| `study_writers` | 2 writers, 2 bundles, absent/other/foreign output, 3 failing steps, 1 death | Is a bundle replaced whole or not at all, restored on failure, never lost, and never replaced without `--overwrite` over what was seen? |
| `oracle` | 2 fetches in turn after an earlier one that failed or whose content is stored, 3 contents (2 of one length) that contradict each other and themselves, 2 ingestions at once, 1 failing step or death | Are files and manifests immutable and true, disputed prices marked, archives stored whole, revisions pointing to the first? |
| `oracle_revisit` | nothing fails, 3 fetches | A stored revision cannot be fetched again (section 5). |
| `market_data` | 2 processes, candles or funding of 2 slots, 2 chunks or pages, time 0-2, 1 revision | No hole, one row per slot, first observation stands, runs true, rows replayable? |
| `candle_delay` | 1 process | A forming candle may be stored as final (section 5). |
| `study` | 2 hours; supplied schedules of up to 3 intents and receiver baselines over sound markets (rates of either sign or zero, events early, on time and late, prices of two ages) and 19 flawed ones, 3 sets of terms; scenarios of up to 4 events supplied by hand | Does nothing look ahead, is each hour settled once at the right rate and price, are held positions valued in time, do the identities hold and equity equal an independent reckoning, is funding on the prior position, do drawdown and exposure agree with the ledger? |
| `accounting_thirds` | averages with denominator 3, 5 digits | Rounding can break the exact identities (section 5). |
| `exposure_thirds` | 4 events in three equal spans, 6 digits | Percentages need not add to 100 (section 5). |
| `tools` | 2 processes, 3 calls, 1 change of a file by others or death, 3 versions of the database; beginning with nothing, with a baseline and specification, or with a study that was concluded on | Do results describe the inputs they name, and still when stored; are artifacts left alone; is nothing repeated; do evaluations judge what precedes them, grant only what was earned, and verify again later; is what an evaluation read in several moments true at one (`VerdictsSettle`)? |

**Why the bounds are enough.** The hard cases of the session store need two writers, one of which
dies or fails inside its append while the other loads, appends or verifies, and a third call that
uses a stale snapshot; three calls, batches of up to two, reach all of them. A study output has one
old and one new bundle; a third party needs a second writer. One failing step covers every handler,
a second one every way back, and it takes a third to damage the output of a lone call: with three,
each property's threshold is crossed. An archive object needs an original, a revision and
a content that repeats prices of both; what is in the way of an ingestion is one that began before
or after another's commit. The earlier fetch is part of the initial states, not of the steps:
together with two more it gives three retrievals of one key. So is a call that read the archive before
its manifest was written and has not looked into the database yet, which takes a third ingestion to
store the archive: with it, two more contradict each other where neither has the lock. For market data two chunks (or pages)
meet in one boundary, and each process can see a candle forming, closed and revised. A study of two
hours has a first, an inner and a last settlement boundary, and grids of two intervals. Four
accounting events open, increase or reduce, flip, and mark or fund. For the tools two calls
interleave on one artifact and a third comes after both; one change of a file is enough to fall
between any two of their steps, and the sessions they begin with stand for the calls before.

`MaxCalls`, `MaxBatch`, `MaxFaults`, `MaxCrashes`, `MaxTime`, `MaxRevisions`, `MaxEvents`,
`MaxChanges` and the constraint `OneFailure` only bound the models; the code has no such limits.
`ChunkSlots`, `PageRows` and `Retention` are the code's 500, 500 and 5,000. `Oracle.cfg` identifies
states that differ only in values nothing reads any more (the view `Relevant`).

In `Study.cfg` prices are 1 modulo 9 or tens and quantities small, so that every average entry is
a short decimal and six digits represent each amount exactly: the run is about the *ledger*, not
about rounding. The two `thirds` runs are about rounding; five or six digits stand for the code's 80,
which only shifts the digit at which a third is cut.

**Conditions in properties.** The documents take one writer of a study's output for granted, and
speak of a failure, not of several. The properties say how far the code goes:

| property | a lone call (`Alone`) | calls that meet |
|---|---|---|
| `NeverPartial` | until a third step fails | while nothing fails |
| `AcknowledgedStands` | whatever fails | two of them (`Pair`), where nothing fails or dies |
| `FailureRestores` | until a second step fails | - |
| `NothingLost`, of bundles | until a third step fails | until a second step fails, any number |
| `NothingLost`, of foreign directories | whatever fails | whatever fails, any number |
| `OnlyOverwriteReplaces` | whatever fails | - |

`RevisionsPointToFirst` is about archives into whose queries nobody committed. `DisputesMarked` is
about times of which no row is both used and quarantined, which only happens to a row that one call
judged with the manifest and another without. Both exceptions are needed (section 6 says what happens
in them). `VerdictStands` is about the same sources being changed as when the
verdict was given, because each changed source is a finding of its own in the bundle. In the tools,
`meddled` excuses what no check can prevent: a program that ignores SQLite's lock, or one that
replaces a bundle while a call is reading it.

**Deadlock** is not checked: calls are bounded, and when all have been made the system stops. That
no call of a session waits for ever is `CallsReturn`.

**Symmetry** is used for processes, calls and bundles, in no run that checks liveness.

**Fairness** (`FairSpec`): weak fairness of each started call's next step. It is what the operating
system gives a running process, and a step that is taken is either done or fails; a dead process has
no next step. Nobody is obliged to *start* a call. Operators are under no obligation either:
`AlwaysMended` has the fairness of the operator as an antecedent, so it says what a persistent operator
achieves, and that the three documented repairs are enough.

## 4. What is proved

By TLAPS, for every number of processes, calls, slots, contents and values and every bound.

**SessionStoreProofs**:

- `TypeCorrect`: types, with no assumption about operators.
- `MutualExclusion`: at most one process is inside the writer lock and the lock file is its own.
- `SnapshotsStay`: a snapshot that was returned is a prefix of the committed history for good.
- `HistoryOnlyGrows`: no committed event is removed, replaced or reordered.

The last three assume `LocksRespected`: the operator does not remove the lock of a running call.
`SnapshotsCommitted` is not inductive: a
load reads the head and much later the segments, and an append compares and much later renames.
`SessionInv` adds what connects these moments: a head that was read is committed history, and all of
it if it was read under the lock (`LoadsCommitted`); a writer past the comparison still sees the
history it compared with (`WriterCurrent`). Both rest on `OneWriter`.

The same module, under `LocksRespected` as well:

- `DiskMendable`: the segments are the head's history, or that and one whole batch on top of it.
- `BatchesInPlace`: an acknowledged batch is in its snapshot, right after the history it expected.
- `StoreImplementsLog`: the session directory implements `SessionLog`, with the segment on top of the
  history as the log's offer. Every file-system step is a commit, an offer, a view or a stutter.

`LogInv` extends `SessionInv`. A writer past the comparison knows that the segments cover its history
exactly, and after its first rename that they do but for its own (`WriterOnTop`); without it a head
might be promoted over a gap. `SegmentsWhole` and `BatchesWhole` say that no segment is empty, so that
two segments on one history would have to overlap. `AnswerHolds` carries a committed batch through
the second, unlocked load that `append_event_batch` answers with.

**StudyBundleProofs**, with no condition on operators or on the number of writers:

- `OutputWhole`, `ReportedStands`, `FoundRestored`, `SomethingKept`, `OverwriteAsked`: the five
  properties of `study_writers`, with the thresholds of section 3.
- `BundleInvariant`: the inductive invariant they follow from.

`StepEffect` first reduces each of the 24 actions to what it does to the output, to one sibling and
to the call's position, so that the invariants need not look into file-system steps. `Base` says what
each sibling may hold at each step (`Fields`) and that a foreign output stays. `Sound` says where damage can be
while nothing, or one step, has failed. `Safe` says who *carries* a bundle that must not be lost
when the output has none: the call that set it aside, as long as it is bound to bring it back, or one
that died with it. `Solo` follows a lone call step by step and says at each what the output and the
backup hold and how many steps must have failed (`Failed`, `Survives`). `Duel` follows two calls where
nothing fails: who has won keeps its bundle in the output, or the other has replaced it, or is about to.

**IngestionProofs**:

- `IngestionTypes`, `NoSecondRow`, `AuditTrue`: types and the write lock; no slot is ever stored
  twice; a failed run left no row and a succeeded one exactly those it counted.
- `FirstStands`: a curated row is never changed or removed.

They follow from `IInv`, whose parts are needed as follows: a unit of work in front of its commit
must know that the record it found new *before* it had the write lock is still new (`PendingFree`),
which holds because the insertion re-checks it and nobody else can commit before the lock is
released; and the audit needs to know how many rows a call has at each of its steps (`Progress`).
The theorems are about `IngestionSpec`, in which any batch may arrive at any time.

**MarketDataProofs**, for chunks, pages and retentions of any size:

- `CollectionInOrder`: rows are collected in order, no slot twice, inside the range.
- `RangeFilled`: a run that succeeded left no hole among the slots that had closed when it began and
  that the exchange still held.
- `ArchiveReplays`: every curated row is in an answer archived for its run.
- `MarketIngests`: collection and ingestion together implement `IngestionSpec`, so the four theorems
  above hold of the command line's collections.
- `MarketInvariant`: what they follow from.

That nothing is missing is a chain through the call: everything owed below the cursor has been gathered
(`Advancing`); an answer under way shows everything owed of the chunk, or a run of funding rates that
ends early only if the page is full (`Answered`); what was handed over covers the range and at the end
of the run each record has a row (`Handed`), which stays (`Filled`). What is *owed* only shrinks as
time passes (retention). `Traced` is the same chain for the raw archive.

**OracleProofs**:

- `FetchTypeCorrect`: types, whoever fetches at the same time.
- `ProvenanceIsTrue`, `ObjectsNeverMutated`: manifests describe the bytes beside them, and no
  acquired object or complete manifest is ever changed, *when calls for one key do not overlap*
  (`~Shared`; with overlapping calls both are false, section 6).
- `FetchImplemented`: acquisition together with ingestion implements acquisition, so the two
  theorems hold of a directory that is being ingested.

`FetchInv` adds to them what a call knows between its steps (`Acquiring`: the path it goes to is
free, or holds what it downloaded) and that a revision is named by its content (`Named`); `OneActive`
is what makes the knowledge last.

The same module, for ingestions and fetches that overlap in any way:

- `DisputesAreMarked`: two prices of one time are both marked, unless a row of that time is both
  used and quarantined, and no price without another is marked.
- `RevisionsDo`: an archive into whose queries nobody committed is a revision of the first.
- `RowsAreAccounted`: archives are stored whole; an observation has a row that says it.

The three share `Working` (what was parsed is published content; who is about to commit holds the
lock), and `Stored` is what they make together. A value becomes disputed when one of its time is added,
and `Observations` touches every value of that time which the call compares with. Those it does not
(`Unseen`) are of the time of the row it had glimpsed without the lock, and a row that is found new in
a stored archive, and is no malformed one, has been quarantined (`Glimpsed`, from `RowsAccounted`): once
the call commits it is used as well, which is the exception (`UnseenIsExcepted`). Revisions need that an
ingestion which was not overtaken still knows the first archive (`RevisionInv`). Whole archives need
that a link is never to a malformed row nor a quarantine of a valid one (`RowsOf`).

**StudyProofs**, for any market, schedule, baseline and assumptions, and a study of any length:

- `HoursSettled`: a study that ends has settled every hour once, within the tolerance, at a rate the
  market holds, on the last oracle price known by then, which is not too old.
- `StudyInvariant`: from its assembly to its end, the events of a study are those of its scenario in
  accounting order.
- `PriorPositionsFunded`: funding is settled on the position that the fills before its time add up to,
  and nothing else changes what was settled. This and the next hold of scenarios supplied by hand too.
- `SharesFollowFills`: the shares of time an exposure calls long and short are those of the instants
  at which the fills add up to such a position.
- `PositionsValued`: a position older than a marking interval has a mark that is no older.
- `NothingForeseen`: what a study does by a time is the same in a market whose rates and prices
  change after that time, unless it is refused there. `RunsCarried` says it of *any* two markets with
  rows of the same times that agree on what is known by then, where TLC tries one (`Otherwise`).

The invariant `StudyInv` carries the scenario through the kernel; what it says of hours is a fact
about assembly.
`FundingValid`: an alignment list that is not refused has one alignment for each hour.
`NearOneHour`: an hour's event is near that hour only, so no other funding can be taken for it.
`PricedByTheLast`: the observations that are read, those of the window and the last before it, have
the last one known at any settlement, although not all of the market. `ScenariosAssemble`: funding,
fills and marks, one after the other, share no key, which needs that fills are numbered by what has
been filled (`ExecuteFills`, `FillsRun`), also where a baseline's schedule is a fold over evidence
(`TargetsRun`). `OrderedSorts`: sorting them then loses and repeats none.

*Positions.* `LedgerInv` adds to `StudyInv` that the ledger is what the kernel makes of the events,
one after the other (`After`), and that they are in accounting order (`Sequenced`). So the position
after an event is the sum of the fills so far; because funding comes first among the events of one
time, in front of a funding event that is the sum of the fills before its time (`HeldIs`). The time a
position was held is a fold over the spans between events, each of which lies on one side of the
position (`HeldBetween`, `TimeHeldCounts`). In a study the fills come to the run in the order in which
they were made (`FillsPlaced`), so that the position is the target of the last of them
(`PositionIsTarget`); assembly requires a mark at each close of the grid at which that position is
open, and the last close before an event is at most an interval older than it (`HeldByTheLast`,
`LastOfGrid`).

*Look-ahead.* Each row of one market has a twin in the other, which is the same row if it was known
by the time `t` (`Follows`); two requests that have the same plan and assumptions over such markets are
`Alike`. The lemmas follow assembly: the same funding events (`FundingCarried`); a baseline's evidence,
and each policy's fold over it, agree on the decisions made by `t` (`GrownOver`, `EvidenceCarried`,
`SchedulesCarried`), although the folds run on over different evidence; so do the candles a decision is
filled at, and the fills (`FillsCarried`); the marks (`MarksCarried`); hence the scenarios
(`ScenarioCarried`). In accounting order the events by `t` are a beginning of each run, and two
ordered sequences that have the same elements in a beginning have them at the same places
(`AgreeBelow`), so the beginnings are equal.

**OrderProofs** has what these rest on, for every finite set and every sequence: ranks under a strict
order are the numbers from one (`Places`), so `InOrder` sorts (`Sorts`); and what each step of a fold
keeps, the whole fold keeps (`FoldRuns`); adding up passes through the sums of the prefixes
(`SumRuns`, `SameSums`); ordered sequences that share what is in a beginning share the beginning
(`AgreeBelow`, `IncreasingAgree`, `IncreasingSame`). Where an induction would take an operator, it
takes a function or a predicate with the data it depends on (`IsRanking`, `Accumulates`).

**ToolProofs**:

- `StoredWhileTrue`: when a result that rests on the database is stored, the database is the version
  it names, if writers respect the barrier.
- `WholeHeadJudged`: each evaluation judges the whole session before it.
- `InputsDescribed`: a successful result says what its tool makes of the inputs it names, although
  others may have written to them before, between and after the stability checks.
- `SessionLoads`: attempts are numbered without gap, and nothing that is always reused is done twice;
  this is compare-and-swap on the head (`Fresh`) together with reuse.
- `ArtifactsStay`: no step of a tool changes an artifact that a stored result refers to.
- `StandingEarned`: no evaluation grants more than the policy's findings allow (`StandingIsEarned`).
- `VerdictsReverify`: an evaluation verifies again, over its frozen prefix, however the session grew,
  while its artifacts are intact and the same sources are changed as when it was made.
- `VerdictsAreSettled`: an evaluation, or its verification, goes on from its second look at the
  evidence only with a verdict that the evidence on disk at that moment gives again.

`CallInv` says where a call may be in the plan of its tool and what it has made by then (`Judging`),
and that whoever has hashed the database holds the barrier since (`Barred`). `SuccessorOnPlan` and
`Successors` derive from the plans that nothing is stored before it is made. `ToolInv` adds what a
call carries from step to step (`Carrying`): the inputs it identified are still there, or damaged, or
the call is `meddled` with (`Holding`); its draft is made from them (`Drafting`); its result says so
(`Bearing`); nothing it would have to reuse was in the session it read (`Fresh`). `Recorded` says the
same of what is stored. `Evolves` and `Grows` are all that a step of another call or program may do to
a call; they are what makes `Carrying` last. About the policy itself a few lemmas suffice:
`EffectiveWithinRecommended`, `FavourableFindings`, `TargetStands`, `ClaimsTrue`,
`DecisionAcknowledges`; `JudgedPrefix` says that a verdict depends on its prefix and on which sources
are changed alone. `SettleInv` adds what a judging call has read, from its judgement to its last look
(`Weighing`): its verdict is the policy's on those contents, whatever is on disk by then (`ReadOnce`),
so finding them there again is enough (`ReadAgain`).

**Assumptions.** They are named in the modules: marker values are not real ones (`FreeAssumption`,
`ContentAssumption`, parts of the others); a request is a market, a plan and terms of the types that the tables
and the specification have, with finitely many funding and oracle rows, and valuations are sampled
within the study (`StudyAssumption`; neither plan nor terms need be valid: the model refuses what the
code refuses); bounds are numbers (`BoundsAssumption`,
`CollectorAssumption`); the given contents have the shape of real ones (`FetchAssumption`,
`IngestionAssumption`, `ToolAssumption`: versions of the database are numbered from one, each gives a
study one of the three outcomes); the instance of `Ingestion` can hold what `Collector` gathers
(`MarketAssumption`). TLC evaluates each of them in a run.

**Only model-checked.**

- All liveness: `CallsReturn`, `AlwaysMended` (out of the prover's reach).
- `Reconciles` and `MarkedToMarket` of the accounting: they are about sums of rounded decimals. They
  are true where no amount is rounded, which is a condition on data; in general the first is false
  (`accounting_thirds`), and the second is exposed to the same rounding.
- `DrawdownIsWorstFall` of the metrics: that rounding preserves the order of two amounts is arithmetic
  of powers of ten of any size, which the provers do not have (`^`), over a curve that `SelectSeq`
  picks from the ledger, which is defined by an operator parameter.
- The evaluation of the study inside `ToolInvocation`: which evidence and outcome a database gives is
  a constant there.

## 5. Disagreements between code and documents

Each has a run that ends in a counterexample; the quotations are in `PROJECT.json`.

- `session_conflict`: an append may commit its batch and yet raise
  `ResearchSessionConflictError`, because the snapshot it answers with is loaded after its lock is
  released, when another writer may hold it; the error's docstring says a conflict fails closed.
- `oracle_revisit`: bytes already stored as a revision are compared with the original only; fetching
  them again ends in an integrity error over the manifest's retrieval time, although the README says
  identical bytes are idempotent.
- `candle_delay`: a candle is left out if it had not closed when the response was *received*. A
  candle that was forming when the response was *made*, and closed on the way, is stored as final,
  and the complete candle is refused as a conflicting revision ever after.
- `accounting_thirds`: with averages that do not terminate, amounts are rounded in different orders
  and an identity the kernel asserts as exact fails for a legal scenario.
- `exposure_thirds`: long, short and flat shares of a third each are rounded and compared with 100 by
  `!=`; the metrics of a legal backtest end in an assertion error.

## 6. What is not modelled, and known limits

Never: rendering of reports, argument parsing, configuration (no state); real-time spacing of
requests (TLC has no clock that fine, and the code promises none for retries); floating-point and
calendar arithmetic. Not yet: section 7.

**Abstractions a reader should know.**

- Study: ratios are compared exactly while the code compares rounded decimals, and it tests a
  *rounded* standard deviation for zero; drawdown is relative to the running peak, as in the code, so
  with negative equity the worst fall in cash need not be the worst ratio.
- Oracle: quality issues are reports without effect on what is stored; schema and limits are a refusal that may always
  happen; a race for the quarantine or for the exchange's own row is a failing step.
- Collector: a response of more than the 500 rows that were asked for, which the code refuses, is not
  told apart; that only adds behaviours.
- Tools: one nominal request per tool; prefixes end at batch boundaries; the metric claims of a draft
  cite its target (one that does not may meet another gate in the code); binding (load and hash) is one
  step; a run always carries a baseline bundle.
  Sidecars and `dispatch` outside a session are left out.

**Met while modelling.** No document speaks of most of these, and no property claims the contrary:

- A writer whose lock an operator removed, and another took, replaces what that one committed:
  ownership is tested only on the way out. With `LiveLocksBroken = TRUE`, `HistoryGrows` fails; the
  documents ask operators to remove only dead writers' locks.
- Two study writers may undo each other once a step of either fails: a restore puts back the
  bundle its call read at the start, over what the other acknowledged since. Three may do so although
  nothing fails: the first has set the old bundle aside when the second publishes, so the first's
  promotion is refused; the third sets the second's bundle aside, and before it promotes its own, the
  first finds the output absent and puts the old bundle back. `--overwrite` is looked at once: a call
  without it replaces a bundle that appeared since. With two failing steps a restore may end with the
  new bundle in place and an error; with three, the outer `finally` may publish a damaged backup.
- Two concurrent fetches of one absent object replace one another's bytes (`Shared = TRUE`).
- Two prices of one time may stay unmarked, although `docs/architecture.md` says every candidate is
  marked: `DisputesMarked` fails within a dozen steps without its exception. An archive is stored, its last row
  quarantined under its manifest; a call that read the archive before the manifest was written
  ingests it again and finds that row new; it is compared with the prices that were there before the
  call had the write lock, so that a price another call commits in between contradicts it, and neither
  is marked. Alignment would settle on one of them.
- Two ingestions that both looked before either inserted leave the later archive without
  `revision_of`, although the same document says revisions point to the first stored version:
  `RevisionsPointToFirst` fails without `overtaken`. A revision ingested before its original makes the
  original the "revision". An archive that was parsed before its manifest existed accepts rows later
  than its retrieval, which a later ingestion quarantines as well.
- A failed collection of funding rates leaves no ingestion run, a failed collection of candles does
  (`docs/architecture.md` says every attempt is audited).
- A process that dies between its data and the end of its run leaves the run `running`, with rows.
- `resolve_baseline_funding_source` keeps events up to a second after the last hour,
  `load_funding_oracle_dataset` takes `[start, end)`: an event just before `start` that belongs to the first hour
  is refused although the hourly grid tolerates a second. It fails closed.
- `historical_study.verify` does not hash its study again, and a run loads its published bundle from
  disk without comparing it with what it computed: a bundle that is replaced in that moment is
  described under the wrong identity (`meddled` in `ResultsDescribeInputs`).
- A failed result is reused for as long as its inputs are unchanged, as documented.
- A failed study skips the check for later attempts, so its gate `study_target` passes although the
  documents add "and is not superseded"; its status is `needs_data` all the same. The target of a
  study *verification* is never superseded by later runs nor made provisional by a changed database.

## 7. What is left

1. **Models**: the `ingested_at` cut-off of `research/price_repository.py` over the units of work of
   `Ingestion` (can an observed read of the past be repeated while a writer is active?); the audit of
   every attempt; funding analysis (`research/funding.py`: hourly grid and streaks); the sidecars of
   the tools.
2. **Proofs**: the decimals, as far as they can be: that an amount of few enough digits is exact, from
   which `Reconciles` and `MarkedToMarket` would follow for bounded scenarios.
3. **Abstract specifications**: an atomic cell for the study bundle and the evaluation bundle; a
   reader of one database version for the tools.
