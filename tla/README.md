# A TLA+ verification of the narrative market simulator

This directory holds TLA+ models of the repository's core, the TLC
configurations that check them on small instances, and proofs, checked by
TLAPS, of the most important results for every value of the constants.
Everything is translated from the source. `PROJECT.json` maps each definition
to its lines, lists the runs, the theorems, the hazards of the code and, for
every property, a seeded bug (a `Mutant...` operator) that breaks it.

Contents: [the system](#1-the-system), [modules](#2-the-modules),
[runs and bounds](#3-what-the-runs-check), [fairness](#4-fairness),
[proofs](#5-what-is-proved), [findings](#6-findings),
[abstractions](#7-abstractions-and-what-is-not-modelled), [plan](#8-plan).

## 1. The system

The program simulates a small stock market whose traders are language models
with personas. A *run* simulates some rounds and leaves a directory with a
manifest, an event log and result files. *Drivers* start many runs as child
processes, *campaigns* ask a provider directly, and *analyses* read what either
leaves. Most of the code does not simulate anything: it decides whether what
lies on disk may be believed.

| component | state | operations | interacts through | what makes it correct |
| --- | --- | --- | --- | --- |
| managed run (`run_context.py`, `provenance.py`, `events.py`, `run.py`) | manifest in memory and on disk, event log, files, `latest` and flat links, context state | create, simulate, observe events, export, finish, fail, publish | files; events of the recorder and of the loop | an accepted manifest is sealed and accounted for, a failed one partitions its plan, the attempt keeps its lifecycle |
| simulation loop, price, leverage (`sim.py`, `market.py`, `leverage.py`) | round, price, books, pending liquidations | decide, clear, margin calls | orders of agents; forced sells of the round before | each breach is sold once, a round later; higher leverage falls first |
| recorder, replay, cache (`recording.py`, `llm.py`) | sequence and cursor, record file, cache, attempts | record, load, replay, audit | providers, events | the tape explains its answers; replay serves the tape batch by batch |
| retry evidence (`run_context.py`, `decision_contract.py`, the analysis) | counters of attempts | observe, recount, close | attempt events, decisions | three witnesses agree |
| V2 market (`v2_market.py`) | accounts, credit facility, price | constrain, clear, settle | policies | money and shares are conserved, fills are fair, settlement fails only for want of funds |
| V2 experiment (`v2_market_experiment.py`) | the same, and cost bases | size orders, run a cell | the market's pure functions | its own loop implements the market; its records follow the accounts |
| V2 attention and distillation (`v2_attention_market.py` and others) | samples, rows, students, run files, manifest | sample, close, distil, publish, run markets, export | teacher provider, managed run | no count without durable evidence; failures accounted; finished means complete |
| endpoint study (`endpoint_stochasticity.py`) | coroutines, rows, files, manifest | send, receive, append, checkpoint, close, summarise | endpoint, managed run | at most one block is lost; a verdict is quiet; two accounts agree |
| qualification and Codex turns (`model_qualification.py`, `codex_exec.py`) | case, child process, threads, accounts | probe, launch, wait, kill, judge, count | a subprocess, managed run | the first failure is the last turn; completed cases are whole |
| experiment drivers (`driver_utils.py` and seven scripts) | slots, retries, counters, children | assess, reuse, launch, collect, record, finish | flat links of one output root, child processes | counted results are backed by a run, the accounts close, the load is bounded |
| result reuse gate (`result_reuse.py`) | one assessment | resolve, load, hash, compare | manifests, links, files | accepts only what stays accepted; never refuses what is finished and published |
| multi-event driver (`multi_event.py`, twice) | lock, attempt directories, ledger, decisions | lock, preflight, launch, collect, finish | inherited lock, ledger, child processes | one owner, no attempt made in doubt, write-ahead launches |
| multi-event analysis (`aggregate_multi_event.py`) | the evidence it verified | lock, verify, re-validate, export | lock, ledgers, run directories | it accepts what a driver finished, and exports only what the ledgers bear out |
| agents, perception, contagion, validation | memories, digests, texts | build a prompt, parse an answer, score | the loop | pure functions; all but the terminal status of an answer left out |
| configuration, entrypoints, reference data, analysis scripts | none | parse, hash, aggregate | | not modelled |

The behaviours that are hard, with their lines, are the `hazards` of
`PROJECT.json`. They fall in six groups: an I/O error or a kill between two
writes that belong together (every managed program); processes and coroutines
that outlive whoever waits for them (drivers, campaigns, Codex turns); two
invocations on one output root (drivers, analysis); results judged by a name
that somebody else may have taken, or read before they were settled (drivers,
gate); one fact recorded on two paths that must agree later (attempts, samples,
counters); and integer and ordering details of markets that only show after
several rounds.

## 2. The modules

```
RunLifecycle <--implements-- ManagedRun <-extends- ReuseGate      ManagedRunProofs
RecordReplay <-extends- AttemptEvidence                           RecordReplayProofs
CallAuction <-extends- Settlement <-extends- V2Market             V2MarketProofs
                       Settlement <-extends- V2Experiment         V2MarketProofs
                       V2Market <--implements- V2Experiment
LeveragedMarket                                                   LeveragedMarketProofs
AttemptSeries <-extends- AttemptAnalysis                          AttemptSeriesProofs
DriverJobs                                                        DriverJobsProofs
AttentionCampaign                                                 AttentionCampaignProofs
EndpointStudy                                                     V2MarketProofs
CodexQualification                                                CodexQualificationProofs
```

An `MC` module gives the constants of a specification their values for TLC.
The modules that extend another compose two components: the later reader
with the attempt it reads, the analysis with the recording or the series that
it judges.

**ManagedRun** is one attempt of `run()` under `ManagedRunContext`. `mem` is the
manifest dictionary, `disk` the last version that `write_atomic` put in place,
`logged` the number of events of each type in `events.jsonl`; a digest is the
content it was computed from. `pc` walks through the code's order of
effects: construction, rounds (request, answer, decision), export, `finish`
(mark, collect, announce, refresh, commit), publication, `fail` (sync, mark,
announce, collect, refresh, commit), `__exit__`. `Write`, `Append` and
`Symlink` may raise before they take effect or after it (`FaultKinds`), and
`Crash` ends the process between any two steps. `frame` remembers who called
`fail`, because `finish` and `__exit__` go on differently.

**RunLifecycle** is the promise of `docs/MANAGED_RUN_LIFECYCLE.md` in three
variables: the state of the context, the verdict of the manifest, the public
name. It says how a verdict may change: a manifest whose last write took effect
and reported an error is accepted and in doubt (`Accept` that stays ACTIVE) and
may be taken back (`Retract`); everything else is final. The refinement
mapping is in `ManagedRun!Lifecycle`.

**ReuseGate** is one assessment of `result_reuse.py` that runs beside the
attempt: `Resolve` follows a flat link or takes the manifest's path, `Load`
reads the manifest once (status, state, completion, declared link, identity),
`HashEvents`, `HashFiles` and `CompareResult` follow step by step. `Runs` adds to
`ManagedRun` the two pieces of evidence only the gate reads: the link's entry in
`compatibility.legacy_links` and the completion copied into the result file.

**RecordReplay** is a recording over the response cache over a retrying endpoint
client: `Ask` (a round's batch), `Announce`, `Lookup`, `Attempt` (in any order
of the batch), `Return`, `Store` (one durable line at a time), `Decide`; a kill
may leave half a line. `Load` is a new process with the rules of
`recording_schema.py` per variant and identity, `AskReplay`, `Match`, `Serve`
and `FinishReplay` the strict replay of a simulation that may ask anything.
`Audit` is what `reparse_audit.py` pairs, and `AuditOutcome` how far it gets: half
a line in the record file refuses the audit, half a line in the event log stops
it when its directory exists already, and nothing is compared in either case.

**AttemptEvidence** adds the counters that the managed context keeps of attempt
events (`Observes`) and the analysis's own closure (`EvidenceHolds`): the events
are recounted, each retry history parsed, and the exhausted requests compared
with the terminal status read off the text of each decision.

**CallAuction** is the pure part of `v2_market.py`: worst-case budgets,
candidate prices with the tie rules of the clearing, largest-remainder fills.
**Settlement** adds the other pure functions, over the accounts and
the facility they are given: `Constrained`, `Refused` (when `settle` raises) and
what a settlement leaves (`Paid`, `Delivered`, `Owed`, `Lent`). **V2Market** is
the loop of `run_synchronous_market`: `Ask` (one policy at a time against a frozen
snapshot), `Constrain`, `Clear`, `Settle` or `SettleRaises`. **V2Experiment**
is the loop that `_run_cell` writes out for itself, with variables of its own
for each local of the function: which snapshot a stage is given, which accounts
and facility it settles, what it audits and what it carries over is translated
line by line, and only the three pure functions that both loops call are
shared. It has the code's sizing rule (`LimitPrices`, `Sizes`), the callbacks that
may raise, the conservation audit, and the trade metadata and the running sum of
credit. `ImplementsMarket` maps its locals to the market's state and says that
this loop is a run of the market; a facility not carried over from one round to
the next breaks it. `CellAssumption` is what `_make_initial_condition` hands to a
cell: a facility that holds the sum of the credit lines, and a basis for exactly
the accounts that start with shares (`nmsim/v2_market_experiment.py:552`).

**AttentionCampaign** is a managed V2 run: `Attempt` and `Complete` of samples
by a bounded pool (event, private row, public row, counters), `Close` after a
failed gather, `Distil` and `Publish` over the frozen split, `StartRun`,
`StartRound`, `EndRound`, `EndRun` of the market phase, `Index`, `Export`,
`Finish`, `Fail`. A handler of several effects performs the first n of them.

**EndpointStudy** is the frozen schedule of blocks: `Send` and `Receive` of each
coroutine under the block's semaphore, `GatherReturns`, `AppendPrivate`,
`AppendPublic`, `Checkpoint`, and the way out of a failure, where
the provider is closed (`closing`) while coroutines still run and `Closed`
cancels them. `Summary` is the pooled table computed from rows.

**CodexQualification** is the loop over qualification cases with one child
process per case: probe stage by stage, `Prepare`, `Launch`, `Wait`, reader
threads that may kill the group (`Read`), `Timeout`, `Reap`, `Judge` in the
fixed order of `Verdict`, and the accounts of the case. The child is the
environment: it exits, hangs, floods or leaves a descendant.

**LeveragedMarket** is `run_sim` with leverage: `Decide` (any orders),
`Clear` (orders and the forced sells of the last round move the price),
`Margins` (from the news round on, breached books are called). Prices are
cents, ratios hundredths.

**AttemptSeries** is the multi-event driver: `Acquire` of the lock,
`Preflight` slot by slot over what is on disk, one thread per slot (`Start`,
`EndpointDown`, `Launch` on the ledger, `Spawn`, `Collect` with the verdict),
`Finish`, and the ways out: `Interrupt`, `Kill`, `AppendFails`, `SpawnFails`.
Children write and exit on their own and hold the lock as long as they live.

**AttemptAnalysis** gives each driver its ledger file line by line, its declared
attempts and its selection, and adds the reader: `Opens` (a finished driver,
under the lock), `Verifies` (grammar, cells, run directories, summary),
`ValidatesChild` one by one, `Exports`, `Closes`.

**DriverJobs** is `run_managed_driver_jobs` with the retry loop of the scripts
built on it: `Assess` every slot, `Enter` the managed attempt, `Start` at most
`Workers` threads, each with `EndpointDown`, `CountLaunch`, `Spawn`,
`SpawnFails`, `Collect`; `RecordResult` after the pool; `Finish`. There is no
lock here: invocations overlap, children of killed drivers go on and publish.
A run publishes in three steps (`ChildFinishes`, `ChildLinks`,
`ChildDeclares`), which is what `ManagedRun` does in more detail.

## 3. What the runs check

| run | instance | shows |
| --- | --- | --- |
| `faults` | 2 rounds, 2 agents, 2 files, 3 faults of both kinds, crash anywhere, and one reuse assessment at any time | accepted and failed manifests are sealed and accounted for, the attempt implements RunLifecycle and concludes, the gate is sound and complete |
| `record_replay` | 2 rounds of 2 agents, 2 prompts, 1 text, 1 retry, with and without cache, 1 fault and a kill | attempts explain answers, only whole recordings load, a replay serves the tape, an audit that is written pairs every line with its decision, the retry evidence closes |
| `attention_campaign` | 5 samples, 2 workers, 2 market runs of 2 rounds, 2 disturbances | counts are backed on disk, failures accounted, a finished campaign complete |
| `endpoint_study` | 2 conditions, 2 waves of unequal length, the seed probe, 2 faults | at most one block is lost, verdicts are quiet, accounts and table add up |
| `codex_qualification` | 2 cases, 1 reviewed key, 2 faults, any child | failure is final, cases add up, the run ends |
| `v2_credit` | 4 accounts, 3 borrowers, limits 1 and 4, 2 rounds, a facility smaller than the credit lines | conservation, fair fills, maximal volume, refusal only when the facility is short |
| `v2_cell` | 3 accounts, 2 rounds, prices 1 to 4, facility equal to the credit lines | the cell's loop implements the market, never fails to settle or to pass its audit, keeps its records in step with the accounts |
| `cascade` | 2 leveraged agents and one other, 7 rounds | each breach sold once, a round later; every book still open is above its margin and every closed one was below it |
| `attempt_series` | a sequential driver and a pool, 2 slots of 2 attempts, 1 failing append, and the analysis | one owner, nothing in doubt, write-ahead, evidence the analysis accepts, sound exports |
| `attempt_drivers` | the same drivers, 2 slots of 1 attempt, 2 failing appends | a driver that owns the lock lets go of it |
| `driver_overlap` | a sequential driver and a pool, 1 slot of 2 tries, with or without an old file | accounts close, nothing overstated, counts backed |
| `counted_on_looks` | one driver, one old file | the finding of section 6 |

Why these bounds are enough. Two rounds of two agents reach every position of a
failure relative to another unit of work: before, in and after the first, and
in the last. Two faults reach a failure in the handler of a failure; three
reach `fail` called again by `__exit__` after a failed `fail`. A recording of
two batches of two can be cut in the first batch, between the batches and in the
second, and lets a prompt repeat within a batch (which the cache does not
merge) and across batches (which it does); one retry gives both a recovered and
an exhausted request. Five samples are the least for which the split of 70, 15
and 15 hundredths has three parts; two workers leave one coroutine in flight
when the other fails, and three samples not started. Blocks of one and of two
repeats, under limits of one and two, differ in what is in flight at a failure.
Two cases show that nothing follows a failure and something follows a success.
Two accounts on one side are the least that a remainder can be split
among; three tell a correct order of remainders from a reversed one; limits of
1 and 4 around a start price of 2 leave ticks on either side of a candidate that
is no candidate itself (3), or is only the start price. In a cell
prices are a few cents, so `MaxOffset` is 4000 basis points there: with the
500 of the code every limit would round to the close. Its `Limits` and `Quantities`
list what such orders can be; a size outside them would violate
`ImplementsMarket`. Two leveraged books
with different ratios are needed for a cascade, and seven rounds let the second
follow the first. Two drivers give a dead one whose orphan lives and a resuming
one; two attempts a retry and an exhausted budget. For the liveness
run the budget is one, since a retry only adds a finite tail, and the
faults are two, since the record of a failed append can fail as well. Two tries
of one slot let an orphan of the first publish while the other driver's child
runs; a second slot multiplies the states without a new kind of interleaving,
except for two threads of one pool, which `LoadIsBounded` proves for any number.
Numeric bounds are constants named in the specifications (`MaxFaults`, `Limits`,
`Quantities`, `Sizes`, `Rounds`). Prompts of `record_replay` are symmetric: they
are only compared for equality.

Deadlock is checked in every run: where the program stops for good, a
stuttering disjunct (`Terminated`, `Done`, `Quiet`, `Ended`) says so.

## 4. Fairness

`GateSpec` asks for weak fairness of the attempt's own steps (`Runs`): the
interpreter goes on until it ends or is killed. Nothing is asked of the
assessment, of faults or of crashes. Its `Concludes` holds after every fault, not
only without one: from any ACTIVE state, with *n* faults behind it, the attempt
ends with a manifest that tells the story of its context, unless it is killed or
a further write fails; and a further failure is an end only in the `fail` of
`__exit__`, which nobody repeats. The one story left open is a failed write
of the accepting manifest: the context fails, no failure record is made
(`provenance.py:1056`), and the manifest is merely not accepted.

`AttemptSeries!FairSpec` asks for it of each
driver's threads with its main thread's end, and of the exit of a child:
`subprocess.run` has no timeout, but the provider clients inside a child have
one, so a child ends. Nothing is asked of kills, interrupts, the acquisition of
the lock, or the analysis. `CodexQualification!FairSpec` asks it of the
program only (`Run`), not of the child nor of the reader threads: the wait
has a timeout and each join a limit, so the program may always go on.

## 5. What is proved

All proofs are for every value of the constants that the named assumption
(`ConstantsAssumption`, `LeverageAssumption`, `SeriesAssumption`,
`DriverAssumption`, `QualificationAssumption`, `TapeAssumption`,
`EvidenceAssumption`, `CampaignAssumption`, `MarketAssumption`, `CellAssumption`,
`StudyAssumption`) allows. Each fixes the
types of the constants, and five say more: `TapeAssumption` that no answer
is the mark of an open request and that a batch is not empty,
`EvidenceAssumption` that no text of the endpoint is a substitute, `MarketAssumption`
that account ids are numbers (the code sorts by them), `CellAssumption` what
section 2 says of a cell's start, and `StudyAssumption` what
`_validated_block_schedule` enforces: no condition twice, and spans of the waves
that tile the replicates. Two theorems assume more. `ReusedRunsAreSound`
takes a plan with a round, an agent and a file: the gate refuses an
empty one. `CellIsMarket` takes a market whose policies may order any
quantity at any limit: those that TLC tries are its bound, not the code's.

- **ManagedRunProofs.** `TypeCorrect`, `AcceptedRunsAreSealed`,
  `FailedRunsAreSealed`, `LinksLeadToAccepted`, `AttemptImplementsLifecycle`.
  The inductive invariant `SafetyInv` says at each point of control which
  terminal events are in the log (`EventInv`), what the manifest in memory may
  already claim (`MemoryInv`) and how the disk got there (`DiskInv`). It is
  needed because an accepted manifest says nothing of the order in which its
  parts were written: that the digest still fits the log follows from
  `_terminal`, after which nothing is appended. The refinement adds `DoubtInv`:
  an accepted manifest whose context is not FINISHED belongs to an ACTIVE one
  that is about to enter `fail`, or stopped. Each step then maps to one of
  `RunLifecycle`'s or to a stutter, action by action (`QuietRefines`,
  `FinishRefines`, `PublishRefines`, `FailRefines`).
- The accounts of the same module: `CountsNeverExceedTheLog`,
  `AcceptedRunsAreAccounted`, `FailedRunsPartitionTheirPlan`. An accepted
  manifest must have counted every round and decision, which no manifest on the
  way there says. The strengthening (`AccountInv`) therefore gives the exact
  tallies at each point of the loop while nothing failed (`Track`), and bounds
  them (`Sound`) for the manifests in memory and on disk afterwards; a failure
  leaves the track, and an acceptance can only come from its end.
- The gate, also there: `ReusedRunsAreSound`, from both invariants above. An assessment reads the manifest once and the files later, while the
  attempt goes on; `Assessed` says what each check that passed implies of the
  state now, and that an attempt whose context is FINISHED does not change what
  was read.
- **RecordReplayProofs.** `TapesAreTyped`, `ReplayServesTheTape`,
  `CutRecordingsLoadWhole`, `AuditsPairDecisions`, `AnswersAreExplained`. Three
  strengthenings build on one another. `Layout`: line *n* of a tape is place
  *i* of batch *b* with *n* = agents x (*b* - 1) + *i*, wherever the recording
  stopped; a line then has one place (`OnePlace`), so that whole batches are
  exactly the lengths the agents divide, and a round and an agent name one line.
  What an audit compares follows from it, for every recording whose two
  files can be read: a line beyond the last decided batch has no decision, and every
  other line has its own.
  `Filed`: the records of the batch in progress are what its requests got.
  `Evidence`: a cache entry has a witness among the lines of earlier batches or,
  until they are stored, among the fresh answers of its own, and an open request
  has only attempts that are to be repeated. The replay needs that
  `WholeBatches` holds of what it loaded, and that the cursor stands between two
  batches (`ReplayInv`). `RetryEvidenceCloses` adds `Tally`: while nothing was
  raised, the counters of the context are the cardinalities of the event sets
  that the analysis counts later, each event announces a retry exactly when there
  will be one, and the decisions are those of the lines so far. It assumes
  `EvidenceAssumption`, that no text of the endpoint is what an adapter
  substitutes: the strict schema has no field for the mark
  (`decision_contract.py:114`).
- **LeveragedMarketProofs.** `ForcedSellsEnterOnce`,
  `NoLiquidationBeforeNews`, `NoBreachIsMissed` (of `BreachesAreCalled`),
  `CascadeWalksDown` (higher leverage falls first, which also holds of a loop that
  misses a round, and so has no run). The
  invariant is their conjunction with the types and with the fact that no book is
  closed ahead of its round; the arithmetic is in `BreachGrows`: a price that
  breaches a book breaches every book with more leverage.
- **AttemptSeriesProofs.** `SeriesTypes`, `OwnersAreAlone`,
  `SeriesNeverInDoubt`, `LaunchesAreAnnounced`, for any number of drivers, slots,
  attempts, workers and failing appends. The strengthening says that what the
  preflight has read still holds when a thread acts on it (`Ready`), that a
  child, orphan or not, only follows settled attempts (`Behind`), and that it
  has its launch on the ledger (`Launches`).
- The reader of the series, also there: `AnalysisLooksOn`,
  `FinishedDriversAreAnalysable`, `AnalysesAreSound`. The files that the analysis
  opens change nothing a driver reads, so that `JointSpec` implies `Spec` and the
  invariant above carries over. To it `EvidenceInv` adds, for a driver without a
  failing append, what the lines of a slot are at each place of its thread
  (`Cells`): launches and verdicts in turn, the last attempt open exactly while
  its thread waits for it. `BookBorne` says that an accepting line is on the
  durable ledger and true of the run, also after faults, and `Audited` that an
  analysis is alone with what it has verified. A finished driver has every
  slot settled (`Ended`), where the shape is the one the reader accepts. For
  soundness, the slots the threads counted are among the selected ones and, for a
  reader that accepts, as many, so they are the same; and by `NothingInDoubt` a
  slot has no healthy attempt before another.
- **DriverJobsProofs.** `TypesHold`, `CountsAreBacked`, `LoadIsBounded`,
  `FinishedAccountsClose`, `DriversNeverOverstate`, for any number of overlapping
  invocations. The strengthening says that a flat path
  links only to a published run of its own slot (`LinksAreOwn`), that the child
  of a running driver is the one its thread waits for (`Waiting`), that a
  launched child is a new run (`Fresh`), and that a pool is never larger than
  its workers (`Pool`). The load is bounded because children map one to one to
  threads that wait. For the accounts, each counter of a running driver is the
  number of slots at certain places (`Tallies`), and a slot that moves changes
  such a number by at most one (`HeldMoves`).
- **CodexQualificationProofs.** `TurnsStopAtTheFirstFailure`, for any number of
  cases and disturbances and any behaviour of the child. The strengthening says
  what the history of calls ends with at each point of control (`EndsWith`):
  finished turns of earlier cases before a prompt is sent, an open one during a
  turn; and that a provider exists only after the last stage (`Probed`).
  `QualifiedCasesAddUp` needs the accounts at each point of a case: how many are
  open, which of started, completed and failed already counts the current one, and
  what the stream and the file of the last turn said when the verdict was given.
- **AttentionCampaignProofs.** `ManifestBacked`, `FailureAccounts`,
  `FinishedCampaign`, for any plan, pool, market and number of disturbances, as
  parts of one inductive invariant, `CampaignInv`. `SampleInv` orders the four
  places a sample is kept in (a row in memory is public, a public row private,
  a private one has its request in the log), `BackedBy` holds of the
  manifest in memory as well as of the one on disk, since the first becomes the
  second, `MarketInv` lets one run and one round of it be open, and `ExactInv`
  says where the counters are not merely bounded but equal to what happened. The
  last is needed for failures: the account that closes is that of the refresh in
  the handler, and a refresh is whole only while nothing else has failed.
- **V2MarketProofs.** `MarketTypes`, `MarketConserves`, `OnlyFacilityRefuses`,
  `FairFills`, `MaximalVolume`, and of a cell `CellRecords`,
  `CellSettles` and `CellIsMarket`, for any accounts, orders, prices and rounds.
  Sums are folds over sets, which the provers cannot unfold by induction; the
  proof counts instead. `Units(S, g)` has one element for each share or cent of
  `g` over `S`, `Total` is its cardinality, and the fold of the code is shown
  equal to it (`Adds`), after which additivity and monotony are facts about
  finite sets. The fills rest on the order of remainders being total on a side:
  each order has a rank, ranks are a bijection (`Ranks`), and so the number
  of orders that get one more is the number of shares left over
  (`FirstOf`). The invariant, `MarketInv`, is the ledger (money and shares of all
  accounts and the facility add up, nobody is in the red), the constrained book
  (`Book`: positive orders, one per account), that
  each order is paid for at its own limit (`Backed`), and that the clearing
  waiting for settlement is the auction of that book. A settlement is then
  refused only when the facility lacks what the fills borrow; in a cell, whose
  facility holds the sum of the credit lines, that cannot be, since each
  account borrows within its own line. For the records, an average of two prices,
  rounded half up, lies between them (`AverageIsBetween`). `CellIsMarket` maps
  each step of the cell to one of the market or to a stutter: an audit that
  passes is the market's `Settle`, since what the cell carries over is what its
  settlement returned for the accounts and the facility of the round, and
  the snapshot of a round is still its last price when it is cleared. Maximal volume follows from the candidate
  prices: at a price between two limits demand and supply are those of a limit.
- The endpoint study, also in `V2MarketProofs`, whose lemmas about sums and parts
  of finite sets it uses: `OneBlockIsLost`, `VerdictsAreQuiet`, `SummariesAddUp`,
  for any conditions, waves, cases, answers and faults. First the plan: the
  rotation of a wave is one-to-one (`RotationIsOneToOne`), so that no request
  stands in two blocks (`BlocksAreDisjoint`) and all blocks together fill
  every cell with each replicate once (`CellIsFull`). Then the invariant,
  `StudyInv`: before the block under way every request is done and after it
  untouched (`Progress`); the files hold the earlier blocks and part of this one
  (`OnFile`); a manifest, in memory or on disk, has the rows of whole blocks that
  are public (`Claims`). The counters bound one another, and the numbers of
  tried and answered requests, whatever raised (`Accounts`), and are equal while
  nothing did (`Smooth`). `Verdicts` lets a manifest have a verdict only at the
  end, where by `Progress` no coroutine is alive, and `Sealed` says what a
  finished one holds. The table adds up because the rows are partitioned into
  cells, which turns sums over cases into cardinalities.

The type invariants, `LinksOnlyToAccepted`, `LoadBounded`,
`BaselineUntouched` and `CascadeOrder` are proved and not checked by a run.

Only model-checked: liveness, which is the three `Concludes` under the fairness
of section 4. Every safety property of a passing run has its theorem.

## 6. Findings

`counted_on_looks`: a plain file at a flat path is refused for reuse and left
in place by the publication, and its health is then taken for that of the fresh
child (`sweep.py:85`), against `driver_utils.py:424`: "the old file is never
counted merely because its name and health field look plausible".

Observed while modelling, and part of the models, without a run of their own:

- An event log can hold `RunFinished` and `RunFailed` (`provenance.py:1056`),
  which `docs/MANAGED_RUN_LIFECYCLE.md:58` excludes; the manifest is right in
  that case (`FailedIsSealed`).
- An accepted manifest in doubt can be judged reusable when it is read directly,
  and be taken back afterwards; a link never leads to one (`ReuseIsSound` names
  the exception). A published run whose last write failed lacks its entry in
  `legacy_links` and is refused through its link.
- `leverage.py:56` says a book is liquidated while it is solvent. The first
  check comes at the news, after rounds without one.
- The multi-event driver stores a decision before it appends the record
  (`multi_event.py:1646`); if the append raises, the selection and the counts of
  `docs/MULTI_EVENT_PROTOCOL.md:345` differ. The analysis refuses such
  evidence (`AnalysisIsSound`).
- Live analysis also refuses a finished driver when a declared attempt never
  made a directory, when a dead attempt left one without a manifest, or when a
  later driver extended the series; and a child that never got a response from
  its model.
- The retry evidence of a recording with cache hits does not close, because a
  hit has no attempt. The multi-event protocol runs without the cache.
- An interrupt between `Popen` and the wait leaves the Codex child alive
  (`codex_exec.py:499`); a two-second join may judge a stream cut short
  (never as a success with a different answer: `CasesAddUp`); a call that raised
  before it had metadata gives its row the metadata of the call before it.

## 7. Abstractions, and what is not modelled

- *Data.* Prompts, answers, texts and floats are left out; an order is any order
  within `Sizes` or `Quantities`. A health is good or bad relative to the
  threshold, so that the rounding of `bad_frac` and a run without orders are
  outside the model. An identity is a value, or a free choice (`fits`).
- *ManagedRun.* One process, one attempt. A symlink replaces as `os.replace`
  does; an `os.write` is whole or absent. Secrets, config hashes and the content
  of artefacts are left out. *ReuseGate*: a link that leads to another run is
  that run's assessment; a behaviour holds one assessment; the audit of legacy
  inputs is left out.
- *RecordReplay.* The simulation asks all agents in one batch per round; the
  synchronous `complete` path of single requests and schemas below 1.1 are left
  out. *AttemptEvidence*: triggers, hashes and model aliases are reduced to
  whether a response was had; token fields are left out.
- *LeveragedMarket.* Liquidity is constant; voluntary portfolios only record
  fills and are left out; float comparisons are exact; the floor of one cent is
  not reached with the default impact. A liquidation called in the last round
  is queued and never applied, as in the code.
- *V2.* Only the credit arm is run, the finite arm is its case without credit.
  The random choice of actions and intensities is any choice, of the uniform
  draws as well; a limit is any price between those of the two extreme offsets,
  of which whole basis points reach only some when prices are high.
- *AttentionCampaign.* Training and evaluation succeed or raise; the offline
  teacher is the pool of one worker; the dry run and token counts are left out.
- *EndpointStudy.* Of an exception only whether it rejects the seed parameter is
  kept. *CodexQualification*: the executable is assumed to stay the one that was
  probed (the code checks it once); callers are sequential, so the process-wide
  lock has no contention; case evaluation and aggregation are left out.
- *AttemptSeries.* Attempts found under names the protocol does not allow are
  refused at once. A verdict is healthy, unhealthy, or not to be judged.
  *AttemptAnalysis*: the evidence of a driver that did not finish is dropped, as
  no analysis opens it; the line of a slot that was never launched does not
  fail; live or archival mode is the reader's choice; the plan and its source
  snapshots are left out.
- *DriverJobs.* A driver runs once; its memory is forgotten when it dies. The
  wait for an endpoint is one step. Two jobs with the same slot (`--seeds 1 1`)
  are not modelled, nor `grid2x2.py`, which records each result as it
  completes. That the driver's own `latest` cannot be published is a child
  that returns without linking. Two drivers of different identity share file
  names; a backed count is then a healthy run of the slot, of either identity.
- *Not modelled.* The components marked so in `PROJECT.json`: configuration and
  identities (pure validation and hashing), entrypoints (wiring), reference
  data, analysis scripts (statistics over finished results); and the numerics of
  agents, contagion, validation, features, students and bootstrap intervals.

## 8. Plan

Done, in this order: the managed run, the V2 market and its experiment, the
leverage loop, the multi-event series, the drivers; then the recorder with
replay, cache and retry evidence, the reuse gate, the analysis, the three
campaigns, and the refinement of the lifecycle. Next, by importance:

1. `driver_overlap` with two slots or two identities, and liveness of
   `DriverJobs`; a cell of the finite financing arm.
2. The plan of the multi-event protocol: source snapshots and runtime
   identities that the analysis binds to the children.
3. `grid2x2.py`, which records while its pool works; `archive_rejected_result`.
