# Verification of the paper-trading ledger (v2)

TLA+ models, TLC runs and TLAPS proofs for the Rust program in `v2/`: a paper-trading gateway for
A-shares that keeps experiments, quote evidence and an append-only record of decisions and fills in
one SQLite file. Paths below are relative to `src/`.

Contents: 1 the system, 2 the plan, 3 the modules, 4 the runs, 5 the proofs, 6 what is only
model-checked and what is not modelled, 7 what was found, 8 how to run it.

## 1. The system

### 1.1 Components

| Component | Source | State it keeps | Operations |
|---|---|---|---|
| Market rules | `v2/src/domain/{calendar,instrument,execution}.rs`, `v2/data/*.json` | none (compiled-in data) | `classify`, `rejection`, `evidence_at`, `quantity_rule_at` |
| Portfolio | `v2/src/domain/portfolio.rs` | cash, lots in order of purchase | `new`, `quantity`, `sellable_quantity`, `apply` |
| Execution policy | `v2/src/domain/{execution,contract}.rs` | none (pure) | `validate_quote_import`, `validate_evidence`, `decide` |
| Store, writes | `v2/src/store/mod.rs` | the eight SQLite tables | `register_reviewed_pack`, `create_experiment`, `complete_experiment`, `ingest_quote`, `submit` |
| Store, reads | `v2/src/store/query.rs` | none | `state`, `runs`, `verify_replay`, `verify_research_reproduction` |
| Opening a file | `v2/src/store/mod.rs` `with_connection` | application id, schema version, tables | acceptance checks, WAL switch, schema transaction |
| HTTP gateway | `v2/src/main.rs` | one `Mutex<Store>`, requests waiting for it | one route per store operation, status codes |
| Releases | the reviewed catalogue in `v2/src/store/mod.rs` | definitions compiled into a build | accept or refuse a file another build wrote |
| Canonical JSON and digests | `v2/src/domain/digest.rs` | none (pure) | `sha256_hex`, `canonical_json_text`, `normalize_newlines` |
| Research producer | `v2/research/{run_research,research_contract}.py`, `strategies/` | source, frozen input, artifact and output files | `--check`, `--emit`, one rule per strategy |
| Research worker | `v2/research/worker.py` | none | posts one request to the gateway |
| Web page, demos, scanner, CI | `v2/web`, `v2/scripts`, `v2/examples`, `scripts/` | none | display, drive, scan |

### 1.2 How they interact

- A client (the research worker, a demo, a test) sends HTTP requests. The gateway takes its mutex,
  calls one store operation and answers with the result or the error. Requests are thus serialised
  inside one process, and the client may never see an answer that was committed.
- Each writing operation of the store is one `IMMEDIATE` SQLite transaction: it reads, decides and
  writes under the write lock, and any `?` on the way rolls everything back.
- `submit` loads the experiment (which re-verifies pack, strategy artifact and research input),
  answers a repeated signal from the record, refuses a completed experiment and a decision out of
  order, rebuilds the portfolio by applying the recorded fills, looks the quote evidence up, calls
  `decide`, and inserts the run and, when there is one, its fill.
- `verify_replay` decides every run again from the evidence the run pinned, and compares outcome,
  fill and final portfolio. `complete_experiment` requires it to succeed.
- The producer writes the artifact and the output of a strategy from its source and a frozen input. All
  four are compiled into the kernel, which recomputes every digest but cannot run the strategy.
- A database file outlives the build that made it: the next build judges its rows by its own catalogue.
- Several experiments share the run, fill and evidence tables. A quote is identified by pack, source
  and name, and may be used by several experiments (they are counterfactuals of each other, ADR-001);
  nothing counts how much of its visible quantity has been used.

### 1.3 What is hard

- *Retries.* A client repeats a request after later decisions, after a quote that was missing has been
  imported, or after completion. It must get the recorded answer, and no second fill.
- *Quotes used twice.* No counter of consumed quantity exists. That one quote supports at most one
  fill of an experiment follows only from the position rule, T+1, same-day freshness and the order
  of decisions taken together.
- *History.* A dated view filters an append-only record by day; it is fixed only because decisions
  are recorded in the order of their instants.
- *Stale evidence.* Missing evidence is recorded as a fact and must stay missing at replay.
- *Shared tables.* Rows of experiments interleave; a projection or a check that looks at another
  experiment's rows leaks state.
- *Boundaries.* Session windows that touch, freshness across midnight, minimum commission and the
  ten per cent budget at a single board lot, checked 64-bit arithmetic.
- *Files.* The WAL switch precedes the schema transaction, so a crash leaves a half-made file, and a file is
  judged by several reads between which another process may initialise it.
- *Reproduction.* Runs are matched to frozen signals by position, quotes by name and pack; evidence may be
  missing, late, of another pack or of the other side.

- *Lost answers.* A client gives up after its own timeout while its request still waits for the mutex, or
  is committed and the answer lost; it repeats, and the abandoned copy may be executed much later.
- *Other readers.* A second process that opened the file reads with several statements and no transaction
  around them, while the gateway commits between any two.
- *Other builds.* The catalogue is code: a file meets builds that never saw its definitions, have edited
  them, or are older than it.
- *Stale research files.* Artifact and output are written one after the other, from files that people edit,
  reformat and check out with other line endings.

`PROJECT.json` lists these hazards line by line with the properties that cover each.

### 1.4 What makes each component correct

- Market rules: every second of a day belongs to exactly the phase published for it.
- Portfolio: units and cash balance against the fills; a sale is first in, first out over lots that
  have waited a day; applying never overspends.
- Execution policy: an order is filled whole or not at all, for the largest quantity the budget
  pays, from fresh evidence of its own side; what was refused as stale never becomes fresh.
- Store, writes: fills mirror runs, decisions are in order, retries get their recorded answer,
  imports are final, completed experiments are final, experiments are isolated.
- Store, reads: replay always verifies, dated views never change, the undated view is the latest.
- Opening a file: a file that is not this program's is never written to; a store is open on a complete file
  only; an interrupted opening leaves nothing that the next one, alone, would refuse.
- Research reproduction: the verdict follows the record and nothing else; what is reported as reproduced
  was traded alike.
- Gateway: what it acknowledged is on record for good; a decision is called new once, however often it was
  sent; a changed payload is told from a repeated one; every call a client keeps repeating is answered.
- Releases: builds that open one file agree on its past; a build that retains the definitions of another
  opens what that one opens.
- Digests: no byte of a message escapes, and line endings are no part of an identity.
- Producer: a signal depends on nothing that comes after it; what it signals, the kernel counts as
  reproduced; both halves accept the same files.

## 2. Plan

Written in this order, each module usable by the next:

1. `MarketRules`, `ReviewedPacks`, `Portfolio`, `Execution`: the pure part. *Done.*
2. `Ledger`, `LedgerProperties`: the store. *Done.*
3. `Account`: the abstract specification of one experiment; `Ledger` implements it. *Done.*
4. `Account_proofs`, `Ledger_proofs`: inductive invariants and the safety that follows. *Done.*

5. `Reproduction`, `ReviewedResearch`, `Research`: `verify_research_reproduction` over the record of
   `Ledger`. *Done.*
6. `StoreOpen`, `StoreOpen_proofs`: the statements of `with_connection` with other processes and crashes
   between them, and the proof of its safety. *Done.*
7. `Handlers`, `Gateway`, `Session`, `Service_proofs`: requests in flight over `Ledger`, what they promise
   without faults, the refinement and its proof. *Done.*
8. `Readers`: the reads of a process that does not hold the mutex, statement by statement. *Done.*
9. The limits of the integers in `MC_Execution`. *Done.*
10. `Releases`: one file under successive builds. *Done.*
11. `Producer`, `Digest`, `Definitions`: the Python half, and what the kernel can know of it. *Done.*

12. `Decision_proofs` and the second part of `Ledger_proofs`: what a decision does to a book, and that the fills
    applied and the record decided again give one book. *Done.*
13. The third part of `Ledger_proofs`: every step of `Ledger` is a step of `Account`, and a reply owes nothing to
    other experiments. *Done.*
14. `Service_proofs`: what a replay beside a writer and a reproduction tell. *Done.*
15. `Releases_proofs`, `Definitions_proofs`: what holds of any builds, sources and inputs. *Done.*
16. `ExecutionProperties`, `Execution_proofs`: what one call of `decide` or `apply` promises, for any arguments. *Done.*

## 3. The modules

| Module | Models | Kind |
|---|---|---|
| `MarketRules` | `calendar.rs`, `instrument.rs`, `SessionPolicy` of `execution.rs` | operators |
| `ReviewedPacks` | the JSON files of `v2/data` compiled into the program | definitions |
| `Portfolio` | `portfolio.rs` | operators |
| `Execution` | import and evidence validation, `decide` | operators |
| `ExecutionProperties` | properties of one call of `decide` or `apply`, the loops as the code writes them | properties of `Execution` |
| `Ledger` | the store: tables as VARIABLES, one action per writing operation | state machine |
| `LedgerProperties` | properties of `Ledger`, the refinement mapping to `Account` | properties |
| `Account` | what an experiment is promised, without tables | abstract state machine |
| `ReviewedResearch` | the frozen research of `v2/data` | definitions |
| `Reproduction` | the verdict of `verify_research_reproduction` on one run | operators |
| `Research` | the verdict on an experiment, its properties | operators over `Ledger` |
| `StoreOpen` | `with_connection`, one action per statement, several processes | state machine |
| `Handlers` | the routes of `main.rs`: answers, effects, status codes | operators over `Ledger` |
| `Gateway` | clients, requests in flight, the mutex, faults | state machine over `Ledger` |
| `Session` | what the gateway promises, without messages and faults | abstract state machine |
| `Readers` | the statements of `query.rs` in another process | state machine beside `Ledger` |
| `Releases` | successive builds on one file | state machine over instances of `Ledger` |
| `Producer` | the strategies and `build_output` of `v2/research` | operators |
| `Digest` | `digest.rs` | operators |
| `DigestProperties` | what is hashed of a message | properties of `Digest` |
| `Definitions` | the research files, their regeneration and both checks | state machine |
| `Decision_proofs` | what `decide` and `apply` do to a portfolio | proofs over `Execution` |
| `Execution_proofs` | what one call promises | proofs over `ExecutionProperties`, `Decision_proofs` |
| `Ledger_proofs` | the record and what it refers to; projections, replay, history; the account of every experiment | proofs over `LedgerProperties`, `Decision_proofs` |
| `Account_proofs` | the safety of an account | proofs over `Account` |
| `Service_proofs` | replay beside a writer, reproduction; answers, conflicts, views, the refinement to `Session` | proofs over `Readers`, `Research`, `Gateway`, `Ledger_proofs` |
| `StoreOpen_proofs` | opening a file | proofs over `StoreOpen` |
| `Releases_proofs` | builds reopen what they wrote | proofs over `Releases` |
| `Definitions_proofs` | the agreement of the two halves, the strategies, the padding | proofs over `Definitions`, `DigestProperties` |
| `MC_*` | instances for TLC | instances |

### 3.1 Ledger and the code

| Variable | Table |
|---|---|
| `packs` | `v2_market_data_packs` |
| `inputs` | `v2_research_inputs` |
| `artifacts` | `v2_strategy_artifacts` |
| `experiments` | `v2_experiments` (specification, status, manifest) |
| `evidence` | `v2_quote_evidence`, keyed by pack, source and quote id |
| `runs` | `v2_simulation_runs` in id order |
| `fills` | `v2_fills` in id order, each with the id of its run |

`v2_meta` holds one constant row, written with the schema and never read, and is left out. `Init` is what `with_connection` leaves
in a fresh file: the default pack is registered and nothing else is there.

| Action | Code | What may fail |
|---|---|---|
| `RegisterReviewedPack` | `register_reviewed_pack` | content differs from what is stored |
| `CreateExperiment` | `create_experiment` | specification invalid, or a registered row differs |
| `CompleteExperiment` | `complete_experiment` | `VerifyReplay` fails |
| `IngestQuote` | `ingest_quote` | import invalid, pack missing, identity taken by another payload |
| `Submit` | `submit` | every error of `SubmitReply` |

Each operation has a *reply* operator (`IngestReply`, `SubmitReply`, `ExperimentError`) that
translates the code's checks in the code's order and yields the answer or the error; the action is
enabled when the reply is a success that writes. An error rolls back, and a repeated request or import
writes nothing, so neither is a step. Properties such as `RetryAlwaysAnswered` speak about the replies.
Interleaving is the order of the actions: a transaction holds SQLite's write lock from its first read,
so no other writer acts in between, whichever process it is in.

The name of an error is modelled where the code can tell one cause from another and a status code or an
answer depends on it. One place is coarser: `SpecValid` is all of `validate_experiment_spec` and
`ReviewedStrategies` has only artifacts whose compiled-in source and research output agree with their digests
(`v2/src/store/mod.rs:623`, 635-642), so a strategy a build cannot confirm is one it does not carry, and which of
the checks failed is told by `CreateReply` alone, where it decides the status code.

`VerifyReplay`, `AsOfView` and `LoadState` are the reads; they change nothing and are operators.

### 3.2 Abstractions

- A date is a day number (day 3 is 2026-01-01, a Thursday) and an instant is seconds in China time;
  sub-second digits and other offsets are left out. `BadTime` stands for text that does not parse.
- Names are strings of the finite set `Keys`; a string outside it stands for a malformed identifier.
  `WellFormedSymbols` stands for the pattern of six digits and an exchange.
- A digest is a value equal only to itself. A strategy artifact is the same as the reviewed one or
  not (`content`). A pack's manifest is stood for by the pack id it names.
- Provenance text (URLs, source hashes, trust wording) of packs and imports is left out, and with it
  the checks that only read that text.
- Money is in cents as in the code. `MaxInt` is the largest amount; every `checked_*` call of the code
  has its overflow branch in the model against that bound.
- `ApplySell` computes in closed form what each lot gives to a sale, and `BuyQuantity` with
  `SizingOverflows` what the countdown of `decide` finds. `ExecutionProperties` has both loops as written (`LoopSell`, `LoopQuantity`), with
  the overflow check of every turn; that they agree is checked by `decision` and proved in `Execution_proofs`.

### 3.3 Account

The account of an experiment has cash, at most one lot per symbol, the day of its latest decision and,
per quote, the number of trades resting on it. Trades cost `Amounts` chosen freely: a purchase at most
a tenth of the cash, a sale never below zero. Days and facts of quotes are all it knows of the market.
`LedgerProperties!ImplementsAccount` maps the record to it: cash and lots are `LoadState`'s, the clock
is the day of the last run of the experiment, uses are counted from the filled runs. Registering a
pack is a stutter.

### 3.4 StoreOpen and the code

`file` is what the properties tell apart of a file on disk: the classes of objects in it, application id,
schema version, whether the default pack is there, whether stored packs and inputs are the reviewed ones,
the experiments, and those whose rows all resolve. `pc[p]` is the statement process p is at, `seen[p]` and
`listed[p]` the local variables `objects`, `app_id`, `version` and `ids`.

| Action | Lines of `store/mod.rs` |
|---|---|
| `ReadObjects`, `ReadApplicationId`, `ReadVersion` | 117-122, and the verdict on them, 123-148 |
| `CheckColumns` | 149-155 |
| `ListExperiments`, `LoadExperiments` | 162-163 and 156-164 |
| `SetJournalMode` | 178, the first write |
| `CreateSchema` | 179-237, one IMMEDIATE transaction; fails when the tables exist |
| `CreateExperiment` | `create_experiment`, seen as its effect on the file |
| `Start`, `Crash` | a process begins to open, ends between two statements |

`Init` is any file: empty, another program's, of V1, of an older schema, damaged, complete, or of this schema
with rows missing. What the checks of lines 123-164 ask for is `Current`: the eight tables and nothing else but
perhaps the index, the identity, and that every pack, input and experiment that is there loads. They do not ask
for the index, for a row of `v2_meta` or for the default pack: a file without that pack is accepted and set to
WAL like any other, and gets the pack with the first experiment on it. `Foreign` is what is neither empty nor
`Current`, `Complete` what is `Current` and has the default pack. The variables `disturbed` and `origin` only
serve the properties: whether somebody else wrote since p started, and whether the file was at first foreign,
without the default pack (`"bare"`), or empty or complete (`"own"`). The accesses to different tables within
one action cannot be told apart by what others write: the schema transaction puts all tables there at
once, and packs and inputs are never changed. The busy timeout is left out: a process that waits for a
lock gets it.

### 3.5 Research and the code

`ReproductionError(c)` is the verdict, `""` for a report: the checks of `verify_research_reproduction` in
the code's order, at the first run that fails one. The frozen input and outputs are those of `v2/data`,
from which imports and requests of the runs are built as the worker builds them.

A run is matched to a frozen signal by its place among the runs of its experiment.

### 3.6 Gateway and the code

`sent` holds copies of calls on their way, `waiting` those whose handler has asked for the mutex, `answers` the
answer on its way to each client. A copy is numbered by its client, so that an abandoned one can be told
from its repetition; the process does not look at the number.

| Action | Code or environment |
|---|---|
| `Send`, `Hear` | a client (`worker.py:69`, the demos) posts its next call or repeats it, and reads the answer |
| `TimeOut`, `NoticeLoss` | its timeout of ten seconds; a connection reset |
| `Arrive` | the handler runs up to `state.lock().await` (`main.rs:46` and the like) |
| `Serve` | it holds the mutex, performs one operation and answers |
| `StorageFails` | the operation fails with a storage error and is rolled back: status 500 |
| `Cancel` | the connection of an abandoned copy is closed, axum drops the handler where it waits |
| `Die`, `Restart` | the process ends; the next one opens the file if everything in it loads |

`Reply` is the answer of a call in full, refusals included; `Writes` says when its transaction commits a change,
which then is the action of `Ledger`. `Status` is the mapping of `api_error`. Waiting is first in, first out, as
tokio's mutex is. A handler that holds the mutex is never dropped, since it does not await before it answers.

A client repeats a call after a storage error, a timeout or a lost connection, and takes every other answer as
final. `worker.py` itself leaves the repetition to whoever runs it. The health route, JSON decoding errors and
a second gateway on the same port (it opens the file, then fails to bind) are left out.

`Session` states the promise: the record changes only when a client performs the call it is at, or an earlier
one it heard refused; an acknowledged call is held; nothing held is lost. A refusal is weaker than an
acknowledgement: of a call sent twice one copy may be refused, because a predecessor is missing, say, while the
other is still on its way and succeeds later.

### 3.7 Readers and the code

SQLite gives a statement the snapshot of the moment it starts, and statements nested in an unfinished one
share its snapshot. `ReadFills` and `CountRuns` are the two statements of the undated view, `ReadDated` the
one of the dated view; `ReplayRuns` is the loop of `verify_replay` with the reads nested in it and
`CompareFills` the `load_state` after it. The rows `LoadExperiment` reads never change once they are there.
`began` and `ended` only serve the properties: how many runs there were when the read began and ended.

What is promised is less than a snapshot: an undated view may count a decision whose fill its cash does not show,
and a sound ledger may be reported as `replay_portfolio_mismatch` when a fill was committed between the two
statements. `FailuresAreRaces` says that this is the only way.

### 3.8 Releases and the code

`Shipped[r]` is the catalogue compiled into build r; its strategies are those whose source and output in that build
agree with the artifact, so a build that `Retains` a strategy retains these too. `Deploy` stops the process and starts a build, which opens
the file if `FileLoads` holds with its catalogue; `Operate` is any action of `Ledger` under that catalogue. A
schema version other than the build's is refused before any of this, in `StoreOpen`.

### 3.9 Producer, Digest, Definitions and the code

`Producer` has the two rules on integer prices (`strategies/momentum.py`, `reversion.py`), `build_output` and the
checks of an input in both halves. A signal id is the tuple its text is formatted from.

`Digest` pads a message of fewer than 2^29 bytes and cuts it into blocks; the compression of a block is taken to be free of collisions,
so a digest is the chain of blocks, or for a value whose text is compared as a whole, the value. A JSON object is
the sequence of its members as written and whether it is spaced; only flat objects occur as a text whose form
matters (the parameters), and their values are integers. How Python and Rust spell floats is left out: no reviewed
parameter is one.

`Definitions` has the files of one strategy and the maintainer: `EditSource`, `EditInput` and `Reformat` change a
file as a commit would, `EmitArtifact` and `EmitOutput` are the two writes of `run_research.py --emit`, with
`Interrupt` between them. `CheckPasses` is `--check`, `Accepted` what `validate_experiment_spec` checks in a kernel
built from the files as they are.

## 4. The runs

Two runs have a liveness property, and only they assume fairness. Elsewhere the program acts only when asked,
and nothing in it waits.

- `opening`: `FairSpec` assumes weak fairness of `Opens(p)` for each process: a started process executes its
  next statement, and one that exited with an error or crashed is started again by its operator
  (`v2/README.md:93` starts the gateway by hand; without a restart nothing could be promised). Crashes are not
  fair and there are at most `MaxCrashes`.
- `gateway`: `FairSpec` assumes weak fairness of each client (it sends, hears, and notices a lost connection), of
  arrival (a request accepted by the server is scheduled), of the hand-over of the mutex and of the restart by
  the operator. Weak fairness of the hand-over is enough because tokio's mutex is first in, first out, and is
  justified because no handler awaits while it holds it. A hand-over is the head of the queue being done with,
  by success, refusal or storage failure alike. Faults are not fair and there are at most `MaxFaults`.

Deadlock checking is off in all runs because each has a finite set of requests, imports, experiments and
grids: once everything has been recorded the store has nothing more to do, which is how the real one
stands when clients fall silent.

| Run | Module, configuration | Properties |
|---|---|---|
| `one_experiment` | `MC_Ledger`, `MC_Ledger_one.cfg` | `BooksIInv`, `ReplayAlwaysVerifies`, `OneFillPerEvidence`, `RoundTrips`, `RetryAlwaysAnswered`, `HistoryNeverChanges`, `CompletedIsFinal` |
| `two_experiments` | `MC_Ledger`, `MC_Ledger_two.cfg` | `RepliesAreIsolated`, `ImplementsAccount`, `ImportAnswersAreFinal` |
| `unpaid_sale` | `MC_Ledger`, `MC_Ledger_cheap.cfg` | `EveryDecisionIsRecorded` (violated, section 7) |
| `opening` | `StoreOpen`, `MC_StoreOpen.cfg` | `OpenIsComplete`, `RefusalsAreRaces`, `ForeignFilesUntouched`, `EveryProcessOpens` |
| `reproduction` | `MC_Research`, `MC_Research_same.cfg` | `ReproductionsAgree`, `VerdictOnlyMovesOn` |
| `opposite_strategies` | `MC_Research`, `MC_Research_both.cfg` | `EvidenceOfTheSignalledSide` (violated, section 7) |
| `account` | `MC_Account` | `OneTradePerQuote` |
| `decision` | `MC_Execution` | `VerdictFollowsTheClock`, `EvidenceExpires`, `NeverDownsized`, `PositionsCanBeClosed`, `PurchasesErrWhereTheLoopDoes`, `SellsLikeTheLoop` |
| `gateway` | `MC_Gateway` | `AcknowledgedIsRecorded`, `FreshOnce`, `ViewsAreCurrent`, `ChangedPayloadConflicts`, `FollowersReproduce`, `ImplementsSession`, `EveryCallAnswered` |
| `readers` | `MC_Readers` | `AnswersAreOfTheirTime`, `FailuresAreRaces` |
| `releases` | `MC_Releases` | `ReleasesAgree`, `RetainingReleasesOpen` |
| `definitions` | `MC_Definitions` | `HalvesAgree`, `OneArtifactOneResearch`, `CheckoutsShareIdentity`, `FollowedSignalsReproduce`, `NothingLooksAhead`, `PadsAsStandard` |

A configuration is `<module>.cfg` where none is named.

**one_experiment.** One experiment with 110 yuan, one stock, four quotes (one for each side on Friday
2026-10-30 and on Monday 2026-11-02) and six requests: two name the Friday purchase quote, two the
Monday sale quote. Every order of import, decision and completion occurs, so quotes arrive before and
after the decisions that name them, purchases follow sales on the same day, and decisions come in and
out of order. Two trading days with a weekend between them are enough for every rule: all of them
compare a day with the day of a lot, of a quote or of the last decision. It checks

- `BooksIInv`: the inductive invariant of the proofs (section 5). It holds the types, that the fill table is
  exactly the fills of the outcomes in order (`FillsMirrorRuns`), that decisions are in the order of their
  instants, and that a filled quote is spent;
- `HistoryNeverChanges`: the view of a day that is over is fixed;
- `ReplayAlwaysVerifies`: what is written can always be decided again;
- `OneFillPerEvidence`: no quote trades twice for an experiment. A lot that counted as sellable on its first
  day would break it here: Friday's purchase quote could be used again after a Friday sale;
- `RoundTrips`: the trades of a stock alternate, and a sale is of the whole quantity of the purchase before it,
  made on an earlier day. Purchase, sale and purchase on three quotes occur. The sizing of a sale and the
  T+1 rule stand in two places, in `decide` and in `apply`, and the position rule in a third;
- `RetryAlwaysAnswered`: a repeated request is answered with its run for ever;
- `CompletedIsFinal`: nothing happens to a completed experiment.

**two_experiments.** Two experiments with different cash, the second on the pack of the first or on the other one,
where quotes have the same names; their signals have the same names too, and their rows interleave in every way.
Each remains an account of its own, and what either asks is answered as if the other were not there. `Amounts`
is the set of costs and proceeds these trades can have, so that the abstract action's choice is enumerable. Two
readings of the clock, and inputs that must be refused: an edited artifact, no cash, another policy, another
schema version, a conflicting import, a level naming another pack, availability before the observation, a
request of another strategy, of another version, naming the other pack, with an unreadable time.

**opening.** Two processes on every file of section 3.4, one experiment, two crashes. Two processes give
every race: both on an empty file, one opening while the other initialises or uses it. Two crashes allow
both to crash, or one to crash twice. It checks

- `ForeignFilesUntouched`: a file that is neither empty nor of this schema with all its rows in order is not
  written to, journal mode included;
- `OpenIsComplete`: a process has the store open only on a file in which everything loads, and which has the
  default pack unless it came with its tables and without it;
- `RefusalsAreRaces`: a file that was empty or of this schema at the start is refused only to a process another one
  disturbed, so a crash leaves nothing that the next start would refuse;
- `EveryProcessOpens`: on such a file every process ends up open for good.

**reproduction, opposite_strategies.** The frozen signals of the bundled strategies; two signals per strategy are
all it has. Reproduction: the momentum strategy in two experiments, the second on either pack, in every
interleaving, with its quotes as frozen, late, never, or one at another price, and one decision nobody froze.
Opposite: momentum and reversion in one file with the imports for either side.

**account.** Three quotes, two days and three amounts: more quotes for one account than `one_experiment`
can afford. Two days are enough because every rule compares a day with the account's clock only.

**decision.** Each state is one input to `decide`, or a portfolio that fills have made, on one of five grids.

- *clock* moves the decision, the quote and the level over the boundaries of sessions, days, the freshness limit
  and the coverage of the snapshot; *day* is each of the 86,400 seconds of one day, with a quote of that second.
- *offer* moves side, price, capacity, cash, lots and the quote's status at one good instant: cash one cent below
  and at what a board lot costs, capacities at and around one and two lots, lots of the day and of the day before.
- *limit* has amounts on both sides of every overflow check: `MaxInt` is 10^8 in this run, and cash, prices and
  lots are chosen so that each of `cash * 1000`, `price * step`, `gross * 3`, `gross * 5` and `cash + net` falls on
  either side of it. Purchases from cash above 2*10^6 are left to the small amounts, because TLC's own integers
  do not hold their budget.
- *fills* is every sequence of up to five fills (`MaxFills`) over two symbols, three days, partial sales included,
  which `decide` never asks for but `apply` accepts. Five allow three lots, a sale across two of them and another
  after it. One start is so near `MaxInt` that a sale is refused for overflow.

**gateway.** Two clients and one fault of any kind at any moment (`MaxFaults` is 1; TLC checks liveness over this
graph in about two minutes). The follower creates an experiment, imports a quote, sends both frozen signals and
asks for the view; the rival sends the first of the same decisions, adds one under a signal id of its own, which
nobody froze, and completes the experiment under the follower. `FollowersReproduce` compares both ways: with all
frozen signals acknowledged the verdict is a reproduction exactly when no other decision is on record
(`v2/src/store/query.rs:193-207`, ADR-003). With one fault each call can be abandoned, lost before or after its
commit, or answered by a storage error; its repetition then races with the abandoned copy and with the rival.
Two faults would mean that the repetition is lost as well; the proofs cover any number of them.
`ChangedPayloadConflicts` compares payloads nobody sends in this run: another amount of cash, another
quantity on offer, a decision changed under its signal id.

**readers.** One reader, one read, beside the two experiments of `two_experiments` with four requests. A read is
three statements at most and keeps nothing of other reads, so one reader meets every interleaving.

**releases.** Five builds: the first carries one pack, the second adds the other, the third has edited the added
pack, the fourth the strategy, the fifth the default pack. Two experiments, one on each pack.

**definitions.** Each state is on one of three walks.

- *files*: two edits and any number of regenerations, interrupted or not. Sources differ in a comment, the rule
  and three kinds of line endings; inputs in a price, the order, the pack, the description, a sequence number 0,
  each with a digest that follows the edit or not; parameters are reordered, spaced or repeated. Two edits give an
  edit after an edit, and one between the two writes of a regeneration.
- *observations*: inputs of up to four entries, with moves just below, on and above both thresholds, equal decision
  times and quote names used twice, and the shipped input. Four entries are two beyond the lookback.
- *bytes*: messages whose length is on either side of 56 and 64 bytes into the first and the second block, ending in
  up to three bytes the padding itself is made of.

`MaxInt` is 2*10^9 in all other runs, below TLC's own integer limit and above every amount their inputs can
reach: overflow is not the question there.

## 5. The proofs

The theorems hold for every value of the constants: any number of experiments, packs, imports, requests, days,
processes, clients, crashes and faults, whatever they contain, and records of any length.

Recursive definitions (sums over lots, the fold of fills, the walk of a replay) are recursive functions, which
reach the provers as a `CHOOSE` of a function. The library's induction theorems take an operator as parameter,
which the installed provers cannot instantiate; `Induct` of `Decision_proofs` does without: a set of naturals with 0
and closed under successor is all of them, since its least missing number would have a predecessor, and the least
one exists by the library's theorem on well-founded relations. With it each recursive function gets a lemma that
it exists and one that says what it is (`BooksExist` and `ProjectIs`, `ReplayExists` and `ReplayedIs`).

Assumptions, each checked by TLC in the runs that extend its module:

| Name | Says | Because |
|---|---|---|
| `MaxIntAssumption` | the largest amount is a natural number, at least 20,000 | it is `i64::MAX`; the sum in the fee formula fits |
| `ReceiptsAssumption` | the clock yields timestamps | `Utc::now` |
| `RequestsAssumption` | instants are integers, a side is one of two | unreadable text is `BadTime`; an enum |
| `SpecsAssumption`, `ImportsAssumption` | amounts and instants are integers, a side is one of two; a specification has a strategy and cash | `i64`; an enum; the fields of the struct |
| `OutputsAssumption` | a frozen output signals something, on the pack of its input | the files of `v2/data` |
| `DaysAssumption`, `DaysAreNumbered`, `AmountsAssumption` | days are positive, amounts are naturals | day numbers, cents |
| `CasesAssumption` | instants and capacities are naturals, multiples at most 1,900, amounts and days of fills integers | the values a call is compared at; `i64`, dates |
| `GridsAreTyped` | the arguments the walks of `decision` put together are of their types (no proof uses it) | shows that `IsCall` holds of them |
| `ProgramAssumption` | clients make calls of the five kinds, with arguments of their kind | the routes and their types |
| `MaxCrashesAssumption`, `MaxFaultsAssumption` | bounds are naturals | |
| `DefaultPackShips` | every build carries the pack a new file is created with | `v2/src/store/mod.rs:235` registers it in every new file |
| `SourcesAssumption`, `InputsAssumption` | a source is a sequence of characters, an input has its fields and numbered entries | both have been read |
| `ShippedOutputsRegenerate` | the frozen outputs are what the strategies signal on the frozen input (no proof uses it) | the files of `v2/data` |

**Ledger.** The record is append-only, but none of its safety properties is inductive alone: a retry is
answered only if the row of evidence the run pinned is still there, which needs the pack still registered,
which needs the experiment's references intact. `IInv` conjoins

- `TypeOK` and `FillsMirrorRuns`;
- `CatalogueIntact`, `ReferencesIntact`, `EvidenceHasPack`: what is registered is what was reviewed, and
  what refers to it finds it;
- `RunsStillOwned`: each run still satisfies the checks that let it in, so its duplicate does;
- `OneRunPerSignal`: the `UNIQUE` key, from the check and not from the database;
- `LastRunExists`, `DecisionsInOrder`: `submit` compares with the last run only, and order against the last
  is order against all.

Most of the step is one lemma, `StepOnlyAdds`: every action leaves the rows it finds, except the status of
an experiment. What an operator reads of a run is then the same before and after (`RunReadsTheSame`), and
only the one new row (`FreshSubmit`, `NewRunIsOwned`) needs an argument. Proved from it:

| Theorem | States |
|---|---|
| `LedgerInvariant`, `LedgerTypeOK` | `IInv`, `TypeOK` in every reachable state |
| `FillsAreMirrored` | `FillsMirrorRuns` |
| `RecordIsInOrder` | `DecisionsInOrder` |
| `ExperimentsAlwaysLoad` | `EveryExperimentLoads` |
| `RetriesAreAnswered` | `RetryAlwaysAnswered`: the idempotence of `submit` |
| `ImportsAreFinal` | `ImportAnswersAreFinal` |

**Account.** `OneTradePerQuote` needs `UsedQuoteIsSpent`: a used quote is not from a later day than the
account's clock, and while its day lasts the account is in a position that refuses another trade on that
side: either it holds a lot bought that day (no purchase, and no sale under T+1), or the quote is for a sale
and the lot is gone. When the day is over no trade may rest on the quote, since a trade and its quote
share the day and the clock does not go back. `LotsArePast` supplies the comparison of lots with the clock.
Theorems: `AccountInvariant`, `AccountTypeOK`, `QuotesAreNotReused`, `AccountsStaySolvent`, `LotsWaitADay`.
They are carried over to the ledger by the refinement below.

**Decisions.** `IsBook` is what every portfolio of an experiment is: cash not negative, lots of positive quantity, one
lot a symbol at most. `FillsTrade` says of any book, request, evidence and pack: if `decide` fills, `apply` accepts the
fill, the outcome's cash is the book's, and the trade is one of two kinds: a purchase opens one lot of a symbol that had
none and costs at most a tenth of the cash (`OpensLot`), a sale clears the whole lot of an earlier day and does not cost
money (`Clears`). Under it lie the lemmas on `ApplySell` and `SellableQuantity`, sums over lots.

**One call.** `decide` and `apply` keep no state, so their properties are of one call, and a behaviour is any sequence of
calls: the theorems are `[]IsCall => []P`. `IsCall` gives the arguments the types of the Rust structs and no more
(cash is within `MaxInt`, prices and amounts on offer are integers, quantities held are positive, sides are two, and `None` is not one of the
records); validity, sizes, days, packs and rules are left to the code's own checks.

- *Which reason.* `decide` returns the first of a list of reasons. `FirstOfSix` and its kin say which one that is from
  which checks passed, `MarketChecked` and `ReasonsChecked` what is known when a given one is returned.
- `OrdersAreTakenWhole`: what is on offer is read by the last check only, after the quantity is fixed (`OfferedPasses`),
  so another offer gives the same order or none (`WholeOrNothing`).
- `EvidenceExpiresOnce`: a staleness reason comes after the checks of day and order, so the evidence is older than the
  limit at that instant and at every later one (`StaleIsTooOld`, `OlderLater`).
- `TheClockDecides`: the seven published instants cut the day into eight phases (`Phases`), and the session of a pack is
  decided by the windows of its policy, closed or half-open as they are (`SessionsFollowThePhases`).
- `TheLoopDecides`: the budget has passed a product with 1,000, so no turn of the loop, which is within the budget, can
  overflow (`AmountsFit`, `TurnsAreInBudget`); and going down, the loop stops at the greatest lot that is affordable
  (`SearchIsBest`), which is the definition of `BuyQuantity` (`LoopIsSizing`).
- `SalesFollowTheLoop`: by induction over the lots, what the loop has left to sell before a lot is the quantity less the
  sellable units before it, or zero (`TurnTakes`, `SalesAgree`).
- `PositionsClose`: a purchase costs a ten-thousandth of `MaxInt` at most (`PurchaseIsPaid`), so 1,900 times its price
  still leaves room for the fees of the sale and for its proceeds beside the cash (`MultiplesFit`, `SaleAmounts`,
  `SaleIsBooked`). The lot it opened is the last and the only one of its symbol, so selling it leaves the lots that were
  there before (`SellingTheLast`).

| Theorem | States |
|---|---|
| `OrdersAreTakenWhole` | `NeverDownsized` |
| `EvidenceExpiresOnce` | `EvidenceExpires` |
| `TheClockDecides` | `VerdictFollowsTheClock` |
| `TheLoopDecides` | `PurchasesErrWhereTheLoopDoes` |
| `SalesFollowTheLoop` | `SellsLikeTheLoop` |
| `PositionsClose` | `PositionsCanBeClosed` |

**Books.** Two computations meet in a portfolio: the fill table applied in order (`LoadState`, `StateAfter`), and the record
decided again (`Replayed`). `BooksIInv` adds to `IInv`

- `EvidenceIsImported`: what is stored is what a valid import said, so its amounts are integers;
- `BooksAgree`: for every experiment the two give one book, and the replay found every outcome again;
- `FillsRestOnEvidence`: a fill is of the symbol, side and day of the evidence its run pinned;
- `FilledIsSpent`: while the day of a fill lasts, the book refuses another trade on its side, since it holds a lot of
  that day (no purchase, and no sale under T+1) or after a sale none;
- `OneFillPerEvidence`.

A step adds one run at most. Books of sequences that begin alike are alike as long as they do (`BooksBeginAlike`,
`ReplayBeginsAlike`), because a step changes no row a replay reads (`RedoneStays`); the new run is decided on the very
book the fills give, so the replay finds it again (`NewRunIsRedone`) and both computations take the same fill
(`OwnBookAgrees`). `OneFillPerEvidence` follows because the second fill would be on the quote's day, which the first has
spent: the day cannot be over, since a quote is only good on its own day and decisions are in order.

`TradesAreRoundTrips` needs more than `BooksIInv`, which does not say where a position comes from. `TradesFollow` adds
it: what a symbol holds is what its last trade left, a lot of that trade's quantity and day after a purchase and
nothing after a sale, and nothing is held that was never traded. A new trade finds the position it needs
(`TradeMoves`), which the trade before it therefore left (`NewRoundTrip`), and leaves its own (`PositionsMove`).

| Theorem | States |
|---|---|
| `FillsTrade` (`Decision_proofs`) | see above |
| `BooksInvariant` | `BooksIInv` in every reachable state |
| `ReplayVerifies` | `ReplayAlwaysVerifies` |
| `EvidenceIsFilledOnce` | `OneFillPerEvidence` |
| `TradesAreRoundTrips` | `RoundTrips` |
| `CompletionIsFinal` | `CompletedIsFinal` |
| `HistoryIsFixed` | `HistoryNeverChanges` |
| `ViewsHaveOneMeaning` | `LoadsAgree`: the undated portfolio is the dated one after every run |

**The ledger implements the account.** `LedgerImplementsAccount` is `AccountCovers => (Spec => ImplementsAccount)`. `AccountCovers` says that the
account speaks of every day and symbol that can occur and of every amount: it bounds the constants of the abstract
module, not what the program may do (TLC enumerates the amounts of its instance instead). One transaction is seen by
one account at most (`Unseen`, `OthersUnseen`); a decision that fills is `OpensLot` or `Clears` on the book before it
(`PurchaseSeen`, `SaleSeen`), uses its quote once more (`QuoteUse`) and moves the clock to its own day (`DecisionSeen`).
`LotsAreDated` is needed because the account writes 0 where there is no lot. `LotsWaitInTheLedger` and
`ExperimentsStaySolvent` carry the account's theorems over.

`ExperimentsAreIsolated` is `RepliesAreIsolated`: `Alone(c)` is the program over a file with nothing in it but `c`, and every
request to `c` gets the same reply from both. Its rows are those of `c`, renumbered: the row with rank `n` becomes row `n`
(`RanksCount`, `RowsKept`), so the last run stays the last (`AloneOrders`) and a repeated request finds its run under the new
number (`AlonePrior`, unique by `OneRunPerSignal`). The portfolio is the same because rows that are not selected may be
left out of a fold (`ProjectPicks`). Evidence is found as before because an owned request only names its own pack's
(`AloneFinds`), and the rules of a decision do not look at the file (`AloneDecides`).

**Readers and research.** A reader tells the truth of *some* record, and the theorems say which.

`FailuresAreOnlyRaces`: `ReaderOK` says of a reader between its two statements that the fills still give the portfolio
its replay ended with, or that a fill of the experiment was committed since it began; that a sound record is found
intact by the first statement is `BooksAgree`.

`AnswersAreTimely`: `At(n)` is the program with the record as it was after its first `n` runs. What it tells of an
experiment is a matter of those runs and their fills (`OwnAt`, `LoadAt`, `DatedAt`; `AtIs`), which a later step does not
change (`AtStays`), so what was so at a moment of the read was so ever after. `TellersIInv` says of each reader which
moment that is: one for the answer of a single statement, and two, in order, for the fills and the count of an undated view.
The two statements of a replay agree on one, for `CompareFills` answers only if the fills give the portfolio the runs gave.

`ReproductionsAlwaysAgree`: two experiments created with one strategy and equal cash that both reproduce its input are on
the pack of that input (`ReproducedPack`), and if all evidence was at hand they have the same outcomes and end with the same
portfolio. Each holds one run for each signal and in the order of the signals (`Places`, `PlacesFilled`), the runs at one
place are of one request and rest on one row of evidence, and so the two records, decided again, go in step (`InStep`,
`AlikeRunsAgree`).

`VerdictsOnlyMoveOn`: the verdict on a run that is there never changes (`RunErrorStays`), so a new run, which comes after
the others, cannot become the first wrong one where there was one (`FirstStays`), and where there was none and as many
runs as signals it is one too many (`VerdictGrows`).

| Theorem | States |
|---|---|
| `FailuresAreOnlyRaces` | `FailuresAreRaces` of `ReadersSpec` |
| `AnswersAreTimely` | `AnswersAreOfTheirTime` of `ReadersSpec` |
| `ReproductionsAlwaysAgree` | `ReproductionsAgree` |
| `VerdictsOnlyMoveOn` | `VerdictOnlyMovesOn` |

**StoreOpen.** No property is inductive alone, since a process acts on what it read some steps ago. `ReadsHold`
says that what an undisturbed process has read is still on disk, `OriginHolds` that a file never turns foreign,
nor stops being so, and keeps its default pack, `ForeignRefused` that nobody is past the
reads of a foreign file, `FreshUnread` that before a file is initialised nobody has read anything of it. A
step is then one of two kinds: one that leaves the file alone (`ReadPreserves`), or one that leaves it
with everything it refers to and disturbs all others (`WritePreserves`); `SetJournalMode` is both and argued by itself. Theorems:
`OpeningInvariant`, `ForeignFilesAreNeverWritten`, `OpenStoresAreComplete`, `OnlyRacesAreRefused`. `EveryProcessOpens`
is liveness and stays with TLC.

**Gateway.** `GatewayKeepsALedger` comes first: every step of the gateway is a step of `Ledger` or leaves its
variables alone, so all theorems about the ledger hold of what lies behind the gateway. `GatewayIInv` adds to the
invariant of the ledger `ClientsOK` (the numbers of calls and copies), `FlightOK` (what is in flight is a copy of
a call its client has reached), `HeardRecorded` and `ComingRecorded` (a success that was heard or is on its way is
in the record). The last two are kept because the record only grows (`RecordedStays`) and because an answer is
made by the very step that records it (`SuccessIsRecorded`). That at most one answer calls a decision fresh is an
induction of its own, `FreshIInv`: two answers to one request, heard or coming, are not both fresh, since the run
of the first was on record (`FreshIsRecorded`) when the second was made. For the refinement, `Serve` performs a
call of `Session` when it writes, `Hear` acknowledges or refuses one, and every other action is a stutter
(`InvisibleStep`): that an abandoned copy performs the call its client is at, or one it heard refused, follows
from `HeardRecorded`, because what was acknowledged is held and writes nothing again (`HeldIsNotWritten`).

| Theorem | States |
|---|---|
| `GatewayInvariant` | `GatewayIInv` in every reachable state |
| `GatewayKeepsALedger` | `GatewaySpec` implies `Spec` of `Ledger` |
| `SuccessesAreRecorded` | `AcknowledgedIsRecorded` |
| `FreshAnswersAreUnique` | `FreshOnce` |
| `GatewayImplementsSession` | `ImplementsSession` |
| `ViewsStayCurrent` | `ViewsAreCurrent` |
| `ChangedPayloadsConflict` | `ChangedPayloadConflicts` |

`ViewsStayCurrent` needs `CurrentView` of every view, heard or coming, for every client: what the client had been told
of when it sent the request is among the first runs the view counts. A view is made by one step under the mutex, of all
runs there are (`NewViewIsCurrent`, from `LoadsAgree`), and first runs stay first (`FirstRunsStay`).
`ChangedPayloadsConflict` is a property of the replies on the invariant of the ledger: for a stored quote it needs that the
instrument identity of the row is still the one its pack gives (`EvidenceHasPack`), or the answer would be an integrity
error instead of a conflict.

`EveryCallAnswered` is liveness and stays with TLC, and so does `FollowersReproduce`, which is about the bundled research.

**Releases.** `RetainersReopen` is `RetainingReleasesOpen`. Whether a build opens a file is a matter of the registered
packs, the research inputs and the experiments (`OpensIntact`), so only a step that writes one of those can turn the
answer, and what it writes has just passed the checks of the build that wrote it (`StepsReopen`, `Registered`,
`CatalogueRowsStay`). `ServedOpens` is the invariant: the build that serves accepts the file. A build that retains the
definitions of another finds every row the other does (`RetainedRows`).

**Definitions.** `FilesInv` says that the artifact is that of some source and some input, with the parameters of the
source written in some way, that the output is that of some source and input, perhaps others, under some digest of
parameters, and that what a regeneration has still to write is whole. A digest is equal to no other value's, so what the
kernel recomputes leads back from the digests to the text as it is read, the entries and the pack; two texts read alike
name the same rule (`RuleAsRead`), and of the texts of one set of parameters one is canonical (`OneCanonicalText`). Files
the kernel accepts are therefore those the strategy gives now (`AcceptedRegenerated`). `Kept`, the items in some places
of a sequence, is a recursive function with the lemmas all those have; sequences that begin alike keep the same
(`KeptBeginsAlike`, `OneMoreKept`), which is `NothingLooksAhead`.

**Padding.** A digest keeps no state, so `PaddingIsStandard` is about any message: `[]IsMessage(message) =>
[]PadsAsStandard`. A message has fewer than 2^29 bytes (`MessageBound`): its length in bits then fits in four bytes. The
parts stand at their places (`PaddedIs`, `Joined`), cutting into blocks loses none of them (`HashedIs`), there is one
way to fill the last block (`OneRest`), and the last bytes tell the number (`BytesOf`). The way back is
`BlocksTellTheMessage`: equal blocks end in the same length, and up to that length hold the same bytes. It is why a
digest may be taken for the value it is of as long as the compression has no collisions.

| Theorem | States |
|---|---|
| `RetainersReopen` | `RetainingReleasesOpen` |
| `HalvesAlwaysAgree` | `HalvesAgree` |
| `ArtifactNamesResearch` | `OneArtifactOneResearch` |
| `VerdictSurvivesCheckout` | `CheckoutsShareIdentity` |
| `NoneLooksAhead` | `NothingLooksAhead` |
| `SignalsReproduce` | `FollowedSignalsReproduce` |
| `PaddingIsStandard` | `PadsAsStandard` |
| `BlocksTellTheMessage` | two messages hashed in the same blocks are one |

## 6. What is only model-checked, what is not modelled

*Only model-checked.* `ReleasesAgree`: the theorems about `Ledger` are needed there of every instance `As(r)`, and
theorems of an instance with a parameter cannot be cited. `FollowersReproduce`: it is about the bundled
research and the one program of the `gateway` run. `EveryProcessOpens` and `EveryCallAnswered`: liveness under fairness,
like `ENABLED`, is beyond this prover.

`OneFillPerEvidence` is a property of one experiment. Two experiments may fill from the same quote by
design: shared offline evidence is a common input to counterfactual simulations (ADR-001).

*Not modelled.* The compression function of SHA-256 is a function of 32-bit words with published vectors, which
a model could only transcribe; it is taken to be free of collisions. Of canonical JSON, flat objects with integer
values are modelled; nested ones only as values compared as a whole. `runs` is a plain listing, the health route
answers a constant, and JSON decoding rejects what no typed request can be. The web page only displays; demos, smoke
tests, the benchmark, the scanner and CI drive or inspect the rest. Provenance fields of the data files (sources,
hashes, URLs) are text the checks compare and nothing decides by. Damage to the file from outside is not a
behaviour of the program: the integrity errors that report it are translated, and the proofs of
`EveryExperimentLoads` and `ReplayAlwaysVerifies` say that the program by itself never causes them.

## 7. What was found

*A sale that cannot pay its fees is not recorded.* `EveryDecisionIsRecorded` fails in `unpaid_sale`: 100 or
more shares bought at five cents and offered at five cents on Monday bring less than the minimum
commission, `next.apply(&fill)?` (`v2/src/domain/execution.rs:324`) returns `invalid_t1_sell`, and `submit`
fails without recording a run. `v2/docs/EXECUTION_EVIDENCE.md:53` says of the decision path that a refusal is
recorded too ("拒绝也落账"). The position stays, and the same request may be sent for ever without leaving a
trace.

*Reproduced from the other side's evidence.* `EvidenceOfTheSignalledSide` fails in `opposite_strategies`. Both
strategies trade the same two quotes, in opposite directions, and a stored quote carries the liquidity of one
side. Whichever side is imported first stands; the strategy that needs the other is refused for want of it,
and `verify_research_reproduction` compares the level with the frozen one of the level's own side
(`v2/src/store/query.rs:228`), so the experiment that could not trade is reported as reproduced.
`v2/docs/ADR-003-REPRODUCIBLE-RESEARCH.md:66` asks for agreement with the liquidity of the direction used, and
line 50 says the frozen snapshot supports signals of either direction. The signals are indeed the frozen ones;
what the report does not show is that the two experiments did not see comparable evidence.

*Observed while modelling*, no contradiction to a document:

- Neither half requires the quote names of a frozen input to differ, while `entry_for`
  (`v2/src/domain/contract.rs:128`) stops at the first: with a name used twice, signals the producer made are not
  reproduced. `FollowedSignalsReproduce` needs `NamesDiffer`.
- The Python half accepts an observation numbered 0, the kernel does not; `HalvesAgree` names the difference.
- The description of an input is outside its digest (`v2/src/domain/contract.rs:113`), but the stored manifest is
  compared as a whole: a release that only rewords the description refuses the files of the one before.
- A file of this schema without the default pack, without a row of `v2_meta` or without the index of the runs is
  accepted (`v2/src/store/mod.rs:142-178`): only what is there is checked.
- A release refuses a file that holds a definition it does not carry, so a rollback behind the release that added
  a pack makes the file unreadable once the pack was registered in it.
- `v2/src/domain/tests.rs:618` checks at the boundary lengths of the padding that the digest is deterministic,
  which a wrong length would be too; `PadsAsStandard` compares with the standard.

*Smaller.* `v2/README.md:165` names SQLite schema version 7 where line 126 and the code have 8.

## 8. Running it

    tlc -config MC_Ledger_one.cfg MC_Ledger
    tlc -config MC_StoreOpen.cfg StoreOpen
    tlc -config MC_Gateway.cfg MC_Gateway
    tlapm Ledger_proofs.tla          (and every other *_proofs.tla)

Each run takes at most four minutes, each proof a few. Operators whose comment begins "Mutant of" are
plausible mistakes in the definition they precede; replacing the definition's body by the mutant makes TLC
violate the property `PROJECT.json` pairs with it, which shows that the property can fail. They are used
nowhere else.
