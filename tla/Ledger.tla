------------------------------- MODULE Ledger -------------------------------
(***************************************************************************)
(* The store (v2/src/store/mod.rs and query.rs): experiments, immutable    *)
(* quote evidence and the append-only record of decisions and fills, all   *)
(* in one SQLite file.  Every operation is one IMMEDIATE transaction of    *)
(* the single writer, so it is one action here; an operation that returns  *)
(* an error rolls back and changes nothing.                                *)
(***************************************************************************)
EXTENDS Execution, FiniteSets

CONSTANTS
  Catalogue,          \* pack id -> reviewed market data pack
  ReviewedStrategies, \* strategy version id -> reviewed artifact, for those whose
                      \* compiled-in source and research output agree with it
  ReviewedInputs,     \* research input id -> reviewed manifest
  Specs,              \* experiment specifications callers send
  Imports,            \* quote imports callers send
  Requests,           \* simulation requests callers send
  Receipts            \* readings of the wall clock at an import

ASSUME ReceiptsAssumption == \A now \in Receipts : IsTimestamp(now)
ASSUME RequestsAssumption ==
  \A req \in Requests : req.decision_at \in Int /\ req.signal.side \in Sides
ASSUME SpecsAssumption ==
  \A spec \in Specs :
    {"strategy", "initial_cash"} \subseteq DOMAIN spec /\ spec.initial_cash \in Int
ASSUME ImportsAssumption ==
  \A input \in Imports :
    /\ {input.available_at, input.quote.observed_at} \subseteq Int
    /\ input.execution # None =>
         /\ input.execution.side \in Sides
         /\ {input.execution.price, input.execution.available,
             input.execution.observed_at} \subseteq Int

VARIABLES
  packs,        \* v2_market_data_packs: pack id -> pack
  inputs,       \* v2_research_inputs: research input id -> manifest
  artifacts,    \* v2_strategy_artifacts: strategy version id -> artifact
  experiments,  \* v2_experiments: cycle id -> [spec, status, manifest]; a pack's
                \* manifest is stood for by the pack id it names
  evidence,     \* v2_quote_evidence: quote reference -> evidence
  runs,         \* v2_simulation_runs in id order
  fills         \* v2_fills in id order: [run, fill]

vars == <<packs, inputs, artifacts, experiments, evidence, runs, fills>>
catalogue == <<packs, inputs, artifacts>>

DefaultPack == "cn-offline-fixture-pack-1"
PolicyVersion == "v2-paper-policy-6"

\* A table is a function on the primary keys it holds.
Put(table, key, row) ==
  [k \in DOMAIN table \cup {key} |-> IF k = key THEN row ELSE table[k]]
Holds(table, key, row) == key \in DOMAIN table /\ table[key] = row
Agrees(table, key, row) == key \in DOMAIN table => table[key] = row

\* Mutant of Register: nothing is inserted.
RegisterNothing(table, key, row) == table

Register(table, key, row) == IF key \in DOMAIN table THEN table ELSE Put(table, key, row)

(***************************************************************************)
(* Experiments.                                                            *)
(***************************************************************************)
\* validate_experiment_spec.  An artifact whose digests or whose research output
\* this build cannot confirm is as good as not among the reviewed ones; which of
\* the checks fails is not told apart, but for the case of CreateReply.
SpecValid(spec) ==
  /\ spec.schema_version = 1
  /\ {spec.cycle_id, spec.strategy.strategy_version_id,
      spec.strategy.research_input_id} \subseteq Keys
  /\ spec.initial_cash > 0
  /\ spec.policy = PolicyVersion
  /\ spec.pack \in DOMAIN Catalogue
  /\ spec.strategy.strategy_version_id \in DOMAIN ReviewedStrategies
  /\ spec.strategy = ReviewedStrategies[spec.strategy.strategy_version_id]
  /\ spec.strategy.research_input_id \in DOMAIN ReviewedInputs
  /\ spec.strategy.research_input_digest
       = ReviewedInputs[spec.strategy.research_input_id].content_digest

\* load_experiment: every read verifies what the experiment refers to.
ExperimentError(c) ==
  IF c \notin DOMAIN experiments THEN "experiment_not_found"
  ELSE LET spec == experiments[c].spec IN
       IF ~SpecValid(spec) THEN "invalid_experiment_spec"
       ELSE FirstReason(<<
         When(~Holds(packs, spec.pack, Catalogue[spec.pack]), "pinned_market_snapshot_mismatch"),
         When(experiments[c].manifest # Catalogue[spec.pack].pack_id,
           "experiment_pack_reference_mismatch"),
         When(spec.cycle_id # c, "experiment_identity_mismatch"),
         When(~Holds(artifacts, spec.strategy.strategy_version_id, spec.strategy),
           "experiment_artifact_mismatch"),
         When(~Holds(inputs, spec.strategy.research_input_id,
                  ReviewedInputs[spec.strategy.research_input_id]),
           "pinned_research_input_mismatch") >>)

\* Mutant of FileLoads: the file must hold what the program holds.
FileIsLatest ==
  /\ \A id \in DOMAIN Catalogue : Holds(packs, id, Catalogue[id])
  /\ \A id \in DOMAIN ReviewedInputs : id \in DOMAIN inputs => inputs[id] = ReviewedInputs[id]
  /\ \A c \in DOMAIN experiments : ExperimentError(c) = ""

\* Mutant of FileLoads: a file with the right schema is opened.
FileLoadsUnread == TRUE

\* What a start reads of an existing file before it accepts it: every pack and
\* input on file is the one this program carries, every experiment loads.
FileLoads ==
  /\ \A id \in DOMAIN packs : Holds(Catalogue, id, packs[id])
  /\ \A id \in DOMAIN inputs : Holds(ReviewedInputs, id, inputs[id])
  /\ \A c \in DOMAIN experiments : ExperimentError(c) = ""

PackOf(c) == packs[experiments[c].spec.pack]
VersionsOf(pack) == <<pack.calendar.version, pack.sessions.version, pack.instruments.version>>

(***************************************************************************)
(* Evidence.                                                               *)
(***************************************************************************)

\* Mutant of StoredEvidence: the pack is not part of the key.
EvidenceOfAnyPack(ref) ==
  LET named == {r \in DOMAIN evidence : r.source = ref.source /\ r.quote_id = ref.quote_id}
  IN IF named = {} THEN None ELSE evidence[CHOOSE r \in named : TRUE]

StoredEvidence(ref) == IF ref \in DOMAIN evidence THEN evidence[ref] ELSE None

\* verify_instrument_identity.
InstrumentPinned(pack, ev) == ev.instrument = Identity(pack.instruments, ev.quote.symbol)

\* The store adds what the import does not say: the identity the pack gives
\* the symbol and the time of receipt.
EvidenceFrom(input, now) ==
  [schema_version |-> 5, pack |-> input.pack,
   instrument |-> Identity(packs[input.pack].instruments, input.quote.symbol),
   available_at |-> input.available_at, quote |-> input.quote,
   execution |-> input.execution, received_at |-> now]

SameImport(ev, input) ==
  /\ ev.quote = input.quote
  /\ ev.available_at = input.available_at
  /\ ev.execution = input.execution

\* load_market_pack: the pack asked for is a reviewed one, on file as reviewed.
PackError(id) ==
  IF id \notin DOMAIN Catalogue THEN "unsupported_market_data_pack"
  ELSE IF id \notin DOMAIN packs THEN "market_data_pack_missing"
  ELSE IF packs[id] # Catalogue[id] THEN "pinned_market_snapshot_mismatch"
  ELSE ""

\* An identity already stored is only compared with the new payload; the
\* receipt time of the first import stands.
IngestReply(input, now) ==
  LET ref == QuoteRef(input.pack, input.quote)
      stored == StoredEvidence(ref)
  IN
  IF ~ImportValid(input) THEN Err("invalid_quote_import")
  ELSE IF PackError(input.pack) # "" THEN Err(PackError(input.pack))
  ELSE IF ref \notin DOMAIN evidence THEN Ok([evidence |-> EvidenceFrom(input, now), new |-> TRUE])
  ELSE IF ~SameImport(stored, input) THEN Err("quote_identity_payload_conflict")
  ELSE IF ~InstrumentPinned(packs[input.pack], stored) THEN Err("stored_instrument_identity_mismatch")
  ELSE Ok([evidence |-> stored, new |-> FALSE])

(***************************************************************************)
(* Portfolio projections: fills are applied in order, never re-decided.    *)
(***************************************************************************)
OwnRuns(c) == {i \in DOMAIN runs : runs[i].request.cycle_id = c}

StoredFill(i) ==
  IF \E f \in DOMAIN fills : fills[f].run = i
    THEN fills[CHOOSE f \in DOMAIN fills : fills[f].run = i].fill
    ELSE None

ApplyNext(book, fill) == IF book.ok THEN Apply(book.value, fill) ELSE book

\* Result of applying a sequence of fills to a new portfolio; None is a row
\* that is not selected.
Project(cash, sequence) ==
  LET book[n \in 0..Len(sequence)] ==
        IF n = 0 THEN Ok(NewPortfolio(cash))
        ELSE IF sequence[n] = None THEN book[n-1]
        ELSE ApplyNext(book[n-1], sequence[n])
  IN book[Len(sequence)]

\* Mutant of LoadState: the fills of every experiment.
LoadStateOfAll(c) ==
  Project(experiments[c].spec.initial_cash, [n \in DOMAIN fills |-> fills[n].fill])

\* load_state: the fills of the experiment in fill order.
LoadState(c) ==
  Project(experiments[c].spec.initial_cash,
          [n \in DOMAIN fills |->
             IF runs[fills[n].run].request.cycle_id = c THEN fills[n].fill ELSE None])

\* The portfolio after some of its runs, in run order.
StateAfter(c, selected) ==
  Project(experiments[c].spec.initial_cash,
          [i \in DOMAIN runs |-> IF i \in selected THEN StoredFill(i) ELSE None])

\* The dated view of `state': the end of a day.
RunsUpTo(c, day) == {i \in OwnRuns(c) : DayOf(runs[i].request.decision_at) <= day}

AsOfView(c, day) ==
  [state |-> StateAfter(c, RunsUpTo(c, day)), runs_total |-> Cardinality(RunsUpTo(c, day))]

(***************************************************************************)
(* submit.                                                                 *)
(***************************************************************************)
SameSignal(run, req) ==
  /\ run.request.cycle_id = req.cycle_id
  /\ run.request.strategy_version_id = req.strategy_version_id
  /\ run.request.signal_id = req.signal_id

\* Mutant of PriorRuns: repetitions are not looked for.
NoPriorRuns(req) == {}

PriorRuns(req) == {i \in DOMAIN runs : SameSignal(runs[i], req)}

OwnershipError(req) ==
  LET spec == experiments[req.cycle_id].spec IN
  FirstReason(<<
    When(req.schema_version # 4, "unsupported_contract_version"),
    When(req.strategy_version_id # spec.strategy.strategy_version_id, "experiment_strategy_mismatch"),
    When(req.quote_ref.pack # spec.pack, "experiment_quote_data_pack_mismatch") >>)

\* Mutant of PinnedIntact: missing evidence is compared too.
PinnedIntactOrStillMissing(run, pack) ==
  StoredEvidence(run.request.quote_ref) = run.evidence

\* The evidence a run pinned must still be what the store holds; a run that
\* pinned nothing stays as it is whatever was imported since.
PinnedIntact(run, pack) ==
  run.evidence # None =>
    /\ run.request.quote_ref = QuoteRef(run.evidence.pack, run.evidence.quote)
    /\ InstrumentPinned(pack, run.evidence)
    /\ StoredEvidence(run.request.quote_ref) = run.evidence

\* Mutant of DuplicateReply: the recorded run is answered as a new one.
DuplicateReplyAsFresh(req, i, pack) ==
  IF runs[i].request # req THEN Err("same_signal_identity_with_different_request")
  ELSE Ok([id |-> i, run |-> runs[i], duplicate |-> FALSE])

\* A repeated signal is answered from the record, before the status of the
\* experiment and the order of decisions are looked at.
DuplicateReply(req, i, pack) ==
  LET run == runs[i] IN
  IF run.versions # VersionsOf(pack) THEN Err("run_market_version_mismatch")
  ELSE IF run.request # req THEN Err("same_signal_identity_with_different_request")
  ELSE IF ~PinnedIntact(run, pack) THEN Err("stored_evidence_mismatch")
  ELSE Ok([id |-> i, run |-> run, duplicate |-> TRUE])

\* Mutant of InOrder: the order is checked against the first decision.
InOrderAfterFirst(req) ==
  \A i \in OwnRuns(req.cycle_id) :
    (\A j \in OwnRuns(req.cycle_id) : i <= j) =>
      req.decision_at >= runs[i].request.decision_at

\* Append-only: the decision may not precede the experiment's last one.
InOrder(req) ==
  \A i \in OwnRuns(req.cycle_id) :
    (\A j \in OwnRuns(req.cycle_id) : j <= i) =>
      IsTimestamp(req.decision_at) /\ req.decision_at >= runs[i].request.decision_at

OrderError(req) ==
  IF IsTimestamp(req.decision_at) THEN "out_of_order_decision_requires_separate_replay_branch"
  ELSE "invalid_decision_time"

NextRun == Len(runs) + 1

\* A decision becomes the next run, an error of it no run at all.
DecidedReply(req, pack, ev, decision) ==
  IF ~decision.ok THEN decision
  ELSE Ok([id |-> NextRun, duplicate |-> FALSE,
           run |-> [request |-> req, outcome |-> decision.value, evidence |-> ev,
                    versions |-> VersionsOf(pack)]])

FreshReply(req, pack) ==
  LET book == LoadState(req.cycle_id)
      ev == StoredEvidence(req.quote_ref)
  IN IF ~book.ok THEN book
     ELSE IF ev # None /\ ~InstrumentPinned(pack, ev) THEN Err("stored_instrument_identity_mismatch")
     ELSE DecidedReply(req, pack, ev, Decide(book.value, req, ev, pack))

\* Mutant of Accepting: completion does not close the experiment.
AlwaysAccepting(c) == TRUE

Accepting(c) == experiments[c].status = "active"

SubmitReply(req) ==
  IF ExperimentError(req.cycle_id) # "" THEN Err(ExperimentError(req.cycle_id))
  ELSE IF OwnershipError(req) # "" THEN Err(OwnershipError(req))
  ELSE IF PriorRuns(req) # {}
    THEN DuplicateReply(req, CHOOSE i \in PriorRuns(req) : TRUE, PackOf(req.cycle_id))
  ELSE IF ~Accepting(req.cycle_id) THEN Err("experiment_completed")
  ELSE IF ~InOrder(req) THEN Err(OrderError(req))
  ELSE FreshReply(req, PackOf(req.cycle_id))

(***************************************************************************)
(* verify_replay: decide every run again from what it pinned.              *)
(***************************************************************************)
Owned(c, req) ==
  /\ req.cycle_id = c
  /\ req.quote_ref.pack = experiments[c].spec.pack
  /\ req.strategy_version_id = experiments[c].spec.strategy.strategy_version_id

\* Mutant of PinnedEvidence: replay looks the evidence up again.
LatestEvidence(run) == StoredEvidence(run.request.quote_ref)

\* Missing evidence is a pinned fact too.
PinnedEvidence(run) == run.evidence

\* The run is still one the experiment could have recorded at this place.
RunIntact(c, pack, run, previous_at) ==
  /\ run.versions = VersionsOf(pack)
  /\ Owned(c, run.request)
  /\ run.request.decision_at >= previous_at
  /\ run.evidence # None =>
       /\ InstrumentPinned(pack, run.evidence)
       /\ StoredEvidence(run.request.quote_ref) = run.evidence

\* The replay goes on from the recorded outcome only if it was found again.
Confirm(acc, i, calculated) ==
  LET fill == calculated.value.fill IN
  IF \/ ~calculated.ok
     \/ calculated.value # runs[i].outcome \/ fill # StoredFill(i)
     \/ fill # None /\ ~Apply(acc.state, fill).ok
    THEN [acc EXCEPT !.ok = FALSE]
  ELSE [ok |-> TRUE, previous_at |-> runs[i].request.decision_at,
        state |-> IF fill = None THEN acc.state ELSE Apply(acc.state, fill).value]

ReplayRun(c, acc, i) ==
  IF ~acc.ok THEN acc
  ELSE IF ~RunIntact(c, PackOf(c), runs[i], acc.previous_at) THEN [acc EXCEPT !.ok = FALSE]
  ELSE Confirm(acc, i, Decide(acc.state, runs[i].request, PinnedEvidence(runs[i]), PackOf(c)))

Replayed(c) ==
  LET start == [ok |-> TRUE, previous_at |-> 0,
                state |-> NewPortfolio(experiments[c].spec.initial_cash)]
      walk[n \in 0..Len(runs)] ==
        IF n = 0 THEN start
        ELSE IF n \in OwnRuns(c) THEN ReplayRun(c, walk[n-1], n)
        ELSE walk[n-1]
  IN walk[Len(runs)]

\* The portfolio the fills give is the one the replay ended with.
EndsAsRecorded(c, replayed) == replayed.ok /\ LoadState(c) = Ok(replayed.state)

VerifyReplay(c) == ExperimentError(c) = "" /\ EndsAsRecorded(c, Replayed(c))

(***************************************************************************)
(* Operations.                                                             *)
(***************************************************************************)
Init ==
  /\ packs = [id \in {DefaultPack} |-> Catalogue[id]]
  /\ inputs = <<>> /\ artifacts = <<>> /\ experiments = <<>> /\ evidence = <<>>
  /\ runs = <<>> /\ fills = <<>>

RegisterReviewedPack(id) ==
  /\ Agrees(packs, id, Catalogue[id])
  /\ packs' = Register(packs, id, Catalogue[id])
  /\ UNCHANGED <<inputs, artifacts, experiments, evidence, runs, fills>>

\* A second creation with the same content only reads the experiment back.
CreateExperiment(spec) ==
  LET input == spec.strategy.research_input_id
      strategy == spec.strategy.strategy_version_id
  IN /\ SpecValid(spec)
     /\ spec.cycle_id \notin DOMAIN experiments
     /\ Agrees(packs, spec.pack, Catalogue[spec.pack])
     /\ Agrees(inputs, input, ReviewedInputs[input])
     /\ Agrees(artifacts, strategy, spec.strategy)
     /\ packs' = Register(packs, spec.pack, Catalogue[spec.pack])
     /\ inputs' = Register(inputs, input, ReviewedInputs[input])
     /\ artifacts' = Register(artifacts, strategy, spec.strategy)
     /\ experiments' = Put(experiments, spec.cycle_id,
                           [spec |-> spec, status |-> "active",
                            manifest |-> Catalogue[spec.pack].pack_id])
     /\ UNCHANGED <<evidence, runs, fills>>

CompleteExperiment(c) ==
  /\ c \in DOMAIN experiments
  /\ VerifyReplay(c)
  /\ experiments' = [experiments EXCEPT ![c].status = "completed"]
  /\ UNCHANGED <<packs, inputs, artifacts, evidence, runs, fills>>

\* Mutant of IngestQuote: INSERT OR REPLACE.
IngestQuoteReplacing(input, now) ==
  /\ ImportValid(input)
  /\ PackError(input.pack) = ""
  /\ evidence' = Put(evidence, QuoteRef(input.pack, input.quote), EvidenceFrom(input, now))
  /\ UNCHANGED <<packs, inputs, artifacts, experiments, runs, fills>>

\* A repeated import is answered with what is stored and writes nothing.
IngestQuote(input, now) ==
  LET reply == IngestReply(input, now) IN
  /\ reply.ok
  /\ reply.value.new
  /\ evidence' = Put(evidence, QuoteRef(input.pack, input.quote), reply.value.evidence)
  /\ UNCHANGED <<packs, inputs, artifacts, experiments, runs, fills>>

\* The run and its fill are inserted in one transaction.
Submit(req) ==
  LET reply == SubmitReply(req) IN
  /\ reply.ok
  /\ ~reply.value.duplicate
  /\ runs' = Append(runs, reply.value.run)
  /\ fills' = IF reply.value.run.outcome.fill = None THEN fills
              ELSE Append(fills, [run |-> reply.value.id,
                                  fill |-> reply.value.run.outcome.fill])
  /\ UNCHANGED <<packs, inputs, artifacts, experiments, evidence>>

Next ==
  \/ \E id \in DOMAIN Catalogue : RegisterReviewedPack(id)
  \/ \E spec \in Specs : CreateExperiment(spec)
  \/ \E c \in DOMAIN experiments : CompleteExperiment(c)
  \/ \E input \in Imports, now \in Receipts : IngestQuote(input, now)
  \/ \E req \in Requests : Submit(req)

Spec == Init /\ [][Next]_vars
=============================================================================
