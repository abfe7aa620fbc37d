------------------------------ MODULE Handlers ------------------------------
(***************************************************************************)
(* The route handlers of the gateway (v2/src/main.rs): each turns one      *)
(* store operation into an answer and a status code.  What the operations  *)
(* of Ledger leave implicit is made explicit here: the answer of every     *)
(* call, refusals and repetitions included, and when a call writes.        *)
(***************************************************************************)
EXTENDS Ledger

CONSTANTS
  Clients,   \* programs that call the gateway
  Program    \* client -> the sequence of its calls

\* A call is [op, arg]; `view' stands for the routes that only read.
Ops == {"create", "quote", "submit", "complete", "view"}

ASSUME ProgramAssumption ==
  \A cl \in Clients :
    /\ Len(Program[cl]) \in Nat /\ DOMAIN Program[cl] = 1..Len(Program[cl])
    /\ \A n \in DOMAIN Program[cl] :
         LET call == Program[cl][n] IN
         /\ call.op \in Ops
         /\ call.op = "create" => call.arg \in Specs
         /\ call.op = "quote"  => call.arg \in Imports
         /\ call.op = "submit" => call.arg \in Requests

(***************************************************************************)
(* Answers.                                                                *)
(***************************************************************************)

\* Mutant of CreateReply: an existing experiment is returned whatever was asked.
CreateReplyOfIdentity(spec) ==
  IF ~SpecValid(spec) THEN Err("invalid_experiment_spec")
  ELSE IF spec.cycle_id \in DOMAIN experiments
    THEN Ok([spec |-> experiments[spec.cycle_id].spec,
             status |-> experiments[spec.cycle_id].status])
  ELSE Ok([spec |-> spec, status |-> "active"])

\* An artifact that is consistent in itself but not the reviewed one.
ArtifactEdited(spec) ==
  LET id == spec.strategy.strategy_version_id IN
  /\ id \in DOMAIN ReviewedStrategies
  /\ spec.strategy # ReviewedStrategies[id]
  /\ SpecValid([spec EXCEPT !.strategy = ReviewedStrategies[id]])

CreateReply(spec) ==
  LET c == spec.cycle_id
      input == spec.strategy.research_input_id
  IN
  IF ArtifactEdited(spec) THEN Err("strategy_artifact_content_mismatch")
  ELSE IF ~SpecValid(spec) THEN Err("invalid_experiment_spec")
  ELSE IF c \in DOMAIN experiments THEN
    IF experiments[c].spec # spec THEN Err("experiment_identity_payload_conflict")
    ELSE IF ExperimentError(c) # "" THEN Err(ExperimentError(c))
    ELSE Ok([spec |-> spec, status |-> experiments[c].status])
  ELSE IF /\ Agrees(packs, spec.pack, Catalogue[spec.pack])
          /\ Agrees(inputs, input, ReviewedInputs[input])
          /\ Agrees(artifacts, spec.strategy.strategy_version_id, spec.strategy)
    THEN Ok([spec |-> spec, status |-> "active"])
    ELSE Err("identity_content_conflict")

CompleteReply(c) ==
  IF ExperimentError(c) # "" THEN Err(ExperimentError(c))
  ELSE IF ~VerifyReplay(c) THEN Err("replay_mismatch")
  ELSE Ok([spec |-> experiments[c].spec, status |-> "completed"])

\* Mutant of ViewReply: refused decisions are not counted.
ViewReplyOfFills(c) ==
  IF ExperimentError(c) # "" THEN Err(ExperimentError(c))
  ELSE IF ~LoadState(c).ok THEN LoadState(c)
  ELSE Ok([state |-> LoadState(c).value,
           runs_total |-> Cardinality({f \in DOMAIN fills : runs[fills[f].run].request.cycle_id = c})])

\* The undated portfolio: what the fills add up to, and how many decisions.
ViewReply(c) ==
  IF ExperimentError(c) # "" THEN Err(ExperimentError(c))
  ELSE IF ~LoadState(c).ok THEN LoadState(c)
  ELSE Ok([state |-> LoadState(c).value, runs_total |-> Cardinality(OwnRuns(c))])

Reply(call, now) ==
  CASE call.op = "create"   -> CreateReply(call.arg)
    [] call.op = "quote"    -> IngestReply(call.arg, now)
    [] call.op = "submit"   -> SubmitReply(call.arg)
    [] call.op = "complete" -> CompleteReply(call.arg)
    [] call.op = "view"     -> ViewReply(call.arg)

(***************************************************************************)
(* Effects.  A refusal, a repetition and a read commit nothing; completing *)
(* twice writes the same status again.                                     *)
(***************************************************************************)
Effect(call, now) ==
  \/ call.op = "create"   /\ CreateExperiment(call.arg)
  \/ call.op = "quote"    /\ IngestQuote(call.arg, now)
  \/ call.op = "submit"   /\ Submit(call.arg)
  \/ call.op = "complete" /\ CompleteExperiment(call.arg)

Writes(call, now) ==
  LET reply == Reply(call, now) IN
  /\ reply.ok
  /\ \/ call.op = "create" /\ call.arg.cycle_id \notin DOMAIN experiments
     \/ call.op = "quote" /\ reply.value.new
     \/ call.op = "submit" /\ ~reply.value.duplicate
     \/ call.op = "complete" /\ experiments[call.arg].status # "completed"

\* One store operation under the lock.
StoreStep(call, now) ==
  IF Writes(call, now) THEN Effect(call, now) ELSE UNCHANGED vars

(***************************************************************************)
(* Status codes (api_error).                                               *)
(***************************************************************************)
Conflicts ==
  {"strategy_artifact_content_mismatch",
   "experiment_identity_payload_conflict", "identity_content_conflict",
   "experiment_strategy_mismatch", "experiment_quote_data_pack_mismatch",
   "same_signal_identity_with_different_request", "experiment_completed",
   "out_of_order_decision_requires_separate_replay_branch",
   "quote_identity_payload_conflict"}

Failures ==
  {"storage_error", "market_data_pack_missing", "pinned_market_snapshot_mismatch",
   "experiment_pack_reference_mismatch", "experiment_identity_mismatch",
   "experiment_artifact_mismatch", "pinned_research_input_mismatch",
   "run_market_version_mismatch", "stored_evidence_mismatch",
   "stored_instrument_identity_mismatch", "replay_mismatch"}

Status(reply) ==
  IF reply.ok THEN 200
  ELSE IF reply.error \in Conflicts THEN 409
  ELSE IF reply.error \in Failures THEN 500
  ELSE 422

(***************************************************************************)
(* What a call that succeeded leaves in the record.                        *)
(***************************************************************************)
InRecord(call) ==
  \/ /\ call.op = "create"
     /\ call.arg.cycle_id \in DOMAIN experiments
     /\ experiments[call.arg.cycle_id].spec = call.arg
  \/ /\ call.op = "quote"
     /\ LET ref == QuoteRef(call.arg.pack, call.arg.quote) IN
        ref \in DOMAIN evidence /\ SameImport(evidence[ref], call.arg)
  \/ call.op = "submit" /\ \E i \in DOMAIN runs : runs[i].request = call.arg
  \/ /\ call.op = "complete"
     /\ call.arg \in DOMAIN experiments /\ experiments[call.arg].status = "completed"
  \/ call.op = "view" /\ call.arg \in DOMAIN experiments
=============================================================================
