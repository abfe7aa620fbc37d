------------------------------ MODULE Research ------------------------------
(***************************************************************************)
(* Research reproduction (v2/src/store/query.rs): is what an experiment    *)
(* decided exactly what its frozen strategy must signal on its frozen      *)
(* input?  A read of the ledger, run by run in the order of the record,    *)
(* against the frozen output in the order of its signals.                  *)
(***************************************************************************)
EXTENDS Ledger, Reproduction

CONSTANT ReviewedOutputs   \* strategy version id -> frozen research output

\* A frozen output signals something, on the pack of its input
\* (research_contract.py copies the manifest's).
ASSUME OutputsAssumption ==
  \A id \in DOMAIN ReviewedStrategies :
    LET signals == ReviewedOutputs[id].signals IN
    /\ Len(signals) \in Nat \ {0}
    /\ \A n \in 1..Len(signals) :
         signals[n].pack = ReviewedInputs[ReviewedStrategies[id].research_input_id].pack

\* The place of a run among those of its experiment.
Place(c, i) == Cardinality({j \in OwnRuns(c) : j <= i})

\* What is wrong with a run of an experiment, "" when nothing is.
RunError(c, i) ==
  LET strategy == experiments[c].spec.strategy IN
  RunVerdict(ReviewedInputs[strategy.research_input_id],
             ReviewedOutputs[strategy.strategy_version_id].signals,
             c, strategy.strategy_version_id, Place(c, i), runs[i], PinnedEvidence(runs[i]))

\* The reviewed output belongs to the reviewed input.
OutputOfInput(strategy) ==
  LET output == ReviewedOutputs[strategy.strategy_version_id]
      manifest == ReviewedInputs[strategy.research_input_id]
  IN /\ output.research_input_id = manifest.research_input_id
     /\ output.research_input_digest = manifest.content_digest

\* verify_research_reproduction: "" is the report, anything else its error, of
\* the first run that has one.
ReproductionError(c) ==
  LET file == ExperimentError(c)
      strategy == experiments[c].spec.strategy
      verdicts == {<<i, RunError(c, i)>> : i \in OwnRuns(c)}
      wrong == {v \in verdicts : v[2] # ""}
  IN IF file # "" THEN file
     ELSE IF ~OutputOfInput(strategy) THEN "reviewed_research_output_mismatch"
     ELSE IF wrong # {} THEN (CHOOSE v \in wrong : \A w \in wrong : v[1] <= w[1])[2]
     ELSE IF Cardinality(verdicts)
               # Len(ReviewedOutputs[strategy.strategy_version_id].signals)
       THEN "research_signal_missing_after_run"
     ELSE ""

Reproduced(c) == c \in DOMAIN experiments /\ ReproductionError(c) = ""

(***************************************************************************)
(* Properties.                                                             *)
(***************************************************************************)

\* A verdict only moves on with the record: a record that is too short may
\* become a reproduction or an error, a reproduction may only be spoilt by a
\* further decision, and an error stays that error.  Quotes that arrive, other
\* experiments and completion move nothing (ADR-003: missing evidence is not
\* replaced by what arrives later).
VerdictOnlyMovesOn ==
  [][\A c \in DOMAIN experiments :
       \A before \in {ReproductionError(c)}, after \in {ReproductionError(c)'} :
         after # before =>
           /\ OwnRuns(c)' # OwnRuns(c)
           /\ \/ before = "research_signal_missing_after_run"
              \/ before = "" /\ after = "research_output_has_no_signal_for_run"]_vars

OutcomesOf(c) ==
  [n \in 1..Cardinality(OwnRuns(c)) |->
     runs[CHOOSE i \in OwnRuns(c) : Place(c, i) = n].outcome]
AllPinned(c) == \A i \in OwnRuns(c) : runs[i].evidence # None

\* Two experiments that both reproduce one strategy on equal cash are on the
\* pack its input belongs to, though the other pack holds equally named quotes,
\* and with all evidence at hand they trade identically and end with the same
\* portfolio, in whatever order their decisions interleave (ADR-003, acceptance).
ReproductionsAgree ==
  \A c, d \in DOMAIN experiments :
    LET spec == experiments[c].spec IN
    /\ Reproduced(c) /\ Reproduced(d)
    /\ experiments[d].spec = [spec EXCEPT !.cycle_id = d, !.pack = experiments[d].spec.pack]
    => /\ experiments[d].spec.pack = ReviewedInputs[spec.strategy.research_input_id].pack
       /\ AllPinned(c) /\ AllPinned(d) =>
            OutcomesOf(c) = OutcomesOf(d) /\ LoadState(c) = LoadState(d)

\* ADR-003, decision 3, item 4: the evidence each decision pinned agrees with
\* the frozen entry, the liquidity of the direction it used included.
EvidenceOfTheSignalledSide ==
  \A c \in DOMAIN experiments : \A i \in OwnRuns(c) :
    Reproduced(c) /\ runs[i].evidence # None =>
      /\ runs[i].evidence.execution # None
      /\ runs[i].evidence.execution.side = runs[i].request.signal.side
=============================================================================
