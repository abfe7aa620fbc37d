---------------------------- MODULE Definitions ----------------------------
(***************************************************************************)
(* The research files of one strategy in the repository, which both halves *)
(* of the program verify: its source, the frozen input, the artifact and   *)
(* the output.  The Python half regenerates the last two from the first    *)
(* two and rewrites them one after the other (run_research.py); the kernel *)
(* has all four compiled in and cannot run the strategy: it recomputes     *)
(* digests.  Meanwhile maintainers edit, reformat and check out files.     *)
(***************************************************************************)
EXTENDS Producer

CONSTANTS
  Sources,   \* source texts; the character naming a strategy is its rule
  Inputs,    \* frozen inputs, with a content digest that is right or stale
  MaxEdits   \* edits of a behaviour

\* Both kinds of file have been read: a text is a sequence of characters, an
\* input has its fields and a list of numbered entries.
ASSUME SourcesAssumption == \A text \in Sources : text \in Seq({text[i] : i \in DOMAIN text})
ASSUME InputsAssumption ==
  \A m \in Inputs :
    /\ {"schema_version", "research_input_id", "pack", "entries", "content_digest"} \subseteq DOMAIN m
    /\ m.entries \in Seq({m.entries[i] : i \in DOMAIN m.entries})
    /\ \A i \in DOMAIN m.entries : m.entries[i].sequence \in Int

VARIABLES
  source, input, artifact, output,   \* the files
  unwritten,                         \* output a regeneration has still to write
  edits

files == <<source, input, artifact, output>>

StrategyId == Momentum

(***************************************************************************)
(* The Python half.                                                        *)
(***************************************************************************)
ReadSourceText(text) == ReplaceCR(ReplaceCRLF(text))

RuleIn(text) == CHOOSE rule \in Strategies : \E i \in DOMAIN text : text[i] = rule
ParametersIn(text) == [key \in 1..2 |-> IF key = 1 THEN Lookback ELSE ThresholdBps(RuleIn(text))]

PythonInputProjection(m) ==
  [entries |-> m.entries, pack |-> m.pack, research_input_id |-> m.research_input_id,
   schema_version |-> m.schema_version]

\* verify_input
VerifyInput(m) ==
  /\ m.schema_version = 1
  /\ m.content_digest = DigestOf(PythonInputProjection(m))
  /\ ProducerAccepts(m)

BuildArtifact(text, m) ==
  [schema_version |-> 2, strategy_version_id |-> StrategyId,
   research_input_id |-> m.research_input_id,
   source_digest |-> DigestOf(ReadSourceText(text)),
   parameters_canonical |-> CanonicalText(ParametersIn(text)),
   parameters_digest |-> DigestOf(CanonicalText(ParametersIn(text))),
   research_input_digest |-> DigestOf(PythonInputProjection(m))]

\* Signals are named after the strategy version, whatever its rule is now.
SignalsOf(text, m) ==
  LET signals == Signals(RuleIn(text), m) IN
  [n \in DOMAIN signals |->
     [signals[n] EXCEPT !.signal_id = <<StrategyId, signals[n].sequence, signals[n].side>>]]

\* What is said of an output; its content digest covers all of it.
OutputOf(art, signals) ==
  [schema_version |-> 1, strategy_version_id |-> StrategyId,
   research_input_id |-> art.research_input_id,
   algorithm_digest |-> art.source_digest, parameters_digest |-> art.parameters_digest,
   research_input_digest |-> art.research_input_digest, signals |-> signals]

Sealed(content) == [content |-> content, content_digest |-> DigestOf(content)]

Regenerated(text, m) ==
  LET art == BuildArtifact(text, m)
  IN [artifact |-> art, output |-> Sealed(OutputOf(art, SignalsOf(text, m)))]

\* --check, the gate of the Python half.
CheckPasses ==
  /\ VerifyInput(input)
  /\ [artifact |-> artifact, output |-> output] = Regenerated(source, input)

(***************************************************************************)
(* The kernel.                                                             *)
(***************************************************************************)

\* StrategyArtifact::verify_content
VerifyContent(art) ==
  /\ art.schema_version = 2
  /\ IsCanonical(art.parameters_canonical)
  /\ art.parameters_digest = DigestOf(art.parameters_canonical)

\* reviewed_strategy_artifact
ArtifactReviewed(art, text) ==
  /\ VerifyContent(art)
  /\ art.strategy_version_id = StrategyId
  /\ art.source_digest = DigestOf(NormalizeNewlines(text))

InputProjection(m) ==
  [entries |-> m.entries, pack |-> m.pack, research_input_id |-> m.research_input_id,
   schema_version |-> m.schema_version]

\* Mutant of InputValid: the declared digest is believed.
InputValidAsDeclared(m) == m.schema_version = 1 /\ KernelAccepts(m)

\* ResearchInputManifest::validate
InputValid(m) ==
  /\ m.schema_version = 1
  /\ m.content_digest = DigestOf(InputProjection(m))
  /\ KernelAccepts(m)

\* ResearchOutput::validate
OutputValid(out) ==
  /\ out.content.schema_version = 1
  /\ out.content_digest = DigestOf(out.content)

\* Mutant of OutputMatches: the input the output was made from is not compared.
OutputMatchesStrategy(out, art) ==
  /\ out.content.research_input_id = art.research_input_id
  /\ out.content.algorithm_digest = art.source_digest
  /\ out.content.parameters_digest = art.parameters_digest

OutputMatches(out, art) ==
  /\ out.content.research_input_id = art.research_input_id
  /\ out.content.algorithm_digest = art.source_digest
  /\ out.content.parameters_digest = art.parameters_digest
  /\ out.content.research_input_digest = art.research_input_digest

\* validate_experiment_spec: a kernel built from these files creates an
\* experiment of the strategy.
Accepted ==
  /\ ArtifactReviewed(artifact, source)
  /\ InputValid(input)
  /\ input.content_digest = artifact.research_input_digest
  /\ OutputValid(output)
  /\ OutputMatches(output, artifact)

(***************************************************************************)
(* Maintenance.                                                            *)
(***************************************************************************)
Init ==
  /\ source \in Sources /\ input \in Inputs
  /\ VerifyInput(input) /\ KernelAccepts(input)
  /\ artifact = Regenerated(source, input).artifact
  /\ output = Regenerated(source, input).output
  /\ unwritten = <<>> /\ edits = 0

Edit == edits < MaxEdits /\ edits' = edits + 1

EditSource(text) ==
  /\ Edit /\ source' = text
  /\ UNCHANGED <<input, artifact, output, unwritten>>

EditInput(m) ==
  /\ Edit /\ input' = m
  /\ UNCHANGED <<source, artifact, output, unwritten>>

\* The same parameters in another text, with every digest brought in line.
Reformat(text) ==
  /\ Edit /\ text # artifact.parameters_canonical
  /\ Parsed(text) = Parsed(artifact.parameters_canonical)
  /\ artifact' = [artifact EXCEPT !.parameters_canonical = text,
                                  !.parameters_digest = DigestOf(text)]
  /\ output' = Sealed([output.content EXCEPT !.parameters_digest = DigestOf(text)])
  /\ UNCHANGED <<source, input, unwritten>>

\* --emit computes both files and writes the artifact first.
EmitArtifact ==
  /\ VerifyInput(input)
  /\ artifact' = Regenerated(source, input).artifact
  /\ unwritten' = <<Regenerated(source, input).output>>
  /\ UNCHANGED <<source, input, output, edits>>

EmitOutput ==
  /\ unwritten # <<>>
  /\ output' = Head(unwritten)
  /\ unwritten' = <<>>
  /\ UNCHANGED <<source, input, artifact, edits>>

\* It is interrupted between the two.
Interrupt ==
  /\ unwritten # <<>>
  /\ unwritten' = <<>>
  /\ UNCHANGED <<files, edits>>

Texts(object) ==
  LET ordered == CanonicalText(object).members IN
  {[members |-> m, spaced |-> s] :
     m \in {ordered, <<ordered[2], ordered[1]>>, <<ordered[1]>> \o ordered}, s \in BOOLEAN}

Next ==
  \/ \E text \in Sources : EditSource(text)
  \/ \E m \in Inputs : EditInput(m)
  \/ \E text \in Texts(Parsed(artifact.parameters_canonical)) : Reformat(text)
  \/ EmitArtifact \/ EmitOutput \/ Interrupt

Spec == Init /\ [][Next]_<<files, unwritten, edits>>

(***************************************************************************)
(* Properties.                                                             *)
(***************************************************************************)

\* The two halves agree: the kernel, which cannot run a strategy, accepts just
\* the files the gate of the Python half passes, save a level or a sequence
\* number only the kernel refuses.  An edit without regeneration, a regeneration
\* broken off between its two writes or overtaken by an edit, and a reformatted
\* text are refused by both (ADR-003: every digest is recomputed from bytes).
HalvesAgree == Accepted <=> CheckPasses /\ KernelAccepts(input)

\* Accepted files with one artifact have one research behind them, whatever was
\* edited in between: one rule, one set of entries in one order on one pack,
\* one list of signals (contract.rs: one strategy_version_id must never
\* describe two different algorithms, parameter sets or research inputs).
Research == [rule |-> RuleIn(source), entries |-> input.entries, pack |-> input.pack,
             signals |-> output.content.signals]
OneArtifactOneResearch ==
  [][Accepted /\ Accepted' /\ artifact' = artifact => Research' = Research]_<<files, unwritten, edits>>

\* Line endings and the description of the input are no part of any identity: a
\* step that changes nothing else leaves the kernel's verdict as it was.
SameReading ==
  /\ ReadSourceText(source') = ReadSourceText(source)
  /\ input' = [input EXCEPT !.description = input'.description]
CheckoutsShareIdentity ==
  [][SameReading /\ UNCHANGED <<artifact, output>> => Accepted' = Accepted]_<<files, unwritten, edits>>

(***************************************************************************)
(* Properties of the strategies.                                           *)
(***************************************************************************)

\* No strategy looks ahead: when one observation is appended every signal there
\* was stays, and at most one is added, for the new observation.
OneMoreEntry ==
  /\ input'.pack = input.pack
  /\ Len(input'.entries) = Len(input.entries) + 1
  /\ \A i \in DOMAIN input.entries : input'.entries[i] = input.entries[i]
NothingLooksAhead ==
  [][OneMoreEntry =>
       \A strategy \in Strategies :
         LET before == Signals(strategy, input)
             after == Signals(strategy, input')
         IN \/ after = before
            \/ after = Append(before, SignalAt(strategy, input', Len(input'.entries)))]_input

\* The decision that follows a signal.
Followed(strategy, signal) ==
  [request |-> [cycle_id |-> "A", strategy_version_id |-> strategy,
                signal_id |-> signal.signal_id, decision_at |-> signal.decision_at,
                signal |-> [symbol |-> signal.symbol, side |-> signal.side],
                quote_ref |-> [pack |-> signal.pack, source |-> signal.source,
                               quote_id |-> signal.quote_id]]]

\* The evidence of the entry a signal is about, with the level of its side.
PinnedOn(signal) ==
  LET entries == {input.entries[i] : i \in DOMAIN input.entries}
      entry == CHOOSE e \in entries : e.sequence = signal.sequence
      level == entry.levels[signal.side]
  IN [pack |-> input.pack, quote |-> entry.quote, available_at |-> entry.available_at,
      execution |-> [quote_ref |-> QuoteRef(input.pack, entry.quote), side |-> signal.side,
                     price |-> level.price, available |-> level.available,
                     observed_at |-> entry.quote.observed_at]]

NamesDiffer == \A i, j \in DOMAIN input.entries :
                 input.entries[i].quote.quote_id = input.entries[j].quote.quote_id => i = j

\* What the producer signals, the kernel counts as reproduced: on every input
\* both accept, decisions that follow the signals have no error, with the
\* evidence of the entry or with none.  Only the names of the quotes must
\* differ, which neither half requires: entry_for stops at the first.
FollowedSignalsReproduce ==
  ProducerAccepts(input) /\ KernelAccepts(input) /\ NamesDiffer =>
    \A strategy \in Strategies :
      LET signals == Signals(strategy, input) IN
      \A n \in DOMAIN signals : \A ev \in {PinnedOn(signals[n]), None} :
        RunVerdict(input, signals, "A", strategy, n, Followed(strategy, signals[n]), ev) = ""
=============================================================================
