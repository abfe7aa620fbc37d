---------------------------- MODULE Ledger_proofs ----------------------------
(***************************************************************************)
(* Safety of the ledger for every catalogue, every set of specifications,  *)
(* imports and requests, and records of any length, in three parts: the    *)
(* rows, the books they add up to, and the account of every experiment,    *)
(* which the ledger implements.                                            *)
(*                                                                         *)
(* One idea carries the proofs: every step only adds.  What a run or an    *)
(* experiment refers to is therefore still there, unchanged, whenever it   *)
(* is read again, and an answer computed from it once can be given again.  *)
(* How a decision is reached plays no part, so Decide and LoadState stay   *)
(* closed except for the shape of an outcome.                              *)
(***************************************************************************)
EXTENDS LedgerProperties, Decision_proofs

(***************************************************************************)
(* Tables.                                                                 *)
(***************************************************************************)
\* Rows of the old table are in the new one.
Extends(old, new) == \A key \in DOMAIN old : key \in DOMAIN new /\ new[key] = old[key]

\* Writing a row leaves the other rows alone.
LEMMA PutRow ==
  ASSUME NEW table, NEW key, NEW row
  PROVE  /\ \A k \in DOMAIN Put(table, key, row) : k \in DOMAIN table \/ k = key
         /\ Holds(Put(table, key, row), key, row)
         /\ key \notin DOMAIN table => Extends(table, Put(table, key, row))
BY DEF Put, Holds, Extends

\* Registering a row that agrees with the table makes it present, and only adds.
LEMMA RegisterRow ==
  ASSUME NEW table, NEW key, NEW row, Agrees(table, key, row)
  PROVE  /\ \A k \in DOMAIN Register(table, key, row) : k \in DOMAIN table \/ k = key
         /\ Holds(Register(table, key, row), key, row)
         /\ Extends(table, Register(table, key, row))
<1>1. CASE key \in DOMAIN table
  <2>1. Register(table, key, row) = table
    BY <1>1 DEF Register
  <2> QED
    BY <1>1, <2>1 DEF Agrees, Holds, Extends
<1>2. CASE key \notin DOMAIN table
  <2>1. Register(table, key, row) = Put(table, key, row)
    BY <1>2 DEF Register
  <2> QED
    BY <1>2, <2>1, PutRow
<1> QED
  BY <1>1, <1>2

\* Appending numbers the new row next and leaves the others alone.
LEMMA AppendRow ==
  ASSUME NEW table, Numbered(table), NEW row
  PROVE  /\ Numbered(Append(table, row))
         /\ Len(table) \in Nat
         /\ DOMAIN table = 1..Len(table)
         /\ DOMAIN Append(table, row) = 1..(Len(table) + 1)
         /\ \A i \in DOMAIN table : Append(table, row)[i] = table[i]
         /\ Append(table, row)[Len(table) + 1] = row
<1> DEFINE rows == {table[i] : i \in DOMAIN table}
           more == rows \cup {row}
<1>1. table \in Seq(rows)
  BY DEF Numbered
<1>2. table \in Seq(more)
  BY <1>1, SeqMonotonic
<1>3. /\ Len(table) \in Nat /\ DOMAIN table = 1..Len(table)
  BY <1>2, LenProperties
<1>4. /\ Append(table, row) \in Seq(more)
      /\ Len(Append(table, row)) = Len(table) + 1
      /\ \A i \in 1..Len(table) : Append(table, row)[i] = table[i]
      /\ Append(table, row)[Len(table) + 1] = row
  BY <1>2, AppendProperties
<1>5. DOMAIN Append(table, row) = 1..(Len(table) + 1)
  BY <1>4, LenProperties
<1>6. {Append(table, row)[i] : i \in DOMAIN Append(table, row)} = more
  BY <1>3, <1>4, <1>5
<1> QED
  BY <1>3, <1>4, <1>5, <1>6 DEF Numbered

(***************************************************************************)
(* Replies.                                                                *)
(***************************************************************************)
\* The fields of a Result.
LEMMA Results ==
  ASSUME NEW v, NEW name
  PROVE  Ok(v).ok /\ Ok(v).value = v /\ ~Err(name).ok
BY DEF Ok, Err

\* Whatever the rules, an outcome is a fill or a rejection.
LEMMA OutcomeStatus ==
  ASSUME NEW state, NEW req, NEW ev, NEW pack, Decide(state, req, ev, pack).ok
  PROVE  Decide(state, req, ev, pack).value.status \in {"Filled", "Rejected"}
<1>1. \A reason : Rejected(state, reason).value.status = "Rejected"
  BY DEF Rejected, Ok
<1>2. \A fill, cash : Filled(fill, cash).value.status = "Filled"
  BY DEF Filled, Ok
<1>3. \A name : ~Err(name).ok
  BY DEF Err
<1>4. ASSUME NEW level, NEW rule, Execute(state, req, level, rule).ok
      PROVE Execute(state, req, level, rule).value.status \in {"Filled", "Rejected"}
  BY <1>1, <1>2, <1>3, <1>4 DEF Execute
<1> QED
  BY <1>1, <1>3, <1>4 DEF Decide

\* What a request has passed when it is decided afresh.
LEMMA FreshSubmit ==
  ASSUME NEW req, SubmitReply(req).ok, ~SubmitReply(req).value.duplicate
  PROVE  LET c == req.cycle_id
             run == SubmitReply(req).value.run
         IN /\ c \in DOMAIN experiments
            /\ OwnershipError(req) = ""
            /\ PriorRuns(req) = {}
            /\ InOrder(req)
            /\ SubmitReply(req).value.id = NextRun
            /\ run.request = req
            /\ run.outcome.status \in {"Filled", "Rejected"}
            /\ run.evidence = StoredEvidence(req.quote_ref)
            /\ run.versions = VersionsOf(PackOf(c))
            /\ run.evidence # None => InstrumentPinned(PackOf(c), run.evidence)
<1> DEFINE c == req.cycle_id
           pack == PackOf(c)
           book == LoadState(c)
           ev == StoredEvidence(req.quote_ref)
           decision == Decide(book.value, req, ev, pack)
           prior == CHOOSE i \in PriorRuns(req) : TRUE
<1>1. c \in DOMAIN experiments
  BY Results DEF SubmitReply, ExperimentError
<1>2. ExperimentError(c) = "" /\ OwnershipError(req) = ""
  BY Results DEF SubmitReply
<1>3. ~(DuplicateReply(req, prior, pack).ok /\ ~DuplicateReply(req, prior, pack).value.duplicate)
  BY DEF DuplicateReply, Ok, Err
<1>4. PriorRuns(req) = {} /\ SubmitReply(req) = FreshReply(req, pack) /\ InOrder(req)
  BY <1>2, <1>3, Results DEF SubmitReply
<1>5. /\ decision.ok
      /\ ev # None => InstrumentPinned(pack, ev)
      /\ FreshReply(req, pack) = Ok([id |-> NextRun, duplicate |-> FALSE,
           run |-> [request |-> req, outcome |-> decision.value, evidence |-> ev,
                    versions |-> VersionsOf(pack)]])
  BY <1>4, Results DEF FreshReply, DecidedReply
<1>6. decision.value.status \in {"Filled", "Rejected"}
  BY <1>5, OutcomeStatus
<1>7. /\ SubmitReply(req).value.id = NextRun
      /\ SubmitReply(req).value.run = [request |-> req, outcome |-> decision.value,
                                       evidence |-> ev, versions |-> VersionsOf(pack)]
  BY <1>4, <1>5, Results
<1> HIDE DEF decision, book
<1>8. /\ SubmitReply(req).value.run.request = req
      /\ SubmitReply(req).value.run.outcome = decision.value
      /\ SubmitReply(req).value.run.evidence = ev
      /\ SubmitReply(req).value.run.versions = VersionsOf(pack)
  BY <1>7
<1> QED
  BY <1>1, <1>2, <1>4, <1>5, <1>6, <1>7, <1>8

\* A pack that can be loaded is a reviewed one, stored as reviewed.
LEMMA PackLoads ==
  ASSUME NEW id
  PROVE  PackError(id) = "" <=> id \in DOMAIN Catalogue /\ Holds(packs, id, Catalogue[id])
BY DEF PackError, Holds

\* What an import has passed when its evidence is stored.
LEMMA FreshImport ==
  ASSUME NEW input, NEW now, IngestReply(input, now).ok, IngestReply(input, now).value.new
  PROVE  /\ ImportValid(input)
         /\ input.pack \in DOMAIN Catalogue
         /\ Holds(packs, input.pack, Catalogue[input.pack])
         /\ QuoteRef(input.pack, input.quote) \notin DOMAIN evidence
         /\ IngestReply(input, now).value.evidence = EvidenceFrom(input, now)
BY PackLoads DEF IngestReply, Ok, Err

\* What is stored for a valid import is valid evidence.
LEMMA EvidenceOfImport ==
  ASSUME NEW input, NEW now, ImportValid(input), IsTimestamp(now)
  PROVE  /\ EvidenceValid(EvidenceFrom(input, now))
         /\ EvidenceFrom(input, now).pack = input.pack
         /\ EvidenceFrom(input, now).quote = input.quote
BY DEF ImportValid, EvidenceValid, EvidenceFrom

(***************************************************************************)
(* Every step only adds.                                                   *)
(***************************************************************************)
\* The one change to a row is the status of an experiment.
OnlyAdds ==
  /\ Extends(packs, packs') /\ Extends(inputs, inputs') /\ Extends(artifacts, artifacts')
  /\ Extends(evidence, evidence') /\ Extends(runs, runs') /\ Extends(fills, fills')
  /\ \A c \in DOMAIN experiments :
       /\ c \in DOMAIN experiments'
       /\ experiments'[c].spec = experiments[c].spec
       /\ experiments'[c].manifest = experiments[c].manifest

\* What a fresh run is, and where it goes.
LEMMA SubmitAppends ==
  ASSUME TypeOK, NEW req, Submit(req)
  PROVE  /\ NextRun = Len(runs) + 1 /\ Len(runs) \in Nat
         /\ DOMAIN runs = 1..Len(runs)
         /\ DOMAIN runs' = 1..NextRun
         /\ \A i \in DOMAIN runs : runs'[i] = runs[i]
         /\ runs'[NextRun] = SubmitReply(req).value.run
         /\ Numbered(runs') /\ Numbered(fills')
         /\ Extends(fills, fills')
<1>1. Numbered(runs) /\ Numbered(fills)
  BY DEF TypeOK
<1>2. runs' = Append(runs, SubmitReply(req).value.run)
  BY DEF Submit
<1>3. \/ fills' = fills
      \/ \E row : fills' = Append(fills, row)
  BY DEF Submit
<1>4. Numbered(fills') /\ Extends(fills, fills')
  <2>1. CASE fills' = fills
    BY <1>1, <2>1 DEF Extends, Numbered
  <2>2. ASSUME NEW row, fills' = Append(fills, row)
        PROVE  Numbered(fills') /\ Extends(fills, fills')
    BY <1>1, <2>2, AppendRow DEF Extends
  <2> QED
    BY <1>3, <2>1, <2>2
<1> QED
  BY <1>1, <1>2, <1>4, AppendRow DEF NextRun

\* Every operation of the store only adds, or does nothing.
LEMMA StepOnlyAdds ==
  ASSUME IInv, [Next]_vars
  PROVE  OnlyAdds
<1>1. ASSUME NEW id \in DOMAIN Catalogue, RegisterReviewedPack(id) PROVE OnlyAdds
  <2>1. Extends(packs, packs')
    BY <1>1, RegisterRow DEF RegisterReviewedPack
  <2> QED
    BY <1>1, <2>1 DEF RegisterReviewedPack, OnlyAdds, Extends
<1>2. ASSUME NEW spec \in Specs, CreateExperiment(spec) PROVE OnlyAdds
  <2>1. Extends(packs, packs')
    BY <1>2, RegisterRow DEF CreateExperiment
  <2>2. Extends(inputs, inputs')
    BY <1>2, RegisterRow DEF CreateExperiment
  <2>3. Extends(artifacts, artifacts')
    BY <1>2, RegisterRow DEF CreateExperiment
  <2>4. Extends(experiments, experiments')
    BY <1>2, PutRow DEF CreateExperiment
  <2> QED
    BY <1>2, <2>1, <2>2, <2>3, <2>4 DEF CreateExperiment, OnlyAdds, Extends
<1>3. ASSUME NEW c \in DOMAIN experiments, CompleteExperiment(c) PROVE OnlyAdds
  BY <1>3 DEF CompleteExperiment, OnlyAdds, Extends
<1>4. ASSUME NEW input \in Imports, NEW now \in Receipts, IngestQuote(input, now) PROVE OnlyAdds
  <2>1. QuoteRef(input.pack, input.quote) \notin DOMAIN evidence
    BY <1>4, FreshImport DEF IngestQuote
  <2>2. Extends(evidence, evidence')
    BY <1>4, <2>1, PutRow DEF IngestQuote
  <2> QED
    BY <1>4, <2>2 DEF IngestQuote, OnlyAdds, Extends
<1>5. ASSUME NEW req \in Requests, Submit(req) PROVE OnlyAdds
  <2>1. Extends(runs, runs') /\ Extends(fills, fills')
    BY <1>5, SubmitAppends DEF IInv, Extends
  <2> QED
    BY <1>5, <2>1 DEF Submit, OnlyAdds, Extends
<1>6. CASE UNCHANGED vars
  BY <1>6 DEF vars, OnlyAdds, Extends
<1> QED
  BY <1>1, <1>2, <1>3, <1>4, <1>5, <1>6 DEF Next

\* A new run comes only from a submission.
LEMMA RunsStep ==
  ASSUME [Next]_vars
  PROVE  \/ runs' = runs /\ fills' = fills
         \/ \E req \in Requests : Submit(req)
BY DEF Next, vars, RegisterReviewedPack, CreateExperiment, CompleteExperiment, IngestQuote

(***************************************************************************)
(* The inductive invariant, one lemma for each of its parts.               *)
(***************************************************************************)
\* The store starts with the default pack and nothing else.
LEMMA InitIInv == Init => IInv
<1> SUFFICES ASSUME Init PROVE IInv
  OBVIOUS
<1>1. DOMAIN <<>> = {}
  OBVIOUS
<1>2. /\ DOMAIN experiments = {} /\ DOMAIN evidence = {}
      /\ DOMAIN runs = {} /\ DOMAIN fills = {}
      /\ runs = <<>> /\ fills = <<>>
  BY <1>1 DEF Init
<1>3. Numbered(runs) /\ Numbered(fills)
  BY <1>2 DEF Numbered
<1>4. TypeOK /\ FillsMirrorRuns
  BY <1>2, <1>3 DEF TypeOK, FillsMirrorRuns
<1>5. CatalogueIntact
  BY DEF Init, CatalogueIntact, Holds
<1> QED
  BY <1>2, <1>4, <1>5 DEF IInv, ReferencesIntact, EvidenceHasPack, RunsStillOwned,
     OneRunPerSignal, LastRunExists, DecisionsInOrder, OwnRuns

\* Rows added by a step have their type and their key.
LEMMA TypeKeeps ==
  ASSUME IInv, [Next]_vars
  PROVE  TypeOK'
<1> USE DEF IInv
<1> DEFINE Manifests == {Catalogue[id].pack_id : id \in DOMAIN Catalogue}
           Rows == [spec : Specs, status : {"active", "completed"}, manifest : Manifests]
<1>1. \A c \in DOMAIN experiments' : experiments'[c] \in Rows
  <2>0. \A c \in DOMAIN experiments : experiments[c] \in Rows
    BY DEF TypeOK
  <2>1. CASE experiments' = experiments
    BY <2>0, <2>1
  <2>2. ASSUME NEW spec \in Specs, CreateExperiment(spec), NEW c \in DOMAIN experiments'
        PROVE  experiments'[c] \in Rows
    <3> DEFINE row == [spec |-> spec, status |-> "active", manifest |-> Catalogue[spec.pack].pack_id]
    <3>1. experiments' = Put(experiments, spec.cycle_id, row)
      BY <2>2 DEF CreateExperiment
    <3>2. row \in Rows
      BY <2>2 DEF CreateExperiment, SpecValid
    <3> HIDE DEF row, Rows
    <3> QED
      BY <2>0, <2>2, <3>1, <3>2 DEF Put
  <2>3. ASSUME NEW c \in DOMAIN experiments, CompleteExperiment(c), NEW k \in DOMAIN experiments'
        PROVE  experiments'[k] \in Rows
    <3>1. k \in DOMAIN experiments
      BY <2>3 DEF CompleteExperiment
    <3>2. /\ k # c => experiments'[k] = experiments[k]
          /\ k = c => experiments'[k] = [experiments[c] EXCEPT !.status = "completed"]
      BY <2>3, <3>1 DEF CompleteExperiment
    <3>3. [experiments[c] EXCEPT !.status = "completed"] \in Rows
      BY <2>0
    <3> HIDE DEF Rows
    <3> QED
      BY <2>0, <3>1, <3>2, <3>3
  <2>4. \/ experiments' = experiments
        \/ \E spec \in Specs : CreateExperiment(spec)
        \/ \E c \in DOMAIN experiments : CompleteExperiment(c)
    BY DEF Next, vars, RegisterReviewedPack, IngestQuote, Submit
  <2> HIDE DEF Rows
  <2> QED
    BY <2>1, <2>2, <2>3, <2>4
<1>2. \A ref \in DOMAIN evidence' :
        /\ ref = QuoteRef(evidence'[ref].pack, evidence'[ref].quote)
        /\ EvidenceValid(evidence'[ref])
  <2>1. CASE evidence' = evidence
    BY <2>1 DEF TypeOK
  <2>2. ASSUME NEW input \in Imports, NEW now \in Receipts, IngestQuote(input, now)
        PROVE  \A ref \in DOMAIN evidence' :
                 /\ ref = QuoteRef(evidence'[ref].pack, evidence'[ref].quote)
                 /\ EvidenceValid(evidence'[ref])
    <3> DEFINE ev == EvidenceFrom(input, now)
    <3>1. ImportValid(input) /\ IngestReply(input, now).value.evidence = ev
      BY <2>2, FreshImport DEF IngestQuote
    <3>2. EvidenceValid(ev) /\ ev.pack = input.pack /\ ev.quote = input.quote
      BY <3>1, ReceiptsAssumption, EvidenceOfImport
    <3>3. evidence' = Put(evidence, QuoteRef(input.pack, input.quote), ev)
      BY <2>2, <3>1 DEF IngestQuote
    <3> HIDE DEF ev
    <3> QED
      BY <3>2, <3>3 DEF Put, TypeOK
  <2>3. \/ evidence' = evidence
        \/ \E input \in Imports, now \in Receipts : IngestQuote(input, now)
    BY DEF Next, vars, RegisterReviewedPack, CreateExperiment, CompleteExperiment, Submit
  <2> QED
    BY <2>1, <2>2, <2>3
<1>3. /\ Numbered(runs') /\ Numbered(fills')
      /\ \A i \in DOMAIN runs' : /\ runs'[i].request \in Requests
                                 /\ runs'[i].outcome.status \in {"Filled", "Rejected"}
  <2>1. CASE runs' = runs /\ fills' = fills
    BY <2>1 DEF TypeOK, Numbered
  <2>2. ASSUME NEW req \in Requests, Submit(req)
        PROVE  /\ Numbered(runs') /\ Numbered(fills')
               /\ \A i \in DOMAIN runs' : /\ runs'[i].request \in Requests
                                          /\ runs'[i].outcome.status \in {"Filled", "Rejected"}
    <3>1. /\ SubmitReply(req).value.run.request = req
          /\ SubmitReply(req).value.run.outcome.status \in {"Filled", "Rejected"}
      BY <2>2, FreshSubmit DEF Submit
    <3>2. \A i \in DOMAIN runs' : i \in DOMAIN runs \/ i = NextRun
      BY <2>2, SubmitAppends
    <3> QED
      BY <2>2, <3>1, <3>2, SubmitAppends DEF TypeOK
  <2> QED
    BY <2>1, <2>2, RunsStep
<1> QED
  BY <1>1, <1>2, <1>3 DEF TypeOK

\* A run and its fill are inserted together (submit).
LEMMA MirrorKeeps ==
  ASSUME IInv, [Next]_vars
  PROVE  FillsMirrorRuns'
<1>1. CASE runs' = runs /\ fills' = fills
  BY <1>1 DEF IInv, FillsMirrorRuns
<1>2. ASSUME NEW req \in Requests, Submit(req)
      PROVE  FillsMirrorRuns'
  <2> DEFINE run == SubmitReply(req).value.run
             row == [run |-> NextRun, fill |-> run.outcome.fill]
  <2>1. /\ Numbered(runs) /\ Numbered(fills) /\ FillsMirrorRuns
        /\ SubmitReply(req).value.id = NextRun
    BY <1>2, FreshSubmit DEF IInv, TypeOK, Submit
  <2>2. /\ NextRun = Len(runs) + 1 /\ Len(runs) \in Nat
        /\ DOMAIN runs = 1..Len(runs) /\ DOMAIN runs' = 1..NextRun
        /\ \A i \in DOMAIN runs : runs'[i] = runs[i]
        /\ runs'[NextRun] = run
    BY <1>2, SubmitAppends DEF IInv
  <2>3. CASE run.outcome.fill = None
    <3>1. fills' = fills
      BY <1>2, <2>3 DEF Submit
    <3> HIDE DEF run
    <3> QED
      BY <2>1, <2>2, <2>3, <3>1 DEF FillsMirrorRuns
  <2>4. CASE run.outcome.fill # None
    <3>1. fills' = Append(fills, row)
      BY <1>2, <2>1, <2>4 DEF Submit
    <3>2. row.run = NextRun /\ row.fill = run.outcome.fill
      OBVIOUS
    <3> HIDE DEF run, row
    <3>3. /\ Len(fills) \in Nat /\ DOMAIN fills = 1..Len(fills)
          /\ DOMAIN fills' = 1..(Len(fills) + 1)
          /\ \A f \in DOMAIN fills : fills'[f] = fills[f]
          /\ fills'[Len(fills) + 1] = row
      BY <2>1, <3>1, AppendRow
    <3>4. \A f \in DOMAIN fills' : fills'[f].run \in DOMAIN runs'
                                  /\ fills'[f].fill = runs'[fills'[f].run].outcome.fill
      BY <2>1, <2>2, <3>2, <3>3 DEF FillsMirrorRuns
    <3>5. \A f, g \in DOMAIN fills' : f < g => fills'[f].run < fills'[g].run
      BY <2>1, <2>2, <3>2, <3>3 DEF FillsMirrorRuns
    <3>6. \A i \in DOMAIN runs' :
            runs'[i].outcome.fill # None => \E f \in DOMAIN fills' : fills'[f].run = i
      <4> SUFFICES ASSUME NEW i \in DOMAIN runs', runs'[i].outcome.fill # None
                   PROVE  \E f \in DOMAIN fills' : fills'[f].run = i
        OBVIOUS
      <4>1. CASE i \in DOMAIN runs
        <5>1. PICK f \in DOMAIN fills : fills[f].run = i
          BY <2>1, <2>2, <4>1 DEF FillsMirrorRuns
        <5>2. f \in DOMAIN fills' /\ fills'[f].run = i
          BY <3>3, <5>1
        <5> QED
          BY <5>2
      <4>2. CASE i = NextRun
        <5>1. Len(fills) + 1 \in DOMAIN fills' /\ fills'[Len(fills) + 1].run = i
          BY <3>2, <3>3, <4>2
        <5> QED
          BY <5>1
      <4> QED
        BY <2>2, <4>1, <4>2
    <3> QED
      BY <3>4, <3>5, <3>6 DEF FillsMirrorRuns
  <2> QED
    BY <2>3, <2>4
<1> QED
  BY <1>1, <1>2, RunsStep

\* Only reviewed packs are registered.
LEMMA CatalogueKeeps ==
  ASSUME IInv, [Next]_vars
  PROVE  CatalogueIntact'
<1>1. CASE packs' = packs
  BY <1>1 DEF IInv, CatalogueIntact
<1>2. ASSUME NEW id, Agrees(packs, id, Catalogue[id]),
             packs' = Register(packs, id, Catalogue[id])
      PROVE  CatalogueIntact'
  <2>1. \A k \in DOMAIN packs' : k \in DOMAIN packs \/ k = id
    BY <1>2, RegisterRow
  <2>2. \A k \in DOMAIN packs : Holds(packs', k, Catalogue[k])
    <3>1. Extends(packs, packs')
      BY <1>2, RegisterRow
    <3> QED
      BY <3>1 DEF IInv, CatalogueIntact, Holds, Extends
  <2>3. Holds(packs', id, Catalogue[id])
    BY <1>2, RegisterRow
  <2> QED
    BY <2>1, <2>2, <2>3 DEF CatalogueIntact
<1>3. \/ packs' = packs
      \/ \E id : /\ Agrees(packs, id, Catalogue[id])
                 /\ packs' = Register(packs, id, Catalogue[id])
  BY DEF Next, vars, RegisterReviewedPack, CreateExperiment, CompleteExperiment, IngestQuote, Submit
<1> QED
  BY <1>1, <1>2, <1>3

\* What an experiment refers to is registered with it and stays.
LEMMA ReferencesKeep ==
  ASSUME IInv, [Next]_vars
  PROVE  ReferencesIntact'
<1> DEFINE Good(spec) ==
             LET input == spec.strategy.research_input_id
             IN /\ SpecValid(spec)
                /\ Holds(packs', spec.pack, Catalogue[spec.pack])
                /\ Holds(artifacts', spec.strategy.strategy_version_id, spec.strategy)
                /\ Holds(inputs', input, ReviewedInputs[input])
<1>1. OnlyAdds
  BY StepOnlyAdds
<1>2. \A c \in DOMAIN experiments : /\ Good(experiments[c].spec)
                                   /\ experiments[c].spec.cycle_id = c
                                   /\ experiments'[c].manifest
                                        = Catalogue[experiments[c].spec.pack].pack_id
                                   /\ experiments'[c].spec = experiments[c].spec
  BY <1>1 DEF IInv, ReferencesIntact, OnlyAdds, Extends, Holds
<1>3. CASE DOMAIN experiments' = DOMAIN experiments
  BY <1>2, <1>3 DEF ReferencesIntact
<1>4. ASSUME NEW spec \in Specs, CreateExperiment(spec)
      PROVE  ReferencesIntact'
  <2>1. Good(spec)
    <3>1. SpecValid(spec)
      BY <1>4 DEF CreateExperiment
    <3>2. Holds(packs', spec.pack, Catalogue[spec.pack])
      BY <1>4, RegisterRow DEF CreateExperiment
    <3>3. Holds(artifacts', spec.strategy.strategy_version_id, spec.strategy)
      BY <1>4, RegisterRow DEF CreateExperiment
    <3>4. Holds(inputs', spec.strategy.research_input_id,
                ReviewedInputs[spec.strategy.research_input_id])
      BY <1>4, RegisterRow DEF CreateExperiment
    <3> QED
      BY <3>1, <3>2, <3>3, <3>4
  <2>2. \A c \in DOMAIN experiments' : c \in DOMAIN experiments \/ c = spec.cycle_id
    BY <1>4, PutRow DEF CreateExperiment
  <2>3. /\ experiments'[spec.cycle_id].spec = spec
        /\ experiments'[spec.cycle_id].manifest = Catalogue[spec.pack].pack_id
    BY <1>4, PutRow DEF CreateExperiment, Holds
  <2> HIDE DEF Good
  <2>4. \A c \in DOMAIN experiments' : /\ Good(experiments'[c].spec)
                                      /\ experiments'[c].spec.cycle_id = c
                                      /\ experiments'[c].manifest
                                           = Catalogue[experiments'[c].spec.pack].pack_id
    BY <1>2, <2>1, <2>2, <2>3
  <2> QED
    BY <2>4 DEF ReferencesIntact, Good
<1>5. \/ DOMAIN experiments' = DOMAIN experiments
      \/ \E spec \in Specs : CreateExperiment(spec)
  BY DEF Next, vars, RegisterReviewedPack, CompleteExperiment, IngestQuote, Submit
<1> QED
  BY <1>3, <1>4, <1>5

\* Evidence is stored only for a registered pack, with the identity that pack
\* gives its symbol (ingest_quote).
LEMMA EvidenceKeepsPack ==
  ASSUME IInv, [Next]_vars
  PROVE  EvidenceHasPack'
<1>1. \A id \in DOMAIN packs : id \in DOMAIN packs' /\ packs'[id] = packs[id]
  BY StepOnlyAdds DEF OnlyAdds, Extends
<1>2. CASE evidence' = evidence
  BY <1>1, <1>2 DEF IInv, EvidenceHasPack
<1>3. ASSUME NEW input \in Imports, NEW now \in Receipts, IngestQuote(input, now)
      PROVE  EvidenceHasPack'
  <2> DEFINE new == QuoteRef(input.pack, input.quote)
  <2>1. input.pack \in DOMAIN packs /\ input.pack \in DOMAIN Catalogue
    BY <1>3, FreshImport DEF IngestQuote, Holds
  <2> DEFINE ev == EvidenceFrom(input, now)
  <2>2. \A ref \in DOMAIN evidence' :
          \/ ref \in DOMAIN evidence /\ evidence'[ref] = evidence[ref]
          \/ ref = new /\ evidence'[ref] = ev
    <3>1. evidence' = Put(evidence, new, ev) /\ new \notin DOMAIN evidence
      BY <1>3, FreshImport DEF IngestQuote
    <3> HIDE DEF new, ev
    <3> QED
      BY <3>1 DEF Put
  <2>3. new.pack = input.pack
    BY DEF QuoteRef
  <2>4. InstrumentPinned(packs[input.pack], ev)
    BY DEF InstrumentPinned, EvidenceFrom
  <2>5. packs' = packs
    BY <1>3 DEF IngestQuote
  <2> HIDE DEF new, ev
  <2> QED
    BY <1>1, <2>1, <2>2, <2>3, <2>4, <2>5 DEF IInv, EvidenceHasPack
<1>4. \/ evidence' = evidence
      \/ \E input \in Imports, now \in Receipts : IngestQuote(input, now)
  BY DEF Next, vars, RegisterReviewedPack, CreateExperiment, CompleteExperiment, Submit
<1> QED
  BY <1>2, <1>3, <1>4

\* What a recorded run refers to reads the same after a step.
LEMMA RunReadsTheSame ==
  ASSUME IInv, [Next]_vars, NEW i \in DOMAIN runs
  PROVE  /\ runs'[i] = runs[i]
         /\ RunStillOwned(i)'
<1> DEFINE req == runs[i].request
           c == req.cycle_id
           ref == req.quote_ref
<1>1. OnlyAdds
  BY StepOnlyAdds
<1>2. /\ c \in DOMAIN experiments /\ OwnershipError(req) = ""
      /\ runs[i].versions = VersionsOf(PackOf(c))
      /\ PinnedIntact(runs[i], PackOf(c))
  BY DEF IInv, RunsStillOwned, RunStillOwned
<1>3. runs'[i] = runs[i] /\ c \in DOMAIN experiments' /\ experiments'[c].spec = experiments[c].spec
  BY <1>1, <1>2 DEF OnlyAdds, Extends
<1>4. OwnershipError(req)' = OwnershipError(req)
  BY <1>3 DEF OwnershipError
<1>5. experiments[c].spec.pack \in DOMAIN packs
  BY <1>2 DEF IInv, ReferencesIntact, Holds
<1>6. PackOf(c)' = PackOf(c)
  BY <1>1, <1>3, <1>5 DEF PackOf, OnlyAdds, Extends
<1>7. runs[i].evidence # None => StoredEvidence(ref)' = StoredEvidence(ref)
  <2> SUFFICES ASSUME runs[i].evidence # None PROVE StoredEvidence(ref)' = StoredEvidence(ref)
    OBVIOUS
  <2>1. ref \in DOMAIN evidence
    BY <1>2 DEF PinnedIntact, StoredEvidence
  <2>2. ref \in DOMAIN evidence' /\ evidence'[ref] = evidence[ref]
    BY <1>1, <2>1 DEF OnlyAdds, Extends
  <2>3. runs'[i].request.quote_ref = ref
    BY <1>3
  <2> QED
    BY <2>1, <2>2, <2>3 DEF StoredEvidence
<1>8. PinnedIntact(runs[i], PackOf(c))'
  BY <1>2, <1>3, <1>6, <1>7 DEF PinnedIntact
<1> QED
  BY <1>2, <1>3, <1>4, <1>6, <1>8 DEF RunStillOwned

\* A new run pins the evidence it was decided on.
LEMMA NewRunIsOwned ==
  ASSUME IInv, NEW req \in Requests, Submit(req), NEW n, n = NextRun
  PROVE  RunStillOwned(n)'
<1> DEFINE c == req.cycle_id
           run == SubmitReply(req).value.run
           ref == req.quote_ref
<1>1. runs'[n] = run
  BY SubmitAppends DEF IInv
<1>2. experiments' = experiments /\ packs' = packs /\ evidence' = evidence
  BY DEF Submit
<1>3. /\ c \in DOMAIN experiments /\ OwnershipError(req) = ""
      /\ run.request = req /\ run.evidence = StoredEvidence(ref)
      /\ run.versions = VersionsOf(PackOf(c))
      /\ run.evidence # None => InstrumentPinned(PackOf(c), run.evidence)
  BY FreshSubmit DEF Submit
<1> HIDE DEF run
<1>4. OwnershipError(req)' = "" /\ PackOf(c)' = PackOf(c)
  BY <1>2, <1>3 DEF OwnershipError, PackOf
<1>5. run.evidence # None =>
        /\ ref = QuoteRef(run.evidence.pack, run.evidence.quote)
        /\ StoredEvidence(ref)' = run.evidence
  BY <1>2, <1>3 DEF StoredEvidence, IInv, TypeOK
<1>6. PinnedIntact(runs[n], PackOf(c))'
  BY <1>1, <1>3, <1>4, <1>5 DEF PinnedIntact
<1>7. runs'[n].request = req /\ runs'[n].versions = VersionsOf(PackOf(c))
  BY <1>1, <1>3
<1> QED
  BY <1>2, <1>3, <1>4, <1>6, <1>7 DEF RunStillOwned

\* Every run keeps its owner, its versions and its evidence.
LEMMA RunsKeepOwners ==
  ASSUME IInv, [Next]_vars
  PROVE  RunsStillOwned'
<1>1. \A i \in DOMAIN runs : RunStillOwned(i)'
  BY RunReadsTheSame
<1>2. CASE runs' = runs
  BY <1>1, <1>2 DEF RunsStillOwned
<1>3. ASSUME NEW req \in Requests, Submit(req) PROVE RunsStillOwned'
  <2>1. \A i \in DOMAIN runs' : i \in DOMAIN runs \/ i = NextRun
    BY <1>3, SubmitAppends DEF IInv
  <2>2. \A n : n = NextRun => RunStillOwned(n)'
    BY <1>3, NewRunIsOwned
  <2> QED
    BY <1>1, <2>1, <2>2 DEF RunsStillOwned
<1> QED
  BY <1>2, <1>3, RunsStep

\* A signal is decided afresh only when no run of it exists.
LEMMA SignalsKeepOneRun ==
  ASSUME IInv, [Next]_vars
  PROVE  OneRunPerSignal'
<1>1. CASE runs' = runs
  BY <1>1 DEF IInv, OneRunPerSignal
<1>2. ASSUME NEW req \in Requests, Submit(req) PROVE OneRunPerSignal'
  <2>1. /\ \A i \in DOMAIN runs' : i \in DOMAIN runs \/ i = NextRun
        /\ \A i \in DOMAIN runs : runs'[i] = runs[i]
    BY <1>2, SubmitAppends DEF IInv
  <2>2. runs'[NextRun].request = req
    BY <1>2, SubmitAppends, FreshSubmit DEF IInv, Submit
  <2>3. \A i \in DOMAIN runs : ~SameSignal(runs[i], req)
    BY <1>2, FreshSubmit DEF Submit, PriorRuns
  <2> QED
    BY <2>1, <2>2, <2>3 DEF IInv, OneRunPerSignal, SameSignal
<1> QED
  BY <1>1, <1>2, RunsStep

\* The new run is its experiment's last, and InOrder compared it with the one
\* that was: earlier runs are earlier still.
LEMMA RecordKeepsOrder ==
  ASSUME IInv, [Next]_vars
  PROVE  LastRunExists' /\ DecisionsInOrder'
<1>1. CASE runs' = runs
  <2>1. DecisionsInOrder'
    BY <1>1 DEF IInv, DecisionsInOrder
  <2>2. \A i \in DOMAIN runs : runs[i].request.cycle_id \in DOMAIN experiments
    BY DEF IInv, RunsStillOwned, RunStillOwned
  <2>3. LastRunExists'
    BY <1>1, <2>2 DEF IInv, LastRunExists, OwnRuns
  <2> QED
    BY <2>1, <2>3
<1>2. ASSUME NEW req \in Requests, Submit(req)
      PROVE  LastRunExists' /\ DecisionsInOrder'
  <2> DEFINE c == req.cycle_id
  <2>1. /\ NextRun = Len(runs) + 1 /\ Len(runs) \in Nat
        /\ DOMAIN runs = 1..Len(runs) /\ DOMAIN runs' = 1..NextRun
        /\ \A i \in DOMAIN runs : runs'[i] = runs[i]
        /\ runs'[NextRun].request = req
    BY <1>2, SubmitAppends, FreshSubmit DEF IInv, Submit
  <2>2. c \in DOMAIN experiments /\ InOrder(req) /\ experiments' = experiments
    BY <1>2, FreshSubmit DEF Submit
  <2>3. /\ req.decision_at \in Int
        /\ \A i \in DOMAIN runs : runs[i].request.decision_at \in Int
    BY RequestsAssumption DEF IInv, TypeOK
  <2>4. \A i \in OwnRuns(c) : runs[i].request.decision_at <= req.decision_at
    <3> SUFFICES ASSUME NEW i \in OwnRuns(c)
                 PROVE  runs[i].request.decision_at <= req.decision_at
      OBVIOUS
    <3>1. PICK last \in OwnRuns(c) : \A j \in OwnRuns(c) : j <= last
      BY <2>2 DEF IInv, LastRunExists
    <3>2. runs[last].request.decision_at <= req.decision_at
      BY <2>2, <3>1 DEF InOrder
    <3>3. i = last \/ i < last
      BY <2>1, <3>1 DEF OwnRuns
    <3>4. runs[i].request.decision_at <= runs[last].request.decision_at
      BY <2>3, <3>3 DEF IInv, DecisionsInOrder, OwnRuns
    <3> QED
      BY <2>3, <3>2, <3>4 DEF OwnRuns
  <2>5. DecisionsInOrder'
    BY <2>1, <2>4 DEF IInv, DecisionsInOrder, OwnRuns
  <2>6. /\ \A k : k # c => OwnRuns(k)' = OwnRuns(k)
        /\ NextRun \in OwnRuns(c)'
        /\ \A i \in OwnRuns(c)' : i <= NextRun
    BY <2>1 DEF OwnRuns
  <2>7. LastRunExists'
    BY <2>2, <2>6 DEF IInv, LastRunExists
  <2> QED
    BY <2>5, <2>7
<1> QED
  BY <1>1, <1>2, RunsStep

\* The invariant is inductive.
LEMMA NextIInv == IInv /\ [Next]_vars => IInv'
BY TypeKeeps, MirrorKeeps, CatalogueKeeps, ReferencesKeep, EvidenceKeepsPack,
   RunsKeepOwners, SignalsKeepOneRun, RecordKeepsOrder DEF IInv

(***************************************************************************)
(* The theorems.                                                           *)
(***************************************************************************)

\* Every reachable state of the store has the inductive invariant.
THEOREM LedgerInvariant == Spec => []IInv
<1>1. Init => IInv
  BY InitIInv
<1>2. IInv /\ [Next]_vars => IInv'
  BY NextIInv
<1> QED
  BY <1>1, <1>2, PTL DEF Spec

\* Every row has its type and its own key (the tables of init, mod.rs).
THEOREM LedgerTypeOK == Spec => []TypeOK
<1>1. IInv => TypeOK
  BY DEF IInv
<1> QED
  BY <1>1, LedgerInvariant, PTL

\* v2_fills holds exactly the fills of the recorded outcomes, in run order.
THEOREM FillsAreMirrored == Spec => []FillsMirrorRuns
<1>1. IInv => FillsMirrorRuns
  BY DEF IInv
<1> QED
  BY <1>1, LedgerInvariant, PTL

\* The decisions of every experiment are recorded in the order of their
\* instants, however the requests of several experiments interleave.
THEOREM RecordIsInOrder == Spec => []DecisionsInOrder
<1>1. IInv => DecisionsInOrder
  BY DEF IInv
<1> QED
  BY <1>1, LedgerInvariant, PTL

\* What load_experiment compares is equal wherever the references are intact.
LEMMA References == IInv => EveryExperimentLoads
<1> SUFFICES ASSUME IInv, NEW c \in DOMAIN experiments PROVE ExperimentError(c) = ""
  BY DEF EveryExperimentLoads
<1> DEFINE spec == experiments[c].spec
           strategy == spec.strategy.strategy_version_id
           input == spec.strategy.research_input_id
<1>1. /\ SpecValid(spec) /\ spec.cycle_id = c
      /\ experiments[c].manifest = Catalogue[spec.pack].pack_id
      /\ Holds(packs, spec.pack, Catalogue[spec.pack])
      /\ Holds(artifacts, strategy, spec.strategy)
      /\ Holds(inputs, input, ReviewedInputs[input])
  BY DEF IInv, ReferencesIntact
<1> DEFINE w1 == When(~Holds(packs, spec.pack, Catalogue[spec.pack]),
                      "pinned_market_snapshot_mismatch")
           w2 == When(experiments[c].manifest # Catalogue[spec.pack].pack_id,
                      "experiment_pack_reference_mismatch")
           w3 == When(spec.cycle_id # c, "experiment_identity_mismatch")
           w4 == When(~Holds(artifacts, strategy, spec.strategy), "experiment_artifact_mismatch")
           w5 == When(~Holds(inputs, input, ReviewedInputs[input]),
                      "pinned_research_input_mismatch")
           reasons == <<w1, w2, w3, w4, w5>>
<1>2. ExperimentError(c) = FirstReason(reasons)
  BY <1>1, Zenon DEF ExperimentError
<1>3. w1 = "" /\ w2 = "" /\ w3 = "" /\ w4 = "" /\ w5 = ""
  BY <1>1, Zenon DEF When
<1> HIDE DEF w1, w2, w3, w4, w5
<1>4. /\ DOMAIN reasons = 1..5
      /\ \A i \in 1..5 : reasons[i] \in {w1, w2, w3, w4, w5}
  OBVIOUS
<1> HIDE DEF reasons
<1>5. \A i \in 1..5 : reasons[i] = ""
  BY <1>3, <1>4
<1> QED
  BY <1>2, <1>4, <1>5, NoReason

\* No sequence of operations makes an experiment unreadable: the checks of
\* load_experiment always pass.
THEOREM ExperimentsAlwaysLoad == Spec => []EveryExperimentLoads
BY References, LedgerInvariant, PTL

\* A recorded request is answered from its own run (submit, duplicate branch).
LEMMA Answers == IInv => RetryAlwaysAnswered
<1> SUFFICES ASSUME IInv, NEW i \in DOMAIN runs
             PROVE  SubmitReply(runs[i].request)
                      = Ok([id |-> i, run |-> runs[i], duplicate |-> TRUE])
  BY DEF RetryAlwaysAnswered
<1> DEFINE req == runs[i].request
           c == req.cycle_id
<1>1. c \in DOMAIN experiments /\ OwnershipError(req) = ""
  BY DEF IInv, RunsStillOwned, RunStillOwned
<1>2. ExperimentError(c) = ""
  BY <1>1, References DEF EveryExperimentLoads
<1>3. PriorRuns(req) = {i}
  BY DEF PriorRuns, SameSignal, IInv, OneRunPerSignal
<1>4. DuplicateReply(req, i, PackOf(c)) = Ok([id |-> i, run |-> runs[i], duplicate |-> TRUE])
  BY DEF DuplicateReply, IInv, RunsStillOwned, RunStillOwned
<1>5. PriorRuns(req) # {} /\ (CHOOSE j \in PriorRuns(req) : TRUE) = i
  BY <1>3
<1> QED
  BY <1>1, <1>2, <1>4, <1>5 DEF SubmitReply

\* submit is idempotent for ever: whatever has happened since, a repeated
\* request gets the run it got, and no other.
THEOREM RetriesAreAnswered == Spec => []RetryAlwaysAnswered
BY Answers, LedgerInvariant, PTL

\* A stored identity is compared with the same row before and after a step.
LEMMA ImportStep ==
  ASSUME IInv, IInv', OnlyAdds, NEW input \in Imports, NEW now \in Receipts,
         QuoteRef(input.pack, input.quote) \in DOMAIN evidence
  PROVE  IngestReply(input, now)' = IngestReply(input, now)
<1> DEFINE ref == QuoteRef(input.pack, input.quote)
<1>1. ref \in DOMAIN evidence' /\ evidence'[ref] = evidence[ref]
  BY DEF OnlyAdds, Extends
<1>2. StoredEvidence(ref)' = StoredEvidence(ref)
  BY <1>1 DEF StoredEvidence
<1>3. ref.pack = input.pack
  BY DEF QuoteRef
<1>4. input.pack \in DOMAIN packs
  BY <1>3 DEF IInv, EvidenceHasPack
<1>5. input.pack \in DOMAIN packs' /\ packs'[input.pack] = packs[input.pack]
  BY <1>4 DEF OnlyAdds, Extends
<1>6. PackError(input.pack)' = PackError(input.pack)
  BY <1>4, <1>5 DEF PackError
<1> HIDE DEF ref
<1> QED
  BY <1>1, <1>2, <1>5, <1>6 DEF IngestReply, ref

\* The first import of a quote identity stands: from then on every import that
\* names it, at any clock reading, gets the answer it gets now.
THEOREM ImportsAreFinal == Spec => ImportAnswersAreFinal
<1>1. IInv /\ IInv' /\ [Next]_vars =>
        [\A input \in Imports, now \in Receipts :
           QuoteRef(input.pack, input.quote) \in DOMAIN evidence
             => IngestReply(input, now)' = IngestReply(input, now)]_vars
  BY StepOnlyAdds, ImportStep
<1> QED
  BY <1>1, LedgerInvariant, PTL DEF Spec, ImportAnswersAreFinal

(***************************************************************************)
(* The fills, applied, and the record, decided again, give the same book,  *)
(* for every catalogue and records of any length: replay always verifies,  *)
(* a quote is never filled on twice, completion is final and the past of   *)
(* an experiment is fixed.                                                 *)
(*                                                                         *)
(* Every step only adds, as above, so both computations find again         *)
(* what they found before, one place after the other, and a new run adds   *)
(* the same fill to both.  Why that fill can be accounted for, and what it *)
(* does to a book, is THEOREM FillsTrade of Decision_proofs.               *)
(***************************************************************************)

(***************************************************************************)
(* Project: the fills of a sequence, applied one after the other.          *)
(***************************************************************************)
\* One row of the sequence.
Entry(book, fill) == IF fill = None THEN book ELSE ApplyNext(book, fill)

IsBooks(f, cash, seq, N) ==
  f = [n \in 0..N |-> IF n = 0 THEN Ok(NewPortfolio(cash)) ELSE Entry(f[n-1], seq[n])]

\* The books of a sequence exist, whatever its length.
LEMMA BooksExist ==
  ASSUME NEW cash, NEW seq, NEW N \in Nat
  PROVE  \E f : IsBooks(f, cash, seq, N)
<1> DEFINE T == {n \in Nat : \E f : IsBooks(f, cash, seq, n)}
<1>1. 0 \in T
  <2>1. IsBooks([n \in 0..0 |-> Ok(NewPortfolio(cash))], cash, seq, 0)
    BY DEF IsBooks
  <2> QED
    BY <2>1
<1>2. ASSUME NEW n \in Nat, n \in T PROVE n + 1 \in T
  <2>1. PICK f : IsBooks(f, cash, seq, n)
    BY <1>2
  <2> DEFINE g == [k \in 0..(n + 1) |->
                      IF k = n + 1 THEN Entry(f[n], seq[n + 1]) ELSE f[k]]
  <2>2. IsBooks(g, cash, seq, n + 1)
    BY <2>1 DEF IsBooks
  <2> QED
    BY <2>2
<1> HIDE DEF T
<1>3. Nat \subseteq T
  BY <1>1, <1>2, Induct
<1> QED
  BY <1>3 DEF T

\* Project is the last of those books.
LEMMA ProjectIs ==
  ASSUME NEW cash, NEW seq, Len(seq) \in Nat
  PROVE  \E f : IsBooks(f, cash, seq, Len(seq)) /\ Project(cash, seq) = f[Len(seq)]
<1> DEFINE f == CHOOSE f : IsBooks(f, cash, seq, Len(seq))
<1>1. IsBooks(f, cash, seq, Len(seq))
  BY BooksExist
<1>2. Project(cash, seq) = f[Len(seq)]
  BY DEF Project, IsBooks, Entry
<1> QED
  BY <1>1, <1>2

\* Sequences that begin alike have the same books as long as they do.
LEMMA BooksBeginAlike ==
  ASSUME NEW cash, NEW s, NEW t, NEW M \in Nat, NEW N \in Nat, NEW K \in Nat,
         K <= M, K <= N, \A i \in 1..K : s[i] = t[i],
         NEW f, IsBooks(f, cash, s, M), NEW g, IsBooks(g, cash, t, N)
  PROVE  f[K] = g[K]
<1> DEFINE T == {n \in Nat : n <= K => f[n] = g[n]}
<1>1. 0 \in T
  BY DEF IsBooks
<1>2. ASSUME NEW n \in Nat, n \in T PROVE n + 1 \in T
  <2>1. SUFFICES ASSUME n + 1 <= K PROVE f[n + 1] = g[n + 1]
    OBVIOUS
  <2>2. f[n + 1] = Entry(f[n], s[n + 1]) /\ g[n + 1] = Entry(g[n], t[n + 1])
    BY <2>1 DEF IsBooks
  <2>3. f[n] = g[n] /\ s[n + 1] = t[n + 1]
    BY <1>2, <2>1
  <2> QED
    BY <2>2, <2>3
<1> HIDE DEF T
<1>3. Nat \subseteq T
  BY <1>1, <1>2, Induct
<1> QED
  BY <1>3 DEF T

\* The same rows give the same book.
LEMMA ProjectSame ==
  ASSUME NEW cash, NEW s, NEW t, Len(s) \in Nat, Len(t) = Len(s),
         \A i \in 1..Len(s) : s[i] = t[i]
  PROVE  Project(cash, t) = Project(cash, s)
<1>1. PICK f : IsBooks(f, cash, s, Len(s)) /\ Project(cash, s) = f[Len(s)]
  BY ProjectIs
<1>2. PICK g : IsBooks(g, cash, t, Len(t)) /\ Project(cash, t) = g[Len(t)]
  BY ProjectIs
<1> DEFINE N == Len(s)
<1>0. /\ N \in Nat /\ N <= N /\ \A i \in 1..N : s[i] = t[i]
      /\ IsBooks(f, cash, s, N) /\ IsBooks(g, cash, t, N)
  BY <1>1, <1>2
<1> HIDE DEF N
<1>3. f[N] = g[N]
  BY <1>0, BooksBeginAlike
<1> USE DEF N
<1> QED
  BY <1>1, <1>2, <1>3

\* One more row changes the book by that row.
LEMMA ProjectGrows ==
  ASSUME NEW cash, NEW s, NEW t, Len(s) \in Nat, Len(t) = Len(s) + 1,
         \A i \in 1..Len(s) : s[i] = t[i]
  PROVE  Project(cash, t) = Entry(Project(cash, s), t[Len(s) + 1])
<1>1. PICK f : IsBooks(f, cash, s, Len(s)) /\ Project(cash, s) = f[Len(s)]
  BY ProjectIs
<1>2. PICK g : IsBooks(g, cash, t, Len(t)) /\ Project(cash, t) = g[Len(t)]
  BY ProjectIs
<1> DEFINE N == Len(s)
<1>0. /\ N \in Nat /\ N + 1 \in Nat /\ N <= N /\ N <= N + 1
      /\ IsBooks(f, cash, s, N) /\ IsBooks(g, cash, t, N + 1)
      /\ \A i \in 1..N : s[i] = t[i]
  BY <1>1, <1>2
<1> HIDE DEF N
<1>3. f[N] = g[N]
  BY <1>0, BooksBeginAlike
<1> USE DEF N
<1>4. g[Len(s) + 1] = Entry(g[Len(s)], t[Len(s) + 1])
  BY <1>2 DEF IsBooks
<1> QED
  BY <1>1, <1>2, <1>3, <1>4

\* Where no row is selected the portfolio is new.
LEMMA ProjectNothing ==
  ASSUME NEW cash, NEW s, Len(s) \in Nat, \A i \in 1..Len(s) : s[i] = None
  PROVE  Project(cash, s) = Ok(NewPortfolio(cash))
<1>1. PICK f : IsBooks(f, cash, s, Len(s)) /\ Project(cash, s) = f[Len(s)]
  BY ProjectIs
<1> DEFINE T == {n \in Nat : n <= Len(s) => f[n] = Ok(NewPortfolio(cash))}
<1>2. 0 \in T
  BY <1>1 DEF IsBooks
<1>3. ASSUME NEW n \in Nat, n \in T PROVE n + 1 \in T
  <2>1. SUFFICES ASSUME n + 1 <= Len(s) PROVE f[n + 1] = Ok(NewPortfolio(cash))
    OBVIOUS
  <2>2. f[n + 1] = Entry(f[n], s[n + 1])
    BY <1>1, <2>1 DEF IsBooks
  <2>3. f[n] = Ok(NewPortfolio(cash)) /\ s[n + 1] = None
    BY <1>3, <2>1
  <2> QED
    BY <2>2, <2>3 DEF Entry
<1> HIDE DEF T
<1>4. Nat \subseteq T
  BY <1>2, <1>3, Induct
<1> QED
  BY <1>1, <1>4 DEF T

(***************************************************************************)
(* LoadState: the fills of an experiment.                                  *)
(***************************************************************************)
\* A function on 1..n is a sequence of n elements.
LEMMA LenOfFunction ==
  ASSUME NEW f, NEW n \in Nat, f = [i \in 1..n |-> f[i]]
  PROVE  Len(f) = n
<1> DEFINE S == {f[i] : i \in 1..n}
<1>1. f \in [1..n -> S]
  OBVIOUS
<1> HIDE DEF S
<1>2. f \in Seq(S)
  BY <1>1, SeqDef
<1>3. Len(f) \in Nat /\ DOMAIN f = 1..Len(f) /\ DOMAIN f = 1..n
  BY <1>1, <1>2, LenProperties
<1>4. Len(f) <= n /\ n <= Len(f)
  <2>1. CASE n = 0
    BY <1>3, <2>1
  <2>2. CASE n # 0
    <3>1. n \in 1..n
      BY <2>2
    <3>2. n \in 1..Len(f)
      BY <1>3, <3>1
    <3>3. Len(f) \in 1..Len(f)
      BY <1>3, <3>2
    <3> QED
      BY <1>3, <3>2, <3>3
  <2> QED
    BY <2>1, <2>2
<1> QED
  BY <1>3, <1>4

\* The rows LoadState and StateAfter select.
FillRows(c) ==
  [n \in DOMAIN fills |->
     IF runs[fills[n].run].request.cycle_id = c THEN fills[n].fill ELSE None]
RunRows(selected) == [i \in DOMAIN runs |-> IF i \in selected THEN StoredFill(i) ELSE None]

\* They are as long as their tables.
RowsNumbered ==
  /\ Len(fills) \in Nat /\ DOMAIN fills = 1..Len(fills)
  /\ Len(runs) \in Nat /\ DOMAIN runs = 1..Len(runs)
  /\ \A c : Len(FillRows(c)) = Len(fills)
  /\ \A selected : Len(RunRows(selected)) = Len(runs)

\* Tables of numbered rows give sequences.
LEMMA RowsAreNumbered == TypeOK => RowsNumbered
<1> SUFFICES ASSUME TypeOK PROVE RowsNumbered
  OBVIOUS
<1>1. Numbered(fills) /\ Numbered(runs)
  BY DEF TypeOK
<1>2. /\ Len(fills) \in Nat /\ DOMAIN fills = 1..Len(fills)
      /\ Len(runs) \in Nat /\ DOMAIN runs = 1..Len(runs)
  BY <1>1, AppendRow
<1>3. \A c : Len(FillRows(c)) = Len(fills)
  <2> SUFFICES ASSUME NEW c PROVE Len(FillRows(c)) = Len(fills)
    OBVIOUS
  <2>1. FillRows(c) = [n \in 1..Len(fills) |-> FillRows(c)[n]]
    BY <1>2 DEF FillRows
  <2> QED
    BY <1>2, <2>1, LenOfFunction
<1>4. \A selected : Len(RunRows(selected)) = Len(runs)
  <2> SUFFICES ASSUME NEW selected PROVE Len(RunRows(selected)) = Len(runs)
    OBVIOUS
  <2>1. RunRows(selected) = [n \in 1..Len(runs) |-> RunRows(selected)[n]]
    BY <1>2 DEF RunRows
  <2> QED
    BY <1>2, <2>1, LenOfFunction
<1> QED
  BY <1>2, <1>3, <1>4 DEF RowsNumbered

\* An experiment has finitely many runs, numbered with the others.
LEMMA OwnRunsAreFinite ==
  (TypeOK => \A c : /\ IsFiniteSet(OwnRuns(c)) /\ Cardinality(OwnRuns(c)) \in Nat
                    /\ OwnRuns(c) \subseteq DOMAIN runs /\ DOMAIN runs = 1..Len(runs)
                    /\ Len(runs) \in Nat)
<1> SUFFICES ASSUME TypeOK, NEW c
             PROVE  /\ IsFiniteSet(OwnRuns(c)) /\ Cardinality(OwnRuns(c)) \in Nat
                    /\ OwnRuns(c) \subseteq DOMAIN runs /\ DOMAIN runs = 1..Len(runs)
                    /\ Len(runs) \in Nat
  OBVIOUS
<1>1. Len(runs) \in Nat /\ DOMAIN runs = 1..Len(runs)
  BY RowsAreNumbered DEF RowsNumbered
<1>2. OwnRuns(c) \subseteq 1..Len(runs)
  BY <1>1 DEF OwnRuns
<1>3. IsFiniteSet(1..Len(runs))
  BY <1>1, FS_Interval
<1>4. IsFiniteSet(OwnRuns(c))
  BY <1>2, <1>3, FS_Subset
<1> QED
  BY <1>1, <1>2, <1>4, FS_CardinalityType

(***************************************************************************)
(* The rows of one experiment, picked from the table.                      *)
(***************************************************************************)
\* How many of a set there are up to a number, from none to all of them.
LEMMA Ranks ==
  ASSUME NEW N \in Nat, NEW S, S \subseteq 1..N
  PROVE  /\ IsFiniteSet(S) /\ Cardinality(S) \in Nat
         /\ Rank(S, 0) = 0 /\ Rank(S, N) = Cardinality(S)
         /\ \A n \in 0..N : Rank(S, n) \in Nat
         /\ \A n \in 1..N : Rank(S, n) = IF n \in S THEN Rank(S, n-1) + 1 ELSE Rank(S, n-1)
<1>1. IsFiniteSet(1..N)
  BY FS_Interval
<1>2. IsFiniteSet(S)
  BY <1>1, FS_Subset
<1>3. Cardinality(S) \in Nat
  BY <1>2, FS_CardinalityType
<1> DEFINE Upto(n) == {j \in S : j <= n}
<1>4. ASSUME NEW n PROVE IsFiniteSet(Upto(n)) /\ Cardinality(Upto(n)) \in Nat
  <2>1. IsFiniteSet(Upto(n))
    BY <1>2, FS_Subset
  <2> HIDE DEF Upto
  <2> QED
    BY <2>1, FS_CardinalityType
<1>0. \A j \in S : j \in Int /\ 1 <= j /\ j <= N /\ ~(j <= 0)
  OBVIOUS
<1>5. Upto(0) = {} /\ Upto(N) = S
  <2>1. Upto(0) = {}
    BY <1>0, Zenon
  <2>2. Upto(N) = S
    BY <1>0, Zenon
  <2> QED
    BY <2>1, <2>2
<1>6. ASSUME NEW n \in 1..N
      PROVE  Cardinality(Upto(n)) =
               IF n \in S THEN Cardinality(Upto(n-1)) + 1 ELSE Cardinality(Upto(n-1))
  <2>1. CASE n \in S
    <3>1. Upto(n) = Upto(n-1) \cup {n} /\ n \notin Upto(n-1)
      <4>1. /\ \A j \in S : j <= n <=> (j = n \/ j <= n - 1)
            /\ ~(n <= n - 1) /\ n <= n
        BY <1>0
      <4> QED
        BY <2>1, <4>1, Zenon
    <3>2. IsFiniteSet(Upto(n-1))
      BY <1>4
    <3> HIDE DEF Upto
    <3> QED
      BY <2>1, <3>1, <3>2, FS_AddElement
  <2>2. CASE n \notin S
    <3>1. Upto(n) = Upto(n-1)
      <4>1. \A j \in S : j <= n <=> j <= n - 1
        BY <1>0, <2>2
      <4> QED
        BY <4>1, Zenon
    <3> QED
      BY <2>2, <3>1
  <2> QED
    BY <2>1, <2>2
<1>7. \A n : Rank(S, n) = Cardinality(Upto(n))
  BY DEF Rank
<1> HIDE DEF Upto
<1> QED
  BY <1>2, <1>3, <1>4, <1>5, <1>6, <1>7, FS_EmptySet

\* Later numbers rank no lower.
LEMMA RanksGrow ==
  ASSUME NEW N \in Nat, NEW S, S \subseteq 1..N, NEW m \in 0..N
  PROVE  \A n \in 0..N : m <= n => Rank(S, m) <= Rank(S, n)
<1> DEFINE T == {k \in Nat : m + k <= N => Rank(S, m) <= Rank(S, m + k)}
<1>0. /\ \A n \in 0..N : Rank(S, n) \in Nat
      /\ \A n \in 1..N : Rank(S, n) = IF n \in S THEN Rank(S, n-1) + 1 ELSE Rank(S, n-1)
  BY Ranks
<1>1. Rank(S, m) \in Nat
  BY <1>0
<1>2. 0 \in T
  BY <1>1
<1>3. ASSUME NEW k \in Nat, k \in T PROVE k + 1 \in T
  <2> SUFFICES ASSUME m + (k + 1) <= N PROVE Rank(S, m) <= Rank(S, m + (k + 1))
    OBVIOUS
  <2>1. PICK p, q : p = m + k /\ q = m + (k + 1)
    OBVIOUS
  <2>2. q \in 1..N /\ q - 1 = p /\ p \in 0..N /\ p <= N
    BY <2>1
  <2>0. m + k <= N => Rank(S, m) <= Rank(S, m + k)
    BY <1>3
  <2>3. Rank(S, m) <= Rank(S, p)
    BY <2>0, <2>1, <2>2
  <2>4. Rank(S, p) \in Nat /\ Rank(S, q) = IF q \in S THEN Rank(S, p) + 1 ELSE Rank(S, p)
    BY <1>0, <2>2
  <2> QED
    BY <1>1, <2>1, <2>3, <2>4
<1> HIDE DEF T
<1>4. Nat \subseteq T
  BY <1>2, <1>3, Induct
<1> SUFFICES ASSUME NEW n \in 0..N, m <= n PROVE Rank(S, m) <= Rank(S, n)
  OBVIOUS
<1>5. n - m \in Nat /\ m + (n - m) = n
  OBVIOUS
<1> QED
  BY <1>4, <1>5 DEF T

\* Each member has a rank of its own, and the ranks are the numbers from one on.
LEMMA RanksCount ==
  ASSUME NEW N \in Nat, NEW S, S \subseteq 1..N
  PROVE  /\ \A i \in S : Rank(S, i) \in 1..Cardinality(S) /\ Nth(S, Rank(S, i)) = i
         /\ \A n \in 1..Cardinality(S) : Nth(S, n) \in S /\ Rank(S, Nth(S, n)) = n
         /\ \A i, j \in S : i < j => Rank(S, i) < Rank(S, j)
<1>1. /\ Cardinality(S) \in Nat /\ Rank(S, 0) = 0 /\ Rank(S, N) = Cardinality(S)
      /\ \A n \in 0..N : Rank(S, n) \in Nat
      /\ \A n \in 1..N : Rank(S, n) = IF n \in S THEN Rank(S, n-1) + 1 ELSE Rank(S, n-1)
  BY Ranks
<1>2. ASSUME NEW i \in S PROVE Rank(S, i) \in 1..Cardinality(S)
  <2>1. i \in 0..N /\ i - 1 \in 0..N /\ i \in 1..N /\ N \in 0..N /\ i <= N
    OBVIOUS
  <2>2. Rank(S, i) <= Rank(S, N)
    BY <2>1, RanksGrow
  <2>3. Rank(S, i) = Rank(S, i-1) + 1 /\ Rank(S, i-1) \in Nat
    BY <1>1, <2>1
  <2> QED
    BY <1>1, <2>2, <2>3
<1>3. ASSUME NEW i \in S, NEW j \in S, i < j PROVE Rank(S, i) < Rank(S, j)
  <2>1. i \in 0..N /\ j - 1 \in 0..N /\ j \in 1..N /\ i <= j - 1
    BY <1>3
  <2>2. Rank(S, i) <= Rank(S, j-1)
    BY <2>1, RanksGrow
  <2>3. Rank(S, j) = Rank(S, j-1) + 1 /\ Rank(S, j-1) \in Nat /\ Rank(S, i) \in Nat
    BY <1>1, <2>1
  <2> QED
    BY <2>2, <2>3
<1>4. ASSUME NEW n \in 1..Cardinality(S) PROVE \E i \in S : Rank(S, i) = n
  <2> DEFINE T == {k \in 0..N : Rank(S, k) >= n}
  <2>1. T \subseteq Nat /\ T # {}
    BY <1>1
  <2> HIDE DEF T
  <2>2. PICK i \in T : \A k \in T : i <= k
    BY <2>1, Least, Zenon
  <2> USE DEF T
  <2>3. i \in 1..N /\ i - 1 \in 0..N
    BY <1>1, <2>2
  <2>4. Rank(S, i-1) < n
    BY <1>1, <2>2, <2>3
  <2> QED
    BY <1>1, <2>2, <2>3, <2>4
<1>5. ASSUME NEW n \in 1..Cardinality(S) PROVE Nth(S, n) \in S /\ Rank(S, Nth(S, n)) = n
  BY <1>4 DEF Nth
<1>6. ASSUME NEW i \in S PROVE Nth(S, Rank(S, i)) = i
  <2>1. PICK j : j = Nth(S, Rank(S, i))
    OBVIOUS
  <2>2. j \in S /\ Rank(S, j) = Rank(S, i)
    BY <1>2, <1>5, <2>1
  <2>3. ~(i < j) /\ ~(j < i)
    <3>1. Rank(S, i) \in Int
      BY <1>2
    <3>2. ~(Rank(S, i) < Rank(S, i))
      BY <3>1
    <3> QED
      BY <1>3, <2>2, <3>2
  <2>4. i \in Int /\ j \in Int
    BY <2>2
  <2> QED
    BY <2>1, <2>3, <2>4
<1> QED
  BY <1>2, <1>3, <1>5, <1>6

\* A table of the selected rows of another, the rest of which is None.
Selects(t, S, s) ==
  /\ Len(s) \in Nat /\ S \subseteq 1..Len(s) /\ Len(t) = Cardinality(S)
  /\ \A i \in 1..Len(s) : i \notin S => s[i] = None
  /\ \A n \in 1..Cardinality(S) : t[n] = s[Nth(S, n)]

\* Rows that are not selected may be left out.
LEMMA ProjectPicks ==
  ASSUME NEW cash, NEW s, NEW S, NEW t, Selects(t, S, s)
  PROVE  Project(cash, t) = Project(cash, s)
<1> PICK N : N = Len(s)
  OBVIOUS
<1>0. /\ N \in Nat /\ S \subseteq 1..N /\ Len(t) = Cardinality(S)
      /\ \A i \in 1..N : i \notin S => s[i] = None
      /\ \A n \in 1..Cardinality(S) : t[n] = s[Nth(S, n)]
  BY DEF Selects
<1>1. /\ Cardinality(S) \in Nat /\ Rank(S, 0) = 0 /\ Rank(S, N) = Cardinality(S)
      /\ \A n \in 0..N : Rank(S, n) \in Nat
      /\ \A n \in 1..N : Rank(S, n) = IF n \in S THEN Rank(S, n-1) + 1 ELSE Rank(S, n-1)
  BY <1>0, Ranks
<1>2. \A i \in S : Rank(S, i) \in 1..Cardinality(S) /\ Nth(S, Rank(S, i)) = i
  BY <1>0, RanksCount
<1>3. PICK f : IsBooks(f, cash, s, N) /\ Project(cash, s) = f[N]
  BY <1>0, ProjectIs
<1>4. PICK g : IsBooks(g, cash, t, Cardinality(S)) /\ Project(cash, t) = g[Cardinality(S)]
  BY <1>0, <1>1, ProjectIs
<1>5. f[0] = Ok(NewPortfolio(cash)) /\ \A n \in 1..N : f[n] = Entry(f[n-1], s[n])
  <2>1. \A n \in 0..N : f[n] = IF n = 0 THEN Ok(NewPortfolio(cash)) ELSE Entry(f[n-1], s[n])
    BY <1>3 DEF IsBooks
  <2> QED
    BY <2>1
<1>6. g[0] = Ok(NewPortfolio(cash)) /\ \A n \in 1..Cardinality(S) : g[n] = Entry(g[n-1], t[n])
  <2>1. \A n \in 0..Cardinality(S) :
          g[n] = IF n = 0 THEN Ok(NewPortfolio(cash)) ELSE Entry(g[n-1], t[n])
    BY <1>4 DEF IsBooks
  <2> QED
    BY <1>1, <2>1
<1> DEFINE T == {n \in Nat : n <= N => f[n] = g[Rank(S, n)]}
<1>7. 0 \in T
  BY <1>1, <1>5, <1>6
<1>8. ASSUME NEW n \in Nat, n \in T PROVE n + 1 \in T
  <2> SUFFICES ASSUME n + 1 <= N PROVE f[n + 1] = g[Rank(S, n + 1)]
    OBVIOUS
  <2>1. n + 1 \in 1..N /\ (n + 1) - 1 = n /\ n \in 0..N
    BY <1>0
  <2>2. f[n] = g[Rank(S, n)] /\ f[n + 1] = Entry(f[n], s[n + 1])
    BY <1>5, <1>8, <2>1
  <2>3. CASE n + 1 \notin S
    <3>1. s[n + 1] = None /\ Rank(S, n + 1) = Rank(S, n)
      BY <1>0, <1>1, <2>1, <2>3
    <3> QED
      BY <2>2, <3>1 DEF Entry
  <2>4. CASE n + 1 \in S
    <3>1. PICK k : k = Rank(S, n + 1)
      OBVIOUS
    <3>2. k \in 1..Cardinality(S) /\ Nth(S, k) = n + 1
      BY <1>2, <2>4, <3>1
    <3>3. k = Rank(S, n) + 1 /\ Rank(S, n) \in Nat
      BY <1>1, <2>1, <2>4, <3>1
    <3>4. k - 1 = Rank(S, n)
      BY <3>3
    <3>5. t[k] = s[n + 1]
      BY <1>0, <3>2
    <3>6. g[k] = Entry(g[k-1], t[k])
      BY <1>6, <3>2
    <3> QED
      BY <2>2, <3>1, <3>4, <3>5, <3>6
  <2> QED
    BY <2>3, <2>4
<1> HIDE DEF T
<1>9. Nat \subseteq T
  BY <1>7, <1>8, Induct
<1>10. f[N] = g[Rank(S, N)]
  BY <1>0, <1>9 DEF T
<1> QED
  BY <1>1, <1>3, <1>4, <1>10

(***************************************************************************)
(* What a submission does to LoadState.                                    *)
(***************************************************************************)
\* A submission adds its fill, if it has one, to its own experiment's book.
LEMMA LoadAfterSubmit ==
  ASSUME IInv, NEW req \in Requests, Submit(req), NEW c \in DOMAIN experiments
  PROVE  LoadState(c)' = Entry(LoadState(c),
           IF req.cycle_id = c THEN SubmitReply(req).value.run.outcome.fill ELSE None)
<1> DEFINE run == SubmitReply(req).value.run
           fill == run.outcome.fill
           cash == experiments[c].spec.initial_cash
           N == Len(fills)
<1>1. TypeOK /\ TypeOK' /\ FillsMirrorRuns
  BY TypeKeeps DEF IInv, Next
<1>2. N \in Nat /\ DOMAIN fills = 1..N /\ Len(FillRows(c)) = N
  BY <1>1, RowsAreNumbered DEF RowsNumbered
<1>3. Len(FillRows(c)') = Len(fills') /\ DOMAIN fills' = 1..Len(fills') /\ Len(fills') \in Nat
  <2>1. (TypeOK => RowsNumbered)'
    BY RowsAreNumbered, PTL
  <2> QED
    BY <1>1, <2>1 DEF RowsNumbered
<1>4. LoadState(c) = Project(cash, FillRows(c)) /\ LoadState(c)' = Project(cash, FillRows(c)')
  BY DEF LoadState, FillRows, Submit
<1>5. /\ \A i \in DOMAIN runs : runs'[i] = runs[i]
      /\ runs'[NextRun] = run /\ run.request = req
      /\ SubmitReply(req).value.id = NextRun
  BY SubmitAppends, FreshSubmit DEF IInv, Submit
<1>6. \A n \in 1..N : fills[n].run \in DOMAIN runs
  BY <1>1, <1>2 DEF FillsMirrorRuns
<1> DEFINE s == FillRows(c)
           t == FillRows(c)'
<1>7. CASE fill = None
  <2>1. fills' = fills
    BY <1>7 DEF Submit
  <2>2. \A n \in 1..N : s[n] = t[n]
    BY <1>2, <1>5, <1>6, <2>1 DEF FillRows
  <2> HIDE DEF s, t, fill, cash
  <2>3. Project(cash, t) = Project(cash, s)
    BY <1>2, <1>3, <2>1, <2>2, ProjectSame DEF s, t
  <2> QED
    BY <1>4, <1>7, <2>3 DEF Entry, fill, s, t
<1>8. CASE fill # None
  <2> DEFINE row == [run |-> NextRun, fill |-> fill]
  <2>1. fills' = Append(fills, row)
    BY <1>5, <1>8 DEF Submit
  <2>2. row.run = NextRun /\ row.fill = fill
    OBVIOUS
  <2> HIDE DEF row, run
  <2>3. /\ Len(fills') = N + 1
        /\ \A n \in 1..N : fills'[n] = fills[n]
        /\ fills'[N + 1] = row
    <3>1. /\ DOMAIN fills' = 1..(N + 1)
          /\ \A n \in DOMAIN fills : fills'[n] = fills[n]
          /\ fills'[N + 1] = row
      BY <1>1, <2>1, AppendRow DEF TypeOK
    <3>2. N + 1 \in 1..Len(fills') /\ Len(fills') \in 1..(N + 1)
      BY <1>2, <1>3, <3>1
    <3> QED
      BY <1>2, <1>3, <3>1, <3>2
  <2>4. \A n \in 1..N : n \in 1..(N + 1)
    BY <1>2
  <2>5. \A n \in 1..N : s[n] = t[n]
    BY <1>2, <1>3, <1>5, <1>6, <2>3, <2>4 DEF FillRows
  <2>6. t[N + 1] = IF req.cycle_id = c THEN fill ELSE None
    <3>1. N + 1 \in DOMAIN fills'
      BY <1>2, <1>3, <2>3
    <3> HIDE DEF fill
    <3> QED
      BY <1>5, <2>2, <2>3, <3>1 DEF FillRows
  <2> HIDE DEF s, t, fill, cash
  <2>7. Project(cash, t) = Entry(Project(cash, s), t[N + 1])
    <3>1. Len(s) = N /\ Len(t) = N + 1
      BY <1>2, <1>3, <2>3 DEF s, t
    <3> HIDE DEF N
    <3> QED
      BY <1>2, <2>5, <3>1, ProjectGrows
  <2> QED
    BY <1>4, <2>6, <2>7 DEF fill, run, s, t
<1> QED
  BY <1>7, <1>8

\* Nothing else changes a book.
LEMMA LoadStays ==
  ASSUME IInv, [Next]_vars, runs' = runs, fills' = fills, NEW c \in DOMAIN experiments
  PROVE  LoadState(c)' = LoadState(c)
<1>1. experiments'[c].spec = experiments[c].spec
  BY StepOnlyAdds DEF OnlyAdds
<1> QED
  BY <1>1 DEF LoadState

(***************************************************************************)
(* Replayed: the record, decided again.                                    *)
(***************************************************************************)
Start(c) ==
  [ok |-> TRUE, previous_at |-> 0,
   state |-> NewPortfolio(experiments[c].spec.initial_cash)]

\* One place of the record.
Redone(c, acc, n) == IF n \in OwnRuns(c) THEN ReplayRun(c, acc, n) ELSE acc

IsReplay(f, c, N) ==
  f = [n \in 0..N |-> IF n = 0 THEN Start(c) ELSE Redone(c, f[n-1], n)]

\* The walk over the record exists, however long it is.
LEMMA ReplayExists ==
  ASSUME NEW c, NEW N \in Nat
  PROVE  \E f : IsReplay(f, c, N)
<1> DEFINE T == {n \in Nat : \E f : IsReplay(f, c, n)}
<1>1. 0 \in T
  <2>1. IsReplay([n \in 0..0 |-> Start(c)], c, 0)
    BY DEF IsReplay
  <2> QED
    BY <2>1
<1>2. ASSUME NEW n \in Nat, n \in T PROVE n + 1 \in T
  <2>1. PICK f : IsReplay(f, c, n)
    BY <1>2
  <2> DEFINE g == [k \in 0..(n + 1) |->
                      IF k = n + 1 THEN Redone(c, f[n], n + 1) ELSE f[k]]
  <2>2. IsReplay(g, c, n + 1)
    BY <2>1 DEF IsReplay
  <2> QED
    BY <2>2
<1> HIDE DEF T
<1>3. Nat \subseteq T
  BY <1>1, <1>2, Induct
<1> QED
  BY <1>3 DEF T

\* Replayed is where the walk ends.
ReplayEnds ==
  \A c : \E f : IsReplay(f, c, Len(runs)) /\ Replayed(c) = f[Len(runs)]

\* The walk exists, so Replayed is its end.
LEMMA ReplayedIs == Len(runs) \in Nat => ReplayEnds
<1> SUFFICES ASSUME NEW c, Len(runs) \in Nat
             PROVE  \E f : IsReplay(f, c, Len(runs)) /\ Replayed(c) = f[Len(runs)]
  BY DEF ReplayEnds
<1> DEFINE f == CHOOSE f : IsReplay(f, c, Len(runs))
<1>1. IsReplay(f, c, Len(runs))
  BY ReplayExists
<1>2. Replayed(c) = f[Len(runs)]
  BY DEF Replayed, IsReplay, Start, Redone
<1> QED
  BY <1>1, <1>2

\* An experiment without runs is replayed at once.
NoneReplayed == \A c : OwnRuns(c) = {} => Replayed(c) = Start(c)

\* The walk only passes the runs of others.
LEMMA ReplayOfNone == Len(runs) \in Nat => NoneReplayed
<1> SUFFICES ASSUME NEW c, Len(runs) \in Nat, OwnRuns(c) = {} PROVE Replayed(c) = Start(c)
  BY DEF NoneReplayed
<1>1. PICK f : IsReplay(f, c, Len(runs)) /\ Replayed(c) = f[Len(runs)]
  BY ReplayedIs DEF ReplayEnds
<1> DEFINE T == {n \in Nat : n <= Len(runs) => f[n] = Start(c)}
<1>2. 0 \in T
  BY <1>1 DEF IsReplay
<1>3. ASSUME NEW n \in Nat, n \in T PROVE n + 1 \in T
  <2>1. SUFFICES ASSUME n + 1 <= Len(runs) PROVE f[n + 1] = Start(c)
    OBVIOUS
  <2>2. f[n + 1] = Redone(c, f[n], n + 1)
    BY <1>1, <2>1 DEF IsReplay
  <2>3. f[n] = Start(c)
    BY <1>3, <2>1
  <2> QED
    BY <2>2, <2>3 DEF Redone
<1> HIDE DEF T
<1>4. Nat \subseteq T
  BY <1>2, <1>3, Induct
<1> QED
  BY <1>1, <1>4 DEF T

\* The stored fill of a run is the fill of its outcome.
LEMMA StoredFillIs ==
  FillsMirrorRuns => \A i \in DOMAIN runs : StoredFill(i) = runs[i].outcome.fill
<1> SUFFICES ASSUME FillsMirrorRuns, NEW i \in DOMAIN runs
             PROVE  StoredFill(i) = runs[i].outcome.fill
  OBVIOUS
<1>1. CASE \E f \in DOMAIN fills : fills[f].run = i
  <2> DEFINE f == CHOOSE f \in DOMAIN fills : fills[f].run = i
  <2>1. f \in DOMAIN fills /\ fills[f].run = i
    BY <1>1
  <2>2. StoredFill(i) = fills[f].fill
    BY <1>1 DEF StoredFill
  <2> HIDE DEF f
  <2> QED
    BY <2>1, <2>2 DEF FillsMirrorRuns
<1>2. CASE ~\E f \in DOMAIN fills : fills[f].run = i
  BY <1>2 DEF StoredFill, FillsMirrorRuns
<1> QED
  BY <1>1, <1>2

\* A step leaves the stored fills of the runs that were there.
LEMMA StoredFillStays ==
  ASSUME IInv, [Next]_vars, NEW n \in DOMAIN runs
  PROVE  StoredFill(n)' = StoredFill(n)
<1>1. OnlyAdds /\ IInv'
  BY StepOnlyAdds, NextIInv
<1>2. n \in DOMAIN runs' /\ runs'[n] = runs[n]
  BY <1>1 DEF OnlyAdds, Extends
<1>3. StoredFill(n) = runs[n].outcome.fill
  BY StoredFillIs DEF IInv
<1>4. (FillsMirrorRuns => \A i \in DOMAIN runs : StoredFill(i) = runs[i].outcome.fill)'
  BY StoredFillIs, PTL
<1>5. StoredFill(n)' = runs'[n].outcome.fill
  BY <1>1, <1>2, <1>4 DEF IInv
<1> QED
  BY <1>2, <1>3, <1>5

\* A place of the record is redone as before after any step.
LEMMA RedoneStays ==
  ASSUME IInv, [Next]_vars, NEW c \in DOMAIN experiments, NEW n \in DOMAIN runs, NEW acc
  PROVE  Redone(c, acc, n)' = Redone(c, acc, n)
<1> DEFINE pack == PackOf(c)
<1>1. OnlyAdds /\ IInv'
  BY StepOnlyAdds, NextIInv
<1>2. /\ n \in DOMAIN runs' /\ runs'[n] = runs[n]
      /\ c \in DOMAIN experiments' /\ experiments'[c].spec = experiments[c].spec
  BY <1>1 DEF OnlyAdds, Extends
<1>3. PackOf(c)' = pack
  BY <1>1, <1>2 DEF PackOf, IInv, ReferencesIntact, Holds, OnlyAdds, Extends
<1>4. StoredFill(n)' = StoredFill(n)
  BY StoredFillStays
<1>5. runs[n].evidence # None =>
        StoredEvidence(runs[n].request.quote_ref)' = StoredEvidence(runs[n].request.quote_ref)
  <2> SUFFICES ASSUME runs[n].evidence # None
               PROVE  StoredEvidence(runs[n].request.quote_ref)'
                        = StoredEvidence(runs[n].request.quote_ref)
    OBVIOUS
  <2>1. /\ StoredEvidence(runs[n].request.quote_ref) = runs[n].evidence
    BY DEF IInv, RunsStillOwned, RunStillOwned, PinnedIntact
  <2>2. StoredEvidence(runs[n].request.quote_ref)' = runs'[n].evidence
    BY <1>1, <1>2 DEF IInv, RunsStillOwned, RunStillOwned, PinnedIntact
  <2> QED
    BY <1>2, <2>1, <2>2
<1>6. n \in OwnRuns(c)' <=> n \in OwnRuns(c)
  BY <1>2 DEF OwnRuns
<1>7. RunIntact(c, pack, runs[n], acc.previous_at)' = RunIntact(c, pack, runs[n], acc.previous_at)
  BY <1>2, <1>3, <1>5 DEF RunIntact, Owned
<1>8. \A calculated : Confirm(acc, n, calculated)' = Confirm(acc, n, calculated)
  BY <1>2, <1>4 DEF Confirm
<1> QED
  BY <1>2, <1>3, <1>6, <1>7, <1>8 DEF Redone, ReplayRun, PinnedEvidence

\* The walks of two successive states agree as long as there are old runs.
LEMMA ReplayBeginsAlike ==
  ASSUME IInv, [Next]_vars, NEW c \in DOMAIN experiments,
         NEW N \in Nat, DOMAIN runs = 1..N, NEW M \in Nat, N <= M,
         NEW f, IsReplay(f, c, N), NEW g, IsReplay(g, c, M)'
  PROVE  g[N] = f[N]
<1> DEFINE T == {n \in Nat : n <= N => g[n] = f[n]}
<1>1. g = [n \in 0..M |-> IF n = 0 THEN Start(c)' ELSE Redone(c, g[n-1], n)']
  BY DEF IsReplay
<1>2. Start(c)' = Start(c)
  <2>1. experiments'[c].spec = experiments[c].spec
    BY StepOnlyAdds DEF OnlyAdds
  <2> QED
    BY <2>1 DEF Start
<1>3. 0 \in T
  BY <1>1, <1>2 DEF IsReplay
<1>4. ASSUME NEW n \in Nat, n \in T PROVE n + 1 \in T
  <2>1. SUFFICES ASSUME n + 1 <= N PROVE g[n + 1] = f[n + 1]
    OBVIOUS
  <2>2. f[n + 1] = Redone(c, f[n], n + 1)
    BY <2>1 DEF IsReplay
  <2>3. g[n + 1] = Redone(c, g[n], n + 1)'
    BY <1>1, <2>1
  <2>4. g[n] = f[n] /\ n + 1 \in DOMAIN runs
    BY <1>4, <2>1
  <2>5. Redone(c, f[n], n + 1)' = Redone(c, f[n], n + 1)
    BY <2>4, RedoneStays
  <2> QED
    BY <2>2, <2>3, <2>4, <2>5
<1> HIDE DEF T
<1>5. Nat \subseteq T
  BY <1>3, <1>4, Induct
<1> QED
  BY <1>5 DEF T

\* Without a new run an experiment is replayed as before.
LEMMA ReplayStays ==
  ASSUME IInv, [Next]_vars, runs' = runs, NEW c \in DOMAIN experiments
  PROVE  Replayed(c)' = Replayed(c)
<1>a. PICK N : N = Len(runs)
  OBVIOUS
<1>1. N \in Nat /\ DOMAIN runs = 1..N
  BY <1>a, RowsAreNumbered DEF RowsNumbered, IInv
<1>2. PICK f : IsReplay(f, c, N) /\ Replayed(c) = f[N]
  BY <1>a, <1>1, ReplayedIs DEF ReplayEnds
<1>3. PICK g : IsReplay(g, c, N)' /\ Replayed(c)' = g[N]
  <2>1. (Len(runs) \in Nat => ReplayEnds)'
    BY ReplayedIs, PTL
  <2>2. ReplayEnds'
    BY <1>a, <1>1, <2>1
  <2> QED
    BY <1>a, <2>2 DEF ReplayEnds
<1>5. g[N] = f[N]
  <2>1. N <= N
    BY <1>1
  <2> QED
    BY <1>1, <1>2, <1>3, <2>1, ReplayBeginsAlike
<1> QED
  BY <1>2, <1>3, <1>5

\* A new run is redone after all others.
LEMMA ReplayGrows ==
  ASSUME IInv, NEW req \in Requests, Submit(req), NEW c \in DOMAIN experiments,
         NEW n, n = NextRun, NEW acc, acc = Replayed(c)
  PROVE  Replayed(c)' = Redone(c, acc, n)'
<1>a. PICK N : N = Len(runs)
  OBVIOUS
<1>0. [Next]_vars
  BY DEF Next
<1>1. /\ N \in Nat /\ DOMAIN runs = 1..N /\ n = N + 1
      /\ DOMAIN runs' = 1..n /\ Numbered(runs')
  BY <1>a, SubmitAppends DEF IInv
<1>2. PICK f : IsReplay(f, c, N) /\ Replayed(c) = f[N]
  BY <1>a, <1>1, ReplayedIs DEF ReplayEnds
<1>3. Len(runs') = n
  <2>1. Len(runs') \in Nat /\ DOMAIN runs' = 1..Len(runs')
    <3>1. runs' \in Seq({runs'[i] : i \in DOMAIN runs'})
      BY <1>1 DEF Numbered
    <3> QED
      BY <3>1, LenProperties
  <2>2. n \in 1..Len(runs') /\ (Len(runs') # 0 => Len(runs') \in 1..n)
    BY <1>1, <2>1
  <2> QED
    BY <1>1, <2>1, <2>2
<1>4. PICK g : IsReplay(g, c, Len(runs))' /\ Replayed(c)' = g[n]
  <2>1. (Len(runs) \in Nat => ReplayEnds)'
    BY ReplayedIs, PTL
  <2>2. ReplayEnds'
    BY <1>1, <1>3, <2>1
  <2> QED
    BY <1>3, <2>2 DEF ReplayEnds
<1>5. g = [k \in 0..n |-> IF k = 0 THEN Start(c)' ELSE Redone(c, g[k-1], k)']
  BY <1>3, <1>4 DEF IsReplay
<1>6. IsReplay(g, c, n)'
  BY <1>5 DEF IsReplay
<1>7. g[N] = f[N]
  <2>1. n \in Nat /\ N <= n
    BY <1>1
  <2> QED
    BY <1>0, <1>1, <1>2, <1>6, <2>1, ReplayBeginsAlike
<1>8. g[n] = Redone(c, g[N], n)'
  BY <1>1, <1>5
<1> QED
  BY <1>2, <1>4, <1>7, <1>8

(***************************************************************************)
(* A new run is decided the same again.                                    *)
(***************************************************************************)
\* The reasons of OwnershipError that replay compares once more.
LEMMA OwnershipIs ==
  ASSUME NEW req
  PROVE  OwnershipError(req) = "" =>
           LET spec == experiments[req.cycle_id].spec IN
           /\ req.strategy_version_id = spec.strategy.strategy_version_id
           /\ req.quote_ref.pack = spec.pack
<1> DEFINE spec == experiments[req.cycle_id].spec
           w1 == When(req.schema_version # 4, "unsupported_contract_version")
           w2 == When(req.strategy_version_id # spec.strategy.strategy_version_id,
                      "experiment_strategy_mismatch")
           w3 == When(req.quote_ref.pack # spec.pack, "experiment_quote_data_pack_mismatch")
           reasons == <<w1, w2, w3>>
<1>1. OwnershipError(req) = FirstReason(reasons)
  BY DEF OwnershipError
<1> HIDE DEF w1, w2, w3
<1>2. DOMAIN reasons = 1..3 /\ reasons[2] = w2 /\ reasons[3] = w3
  OBVIOUS
<1> HIDE DEF reasons
<1>3. FirstReason(reasons) = "" => \A i \in 1..3 : reasons[i] = ""
  BY <1>2, NoReason
<1>4. 2 \in 1..3 /\ 3 \in 1..3
  OBVIOUS
<1>5. OwnershipError(req) = "" => w2 = "" /\ w3 = ""
  BY <1>1, <1>2, <1>3, <1>4
<1> QED
  BY <1>5 DEF w2, w3, When

\* What a decision that is not an error has passed.
LEMMA DecidedRequests ==
  ASSUME NEW state, NEW req, NEW ev, NEW pack
  PROVE  Decide(state, req, ev, pack).ok => RequestError(req) = ""
BY DEF Decide, Err

\* The outcome of a fresh request is what its experiment's book decides.
LEMMA FreshDecision ==
  ASSUME NEW req, SubmitReply(req).ok, ~SubmitReply(req).value.duplicate
  PROVE  LET book == LoadState(req.cycle_id)
             decision == Decide(book.value, req, StoredEvidence(req.quote_ref),
                                PackOf(req.cycle_id))
         IN /\ book.ok /\ decision.ok
            /\ SubmitReply(req).value.run.outcome = decision.value
            /\ Accepting(req.cycle_id)
<1> DEFINE c == req.cycle_id
           pack == PackOf(c)
           book == LoadState(c)
           ev == StoredEvidence(req.quote_ref)
           decision == Decide(book.value, req, ev, pack)
           prior == CHOOSE i \in PriorRuns(req) : TRUE
<1>1. ~(DuplicateReply(req, prior, pack).ok /\ ~DuplicateReply(req, prior, pack).value.duplicate)
  BY DEF DuplicateReply, Ok, Err
<1>2. SubmitReply(req) = FreshReply(req, pack) /\ Accepting(c)
  BY <1>1, Results DEF SubmitReply
<1>3. book.ok /\ decision.ok /\ FreshReply(req, pack) = DecidedReply(req, pack, ev, decision)
  BY <1>2, Results DEF FreshReply, DecidedReply
<1> HIDE DEF decision, book
<1>4. DecidedReply(req, pack, ev, decision).value.run.outcome = decision.value
  BY <1>3, Results DEF DecidedReply
<1> QED
  BY <1>2, <1>3, <1>4 DEF decision, book

\* Stored prices are integers: they came with an import.
LEMMA StoredPrices ==
  ASSUME EvidenceIsImported, NEW ref
  PROVE  LET ev == StoredEvidence(ref) IN
         ev # None /\ ev.execution # None => ev.execution.price \in Int
<1> DEFINE ev == StoredEvidence(ref)
<1> SUFFICES ASSUME ev # None, ev.execution # None PROVE ev.execution.price \in Int
  OBVIOUS
<1>1. ref \in DOMAIN evidence /\ ev = evidence[ref]
  BY DEF StoredEvidence
<1>2. PICK input \in Imports : SameImport(ev, input)
  BY <1>1 DEF EvidenceIsImported
<1>3. input.execution = ev.execution
  BY <1>2 DEF SameImport
<1> HIDE DEF ev
<1> QED
  BY <1>3, ImportsAssumption

\* A book after a decision.
Afterwards(state, fill) == IF fill = None THEN state ELSE Apply(state, fill).value

\* The new run's fill can be accounted for, and does what a fill does.
LEMMA NewFill ==
  ASSUME BooksIInv, NEW req \in Requests, Submit(req), NEW acc, acc = Replayed(req.cycle_id),
         NEW fill, fill = SubmitReply(req).value.run.outcome.fill
  PROVE  /\ IsBook(Afterwards(acc.state, fill))
         /\ fill # None =>
              /\ Apply(acc.state, fill).ok
              /\ SubmitReply(req).value.run.evidence # None
              /\ Trades(acc.state, req, SubmitReply(req).value.run.evidence,
                        Apply(acc.state, fill).value)
              /\ WholeLot(acc.state, req, fill, Apply(acc.state, fill).value)
<1> DEFINE c == req.cycle_id
           pack == PackOf(c)
           ev == StoredEvidence(req.quote_ref)
           state == acc.state
           decision == Decide(state, req, ev, pack)
<1>1. /\ SubmitReply(req).ok /\ ~SubmitReply(req).value.duplicate
      /\ c \in DOMAIN experiments
      /\ SubmitReply(req).value.run.evidence = ev
  BY FreshSubmit DEF Submit
<1>2. IsBook(state) /\ LoadState(c) = Ok(state)
  BY <1>1 DEF BooksIInv, BooksAgree, BookAgrees, EndsAsRecorded
<1>3. LoadState(c).value = state
  BY <1>2, Results
<1>4. decision.ok /\ SubmitReply(req).value.run.outcome = decision.value
  BY <1>1, <1>3, FreshDecision
<1>5. req.decision_at \in Int /\ req.signal.side \in Sides
  BY RequestsAssumption
<1>6. ev # None /\ ev.execution # None => ev.execution.price \in Int
  BY StoredPrices DEF BooksIInv
<1> HIDE DEF ev, pack, state, c
<1>7. fill # None =>
        /\ Apply(state, fill).ok
        /\ Trades(state, req, ev, Apply(state, fill).value)
        /\ WholeLot(state, req, fill, Apply(state, fill).value)
        /\ IsBook(Apply(state, fill).value)
  <2> SUFFICES ASSUME fill # None
               PROVE  /\ Apply(state, fill).ok
                      /\ Trades(state, req, ev, Apply(state, fill).value)
                      /\ WholeLot(state, req, fill, Apply(state, fill).value)
                      /\ IsBook(Apply(state, fill).value)
    OBVIOUS
  <2>1. decision.value.fill = fill
    BY <1>4
  <2> QED
    BY <1>2, <1>4, <1>5, <1>6, <2>1, FillsTrade
<1>8. IsBook(Afterwards(state, fill))
  BY <1>2, <1>7 DEF Afterwards
<1>9. fill # None => ev # None
  BY <1>7 DEF Trades
<1> QED
  BY <1>1, <1>7, <1>8, <1>9 DEF state

\* What the new run pinned is what replay compares it with.
LEMMA NewRunIsIntact ==
  ASSUME BooksIInv, NEW req \in Requests, Submit(req), NEW c, c = req.cycle_id,
         NEW n, n = NextRun, NEW acc, acc = Replayed(c)
  PROVE  RunIntact(c, PackOf(c), runs[n], acc.previous_at)'
<1> DEFINE run == SubmitReply(req).value.run
<1>0. IInv /\ [Next]_vars /\ IInv'
  BY NextIInv DEF BooksIInv, Next
<1>1. /\ c \in DOMAIN experiments /\ OwnershipError(req) = ""
      /\ run.request = req /\ run.versions = VersionsOf(PackOf(c))
      /\ run.evidence = StoredEvidence(req.quote_ref)
      /\ run.evidence # None => InstrumentPinned(PackOf(c), run.evidence)
  BY FreshSubmit DEF Submit
<1>2. /\ DOMAIN runs = 1..Len(runs) /\ Len(runs) \in Nat /\ n = Len(runs) + 1
      /\ DOMAIN runs' = 1..n /\ \A i \in DOMAIN runs : runs'[i] = runs[i]
      /\ runs'[n] = run
  BY <1>0, SubmitAppends DEF IInv
<1>3. experiments' = experiments /\ packs' = packs /\ evidence' = evidence
  BY DEF Submit
<1>4. PackOf(c)' = PackOf(c) /\ Owned(c, req)'
  BY <1>1, <1>3, OwnershipIs DEF PackOf, Owned
<1>5. StoredEvidence(req.quote_ref)' = StoredEvidence(req.quote_ref)
  BY <1>3 DEF StoredEvidence
<1>6. req.decision_at >= acc.previous_at
  <2>1. acc.previous_at \in {0} \cup {runs[i].request.decision_at : i \in OwnRuns(c)}
    BY <1>1 DEF BooksIInv, BooksAgree, BookAgrees
  <2>2. CASE acc.previous_at = 0
    <3>1. IsTimestamp(req.decision_at)
      BY FreshDecision, DecidedRequests, RequestIsTimed, Zenon DEF Submit
    <3>2. req.decision_at \in Int
      BY RequestsAssumption
    <3> QED
      BY <2>2, <3>1, <3>2 DEF IsTimestamp
  <2>3. ASSUME NEW i \in OwnRuns(c), acc.previous_at = runs[i].request.decision_at
        PROVE  req.decision_at >= acc.previous_at
    <3>1. i \in DOMAIN runs /\ runs[i].request.cycle_id = c /\ i \in DOMAIN runs' /\ i < n
      BY <1>2 DEF OwnRuns
    <3>2. n \in DOMAIN runs'
      BY <1>2
    <3>3. runs'[i].request = runs[i].request /\ runs'[n].request = req
      BY <1>1, <1>2, <3>1
    <3>4. runs[i].request.decision_at <= req.decision_at
      BY <1>0, <3>1, <3>2, <3>3 DEF IInv, DecisionsInOrder
    <3>5. runs[i].request.decision_at \in Int /\ req.decision_at \in Int
      BY <1>0, <3>1, RequestsAssumption DEF IInv, TypeOK
    <3> QED
      BY <2>3, <3>4, <3>5
  <2> QED
    BY <2>1, <2>2, <2>3
<1> HIDE DEF run
<1>7. runs'[n].request = req /\ runs'[n].evidence = run.evidence /\ runs'[n].versions = run.versions
  BY <1>1, <1>2
<1> QED
  BY <1>1, <1>3, <1>4, <1>5, <1>6, <1>7 DEF RunIntact, InstrumentPinned

\* What replay has after a run.
ReplayedTo(req, state) == [ok |-> TRUE, previous_at |-> req.decision_at, state |-> state]

\* Replay finds the new run's outcome again and goes on from there.
LEMMA NewRunIsRedone ==
  ASSUME BooksIInv, NEW req \in Requests, Submit(req), NEW c, c = req.cycle_id,
         NEW n, n = NextRun, NEW acc, acc = Replayed(c),
         NEW fill, fill = SubmitReply(req).value.run.outcome.fill
  PROVE  Redone(c, acc, n)' = ReplayedTo(req, Afterwards(acc.state, fill))
<1> DEFINE run == SubmitReply(req).value.run
<1>a. PICK ev : ev = StoredEvidence(req.quote_ref)
  OBVIOUS
<1>b. PICK decision : decision = Decide(acc.state, req, ev, PackOf(c))
  OBVIOUS
<1>0. IInv /\ IInv'
  BY NextIInv DEF BooksIInv, Next
<1>1. /\ SubmitReply(req).ok /\ ~SubmitReply(req).value.duplicate
      /\ c \in DOMAIN experiments /\ run.request = req /\ run.evidence = ev
  BY <1>a, FreshSubmit DEF Submit
<1>2. runs'[n] = run /\ n \in DOMAIN runs' /\ n \in OwnRuns(c)'
  <2>1. runs'[n] = run /\ n \in DOMAIN runs'
    BY <1>0, SubmitAppends DEF IInv
  <2> QED
    BY <1>1, <2>1 DEF OwnRuns
<1>3. acc.ok /\ LoadState(c) = Ok(acc.state)
  BY <1>1 DEF BooksIInv, BooksAgree, BookAgrees, EndsAsRecorded
<1>4. decision.ok /\ run.outcome = decision.value
  <2>1. LoadState(c).value = acc.state
    BY <1>3, Results
  <2>2. LET found == Decide(LoadState(c).value, req, StoredEvidence(req.quote_ref), PackOf(c))
        IN found.ok /\ run.outcome = found.value
    BY <1>1, FreshDecision
  <2> QED
    BY <1>a, <1>b, <2>1, <2>2
<1>5. StoredFill(n)' = runs'[n].outcome.fill
  <2>1. (FillsMirrorRuns => \A i \in DOMAIN runs : StoredFill(i) = runs[i].outcome.fill)'
    BY StoredFillIs, PTL
  <2> QED
    BY <1>0, <1>2, <2>1 DEF IInv
<1>6. fill # None => Apply(acc.state, fill).ok
  BY NewFill
<1>7. RunIntact(c, PackOf(c), runs[n], acc.previous_at)'
  BY NewRunIsIntact
<1>8. PackOf(c)' = PackOf(c)
  BY DEF PackOf, Submit
<1> HIDE DEF run
<1>9. /\ runs'[n].request = req /\ PinnedEvidence(runs'[n]) = ev
      /\ runs'[n].outcome = decision.value /\ decision.value.fill = fill
      /\ StoredFill(n)' = fill
  BY <1>1, <1>2, <1>4, <1>5 DEF PinnedEvidence, run
<1>10. Redone(c, acc, n)' = Confirm(acc, n, decision)'
  <2>1. Redone(c, acc, n)' = ReplayRun(c, acc, n)'
    BY <1>2 DEF Redone
  <2>2. ReplayRun(c, acc, n)' =
          Confirm(acc, n, Decide(acc.state, runs[n].request, PinnedEvidence(runs[n]), PackOf(c)))'
    BY <1>3, <1>7 DEF ReplayRun
  <2>3. Decide(acc.state, runs[n].request, PinnedEvidence(runs[n]), PackOf(c))' = decision
    BY <1>b, <1>8, <1>9 DEF PinnedEvidence
  <2> QED
    BY <2>1, <2>2, <2>3 DEF Confirm
<1> QED
  BY <1>4, <1>6, <1>9, <1>10 DEF Confirm, Afterwards, ReplayedTo

(***************************************************************************)
(* Fills applied and record redone keep giving one book.                   *)
(***************************************************************************)
\* Where the new run goes.
LEMMA NewRun ==
  ASSUME IInv, NEW req \in Requests, Submit(req), NEW n, n = NextRun
  PROVE  /\ DOMAIN runs = 1..Len(runs) /\ Len(runs) \in Nat /\ n = Len(runs) + 1
         /\ DOMAIN runs' = 1..n
         /\ \A i \in DOMAIN runs : runs'[i] = runs[i] /\ i \in DOMAIN runs' /\ i # n
         /\ n \in DOMAIN runs' /\ runs'[n] = SubmitReply(req).value.run
         /\ runs'[n].request = req
<1>1. /\ DOMAIN runs = 1..Len(runs) /\ Len(runs) \in Nat /\ n = Len(runs) + 1
      /\ DOMAIN runs' = 1..n
      /\ \A i \in DOMAIN runs : runs'[i] = runs[i]
      /\ runs'[n] = SubmitReply(req).value.run
  BY SubmitAppends DEF IInv
<1>2. SubmitReply(req).value.run.request = req
  BY FreshSubmit DEF Submit
<1> QED
  BY <1>1, <1>2

\* A fill that can be accounted for gives a portfolio.
LEMMA ApplyIsOk ==
  ASSUME NEW state, NEW fill
  PROVE  Apply(state, fill).ok => Apply(state, fill) = Ok(Apply(state, fill).value)
<1>1. ApplyBuy(state, fill).ok => ApplyBuy(state, fill) = Ok(ApplyBuy(state, fill).value)
  BY Results, Zenon DEF ApplyBuy
<1>2. ApplySell(state, fill).ok => ApplySell(state, fill) = Ok(ApplySell(state, fill).value)
  BY Results, Zenon DEF ApplySell
<1> QED
  BY <1>1, <1>2, Results, Zenon DEF Apply

\* The experiment that decided.
LEMMA OwnBookAgrees ==
  ASSUME BooksIInv, NEW req \in Requests, Submit(req), NEW c, c = req.cycle_id
  PROVE  BookAgrees(c)'
<1>a. PICK acc : acc = Replayed(c)
  OBVIOUS
<1>b. PICK n : n = NextRun
  OBVIOUS
<1>c. PICK fill : fill = SubmitReply(req).value.run.outcome.fill
  OBVIOUS
<1>1. c \in DOMAIN experiments /\ IInv
  BY FreshSubmit DEF Submit, BooksIInv
<1>2. LoadState(c) = Ok(acc.state)
  BY <1>a, <1>1 DEF BooksIInv, BooksAgree, BookAgrees, EndsAsRecorded
<1>3. Replayed(c)' = ReplayedTo(req, Afterwards(acc.state, fill))
  <2>1. Replayed(c)' = Redone(c, acc, n)'
    BY <1>a, <1>b, <1>1, ReplayGrows
  <2>2. Redone(c, acc, n)' = ReplayedTo(req, Afterwards(acc.state, fill))
    BY <1>a, <1>b, <1>c, NewRunIsRedone
  <2> QED
    BY <2>1, <2>2
<1>4. /\ IsBook(Afterwards(acc.state, fill))
      /\ fill # None => Apply(acc.state, fill).ok
  BY <1>a, <1>c, NewFill
<1>5. LoadState(c)' = Ok(Afterwards(acc.state, fill))
  <2>1. LoadState(c)' = Entry(Ok(acc.state), fill)
    BY <1>c, <1>1, <1>2, LoadAfterSubmit
  <2>2. fill # None => Apply(acc.state, fill) = Ok(Apply(acc.state, fill).value)
    BY <1>4, ApplyIsOk
  <2> QED
    BY <2>1, <2>2, Results DEF Entry, ApplyNext, Afterwards
<1>6. n \in OwnRuns(c)' /\ runs'[n].request.decision_at = req.decision_at
  <2>1. n \in DOMAIN runs' /\ runs'[n].request = req
    BY <1>b, <1>1, NewRun
  <2> QED
    BY <2>1 DEF OwnRuns
<1>7. \A state : /\ ReplayedTo(req, state).ok /\ ReplayedTo(req, state).state = state
                 /\ ReplayedTo(req, state).previous_at = req.decision_at
  BY DEF ReplayedTo
<1> QED
  BY <1>3, <1>4, <1>5, <1>6, <1>7 DEF BookAgrees, EndsAsRecorded

\* Another experiment.
LEMMA OtherBooksAgree ==
  ASSUME BooksIInv, NEW req \in Requests, Submit(req),
         NEW c \in DOMAIN experiments, c # req.cycle_id
  PROVE  /\ BookAgrees(c)'
         /\ Replayed(c)' = Replayed(c)
         /\ LoadState(c)' = LoadState(c)
         /\ OwnRuns(c)' = OwnRuns(c)
<1>a. PICK acc : acc = Replayed(c)
  OBVIOUS
<1>b. PICK n : n = NextRun
  OBVIOUS
<1>1. IInv
  BY DEF BooksIInv
<1>2. /\ DOMAIN runs = 1..Len(runs) /\ DOMAIN runs' = 1..n /\ n = Len(runs) + 1
      /\ Len(runs) \in Nat
      /\ \A i \in DOMAIN runs : runs'[i] = runs[i]
      /\ runs'[n].request = req
  BY <1>b, <1>1, NewRun
<1>3. OwnRuns(c)' = OwnRuns(c)
  BY <1>2 DEF OwnRuns
<1>4. Replayed(c)' = acc
  <2>1. n \notin OwnRuns(c)'
    BY <1>2 DEF OwnRuns
  <2>2. Redone(c, acc, n)' = acc
    BY <2>1 DEF Redone
  <2> QED
    BY <1>a, <1>b, <1>1, <2>2, ReplayGrows
<1>5. LoadState(c)' = LoadState(c)
  BY <1>1, LoadAfterSubmit DEF Entry
<1>6. {runs[i].request.decision_at : i \in OwnRuns(c)}'
        = {runs[i].request.decision_at : i \in OwnRuns(c)}
  BY <1>2, <1>3 DEF OwnRuns
<1> QED
  BY <1>a, <1>3, <1>4, <1>5, <1>6 DEF BooksIInv, BooksAgree, BookAgrees, EndsAsRecorded

\* Every operation but a submission leaves the books of the experiments that
\* were there alone.
LEMMA BooksStay ==
  ASSUME BooksIInv, [Next]_vars, runs' = runs, fills' = fills, NEW c \in DOMAIN experiments
  PROVE  /\ BookAgrees(c)'
         /\ Replayed(c)' = Replayed(c)
         /\ LoadState(c)' = LoadState(c)
         /\ OwnRuns(c)' = OwnRuns(c)
<1>1. Replayed(c)' = Replayed(c) /\ LoadState(c)' = LoadState(c)
  BY ReplayStays, LoadStays DEF BooksIInv
<1>2. OwnRuns(c)' = OwnRuns(c)
  BY DEF OwnRuns
<1> QED
  BY <1>1, <1>2 DEF BooksIInv, BooksAgree, BookAgrees, EndsAsRecorded

\* A new experiment has no run, hence a new portfolio both ways.
LEMMA NewBookAgrees ==
  ASSUME BooksIInv, NEW spec \in Specs, CreateExperiment(spec), NEW c, c = spec.cycle_id
  PROVE  BookAgrees(c)' /\ OwnRuns(c)' = {} /\ Replayed(c)'.state = NewPortfolio(spec.initial_cash)
<1>1. /\ c \notin DOMAIN experiments /\ SpecValid(spec)
      /\ runs' = runs /\ fills' = fills
  BY DEF CreateExperiment
<1>2. IInv /\ IInv'
  BY NextIInv DEF BooksIInv, Next
<1>3. experiments'[c].spec = spec
  BY PutRow DEF CreateExperiment, Holds
<1>4. \A i \in DOMAIN runs : runs[i].request.cycle_id # c
  BY <1>1, <1>2 DEF IInv, RunsStillOwned, RunStillOwned
<1>5. OwnRuns(c)' = {}
  BY <1>1, <1>4 DEF OwnRuns
<1>6. (TypeOK => RowsNumbered)'
  BY RowsAreNumbered, PTL
<1>7. RowsNumbered'
  BY <1>2, <1>6 DEF IInv
<1>8. Replayed(c)' = Start(c)'
  <2>1. (Len(runs) \in Nat => NoneReplayed)'
    BY ReplayOfNone, PTL
  <2>2. Len(runs') \in Nat
    BY <1>7 DEF RowsNumbered
  <2> QED
    BY <1>5, <2>1, <2>2 DEF NoneReplayed
<1> DEFINE new == NewPortfolio(spec.initial_cash)
<1>9. LoadState(c)' = Ok(new)
  <2>1. LoadState(c)' = Project(spec.initial_cash, FillRows(c)')
    BY <1>3 DEF LoadState, FillRows
  <2>2. Len(FillRows(c)') = Len(fills') /\ Len(fills') \in Nat /\ DOMAIN fills' = 1..Len(fills')
    BY <1>7 DEF RowsNumbered
  <2>3. \A n \in 1..Len(fills') : FillRows(c)'[n] = None
    BY <1>1, <1>2, <1>4, <2>2 DEF FillRows, IInv, FillsMirrorRuns
  <2> DEFINE rows == FillRows(c)'
  <2>4. Len(rows) \in Nat /\ \A n \in 1..Len(rows) : rows[n] = None
    BY <2>2, <2>3
  <2> HIDE DEF rows
  <2>5. Project(spec.initial_cash, rows) = Ok(new)
    BY <2>4, ProjectNothing
  <2> QED
    BY <2>1, <2>5 DEF rows
<1>10. IsBook(new)
  <2>1. spec.initial_cash \in Int /\ spec.initial_cash > 0
    BY <1>1, SpecsAssumption DEF SpecValid
  <2> QED
    BY <2>1, NewIsBook
<1> HIDE DEF new
<1>11. Start(c)'.ok /\ Start(c)'.previous_at = 0 /\ Start(c)'.state = new
  BY <1>3 DEF Start, new
<1> QED
  BY <1>5, <1>8, <1>9, <1>10, <1>11 DEF BookAgrees, EndsAsRecorded, new

\* Every book keeps agreeing.
LEMMA BooksKeepAgreeing ==
  ASSUME BooksIInv, [Next]_vars
  PROVE  BooksAgree'
<1>1. CASE runs' = runs /\ fills' = fills
  <2>1. ASSUME NEW c \in DOMAIN experiments PROVE BookAgrees(c)'
    BY <1>1, BooksStay
  <2>2. ASSUME NEW spec \in Specs, CreateExperiment(spec), NEW c, c = spec.cycle_id
        PROVE  BookAgrees(c)'
    BY <2>2, NewBookAgrees
  <2>3. \A c \in DOMAIN experiments' :
          \/ c \in DOMAIN experiments
          \/ \E spec \in Specs : CreateExperiment(spec) /\ c = spec.cycle_id
    <3>1. \/ DOMAIN experiments' = DOMAIN experiments
          \/ \E spec \in Specs : CreateExperiment(spec)
      BY DEF Next, vars, RegisterReviewedPack, CompleteExperiment, IngestQuote, Submit
    <3>2. ASSUME NEW spec \in Specs, CreateExperiment(spec), NEW c \in DOMAIN experiments'
          PROVE  c \in DOMAIN experiments \/ c = spec.cycle_id
      BY <3>2, PutRow DEF CreateExperiment
    <3> QED
      BY <3>1, <3>2
  <2> QED
    BY <2>1, <2>2, <2>3 DEF BooksAgree
<1>2. ASSUME NEW req \in Requests, Submit(req) PROVE BooksAgree'
  <2>1. experiments' = experiments
    BY <1>2 DEF Submit
  <2>2. ASSUME NEW c \in DOMAIN experiments' PROVE BookAgrees(c)'
    BY <1>2, <2>1, OwnBookAgrees, OtherBooksAgree
  <2> QED
    BY <2>2 DEF BooksAgree
<1> QED
  BY <1>1, <1>2, RunsStep

\* Evidence is stored for an import only (ingest_quote).
LEMMA EvidenceStaysImported ==
  ASSUME BooksIInv, [Next]_vars
  PROVE  EvidenceIsImported'
<1>1. CASE evidence' = evidence
  BY <1>1 DEF BooksIInv, EvidenceIsImported
<1>2. ASSUME NEW input \in Imports, NEW now \in Receipts, IngestQuote(input, now)
      PROVE  EvidenceIsImported'
  <2> DEFINE new == QuoteRef(input.pack, input.quote)
             ev == EvidenceFrom(input, now)
  <2>1. evidence' = Put(evidence, new, ev)
    BY <1>2, FreshImport DEF IngestQuote
  <2>2. SameImport(ev, input) /\ ImportValid(input) /\ new = QuoteRef(input.pack, input.quote)
    BY <1>2, FreshImport DEF IngestQuote, SameImport, EvidenceFrom
  <2> HIDE DEF new, ev
  <2>3. \A ref \in DOMAIN evidence' :
          \/ ref \in DOMAIN evidence /\ evidence'[ref] = evidence[ref]
          \/ ref = new /\ evidence'[ref] = ev
    BY <2>1 DEF Put
  <2> QED
    BY <2>2, <2>3 DEF BooksIInv, EvidenceIsImported
<1>3. \/ evidence' = evidence
      \/ \E input \in Imports, now \in Receipts : IngestQuote(input, now)
  BY DEF Next, vars, RegisterReviewedPack, CreateExperiment, CompleteExperiment, Submit
<1> QED
  BY <1>1, <1>2, <1>3

\* A fill is of the symbol, side and day of the evidence its run pins.
LEMMA FillsKeepEvidence ==
  ASSUME BooksIInv, [Next]_vars
  PROVE  FillsRestOnEvidence'
<1>1. CASE runs' = runs
  BY <1>1 DEF BooksIInv, FillsRestOnEvidence
<1>2. ASSUME NEW req \in Requests, Submit(req) PROVE FillsRestOnEvidence'
  <2>a. PICK n : n = NextRun
    OBVIOUS
  <2>b. PICK acc : acc = Replayed(req.cycle_id)
    OBVIOUS
  <2> DEFINE run == SubmitReply(req).value.run
  <2>1. /\ \A i \in DOMAIN runs' : i \in DOMAIN runs \/ i = n
        /\ \A i \in DOMAIN runs : runs'[i] = runs[i]
        /\ runs'[n] = run /\ runs'[n].request = req
    <3>1. IInv
      BY DEF BooksIInv
    <3> QED
      BY <1>2, <2>a, <3>1, NewRun
  <2>2. run.outcome.fill # None => Trades(acc.state, req, run.evidence, Apply(acc.state, run.outcome.fill).value)
    BY <1>2, <2>b, NewFill
  <2> HIDE DEF run
  <2> QED
    BY <2>1, <2>2 DEF FillsRestOnEvidence, BooksIInv, Trades
<1> QED
  BY <1>1, <1>2, RunsStep

(***************************************************************************)
(* A fill spends its evidence.                                             *)
(***************************************************************************)
HoldsSince(state, symbol, day) ==
  \E k \in LotsOf(state, symbol) : state.lots[k].bought_on = day

\* No fill of this side and day is possible any more.
Refuses(state, symbol, side, day) ==
  \/ HoldsSince(state, symbol, day)
  \/ side = "Sell" /\ LotsOf(state, symbol) = {}

\* What a symbol holds is told by the quantities and days of its lots.
SameLots(state, next, symbol) ==
  /\ \A quantity, day :
       Holding(next, symbol, quantity, day) <=> Holding(state, symbol, quantity, day)
  /\ \A day : HoldsSince(next, symbol, day) <=> HoldsSince(state, symbol, day)
  /\ LotsOf(next, symbol) = {} <=> LotsOf(state, symbol) = {}

\* A purchase opens a lot of its day and leaves the other symbols alone.
LEMMA OpensLots ==
  ASSUME NEW state, IsBook(state), NEW next, NEW symbol, NEW day,
         OpensLot(state, next, symbol, day)
  PROVE  /\ HoldsSince(next, symbol, day)
         /\ \A other : other # symbol => SameLots(state, next, other)
<1>1. PICK quantity : next.lots = Append(state.lots, [symbol |-> symbol, quantity |-> quantity,
                                                      bought_on |-> day])
  BY DEF OpensLot
<1> DEFINE lot == [symbol |-> symbol, quantity |-> quantity, bought_on |-> day]
           lots == state.lots
           n == Len(lots) + 1
<1>2. lot.symbol = symbol /\ lot.bought_on = day
  OBVIOUS
<1>3. Numbered(lots) /\ next.lots = Append(lots, lot)
  BY <1>1 DEF Numbered, IsBook
<1> HIDE DEF lot, lots
<1>4. /\ DOMAIN lots = 1..Len(lots) /\ Len(lots) \in Nat /\ DOMAIN next.lots = 1..n
      /\ \A i \in DOMAIN lots : next.lots[i] = lots[i]
      /\ next.lots[n] = lot
  BY <1>3, AppendRow
<1>5. /\ n \in DOMAIN next.lots
      /\ \A i \in DOMAIN lots : i \in DOMAIN next.lots
      /\ \A i \in DOMAIN next.lots : i \in DOMAIN lots \/ i = n
  BY <1>4
<1> HIDE DEF n
<1>6. n \in LotsOf(next, symbol) /\ next.lots[n].bought_on = day
  BY <1>2, <1>4, <1>5 DEF LotsOf
<1>7. ASSUME NEW other, other # symbol
      PROVE  LotsOf(next, other) = LotsOf(state, other)
  BY <1>2, <1>4, <1>5, <1>7 DEF LotsOf, lots
<1>8. ASSUME NEW other, other # symbol
      PROVE  SameLots(state, next, other)
  <2>1. \A k \in LotsOf(state, other) : next.lots[k] = state.lots[k]
    BY <1>4 DEF LotsOf, lots
  <2> QED
    BY <1>7, <1>8, <2>1 DEF SameLots, HoldsSince, Holding
<1> QED
  BY <1>6, <1>8 DEF HoldsSince

\* A sale leaves nothing of its symbol and leaves the others alone.
LEMMA ClearsLots ==
  ASSUME NEW state, IsBook(state), NEW next, NEW symbol, NEW day,
         Clears(state, next, symbol, day)
  PROVE  /\ LotsOf(next, symbol) = {}
         /\ \A other : other # symbol => SameLots(state, next, other)
<1> DEFINE lots == state.lots
           left == next.lots
<1>1. PICK i \in LotsOf(state, symbol) : Without(lots, i, left)
  BY DEF Clears
<1>2. PICK m \in [DOMAIN left -> DOMAIN lots \ {i}] :
        /\ \A j \in DOMAIN left : left[j] = lots[m[j]]
        /\ \A k \in DOMAIN lots \ {i} : \E j \in DOMAIN left : m[j] = k
  BY <1>1 DEF Without
<1>3. \A j \in DOMAIN left : m[j] \in DOMAIN lots /\ m[j] # i
  BY <1>2
<1>4. i \in DOMAIN lots /\ lots[i].symbol = symbol
  BY DEF LotsOf
<1>5. \A k \in DOMAIN lots : k # i => lots[k].symbol # symbol
  BY <1>4 DEF IsBook
<1> HIDE DEF lots, left
<1>6. LotsOf(next, symbol) = {}
  BY <1>2, <1>3, <1>5 DEF LotsOf, left
<1>7. ASSUME NEW other, other # symbol
      PROVE  SameLots(state, next, other)
  <2>1. ASSUME NEW j \in LotsOf(next, other)
        PROVE  m[j] \in LotsOf(state, other) /\ lots[m[j]] = left[j]
    BY <1>2, <1>3, <2>1 DEF LotsOf, left, lots
  <2>2. ASSUME NEW k \in LotsOf(state, other)
        PROVE  \E j \in LotsOf(next, other) : left[j] = lots[k]
    <3>1. k \in DOMAIN lots /\ k # i /\ lots[k].symbol = other
      BY <1>4, <1>7, <2>2 DEF LotsOf, lots
    <3>2. PICK j \in DOMAIN left : m[j] = k
      BY <1>2, <3>1
    <3>3. left[j] = lots[k]
      BY <1>2, <3>2
    <3> QED
      BY <3>1, <3>3 DEF LotsOf, left
  <2> QED
    BY <2>1, <2>2 DEF SameLots, HoldsSince, Holding, lots, left
<1> QED
  BY <1>6, <1>7

\* A fill finds a book that does not refuse it and leaves one that refuses
\* another of its side and day.
LEMMA TradeSpends ==
  ASSUME NEW state, IsBook(state), NEW req, NEW ev, NEW next, Trades(state, req, ev, next),
         req.signal.side \in Sides,
         NEW symbol, symbol = req.signal.symbol, NEW day, day = DayOf(req.decision_at)
  PROVE  /\ ~Refuses(state, symbol, req.signal.side, day)
         /\ Refuses(next, symbol, req.signal.side, day)
         /\ req.signal.side = "Buy" => HoldsSince(next, symbol, day)
<1>1. CASE req.signal.side = "Buy"
  <2>1. OpensLot(state, next, symbol, day)
    BY <1>1 DEF Trades
  <2>2. LotsOf(state, symbol) = {} /\ HoldsSince(next, symbol, day)
    BY <2>1, OpensLots DEF OpensLot
  <2> QED
    BY <1>1, <2>2 DEF Refuses, HoldsSince
<1>2. CASE req.signal.side = "Sell"
  <2>1. Clears(state, next, symbol, day)
    BY <1>2 DEF Trades
  <2>2. PICK i \in LotsOf(state, symbol) : state.lots[i].bought_on < day
    BY <2>1 DEF Clears
  <2>3. \A k \in LotsOf(state, symbol) : k = i
    BY DEF IsBook, LotsOf
  <2>4. state.lots[i].bought_on \in Nat
    BY DEF IsBook, LotsOf
  <2>5. ~HoldsSince(state, symbol, day)
    BY <2>2, <2>3, <2>4 DEF HoldsSince
  <2>6. LotsOf(next, symbol) = {}
    BY <2>1, ClearsLots
  <2> QED
    BY <1>2, <2>2, <2>5, <2>6 DEF Refuses
<1> QED
  BY <1>1, <1>2 DEF Sides

\* What a book refused for the day of a fill it still refuses after it.
LEMMA RefusalStays ==
  ASSUME NEW state, IsBook(state), NEW req, NEW ev, NEW next, Trades(state, req, ev, next),
         req.signal.side \in Sides, NEW symbol, NEW side, NEW day,
         day = DayOf(req.decision_at), Refuses(state, symbol, side, day)
  PROVE  Refuses(next, symbol, side, day)
<1>1. CASE symbol = req.signal.symbol
  <2>1. /\ ~Refuses(state, symbol, req.signal.side, day)
        /\ req.signal.side = "Buy" => HoldsSince(next, symbol, day)
    BY <1>1, TradeSpends
  <2>2. req.signal.side = "Buy"
    BY <2>1 DEF Refuses, Sides
  <2> QED
    BY <2>1, <2>2 DEF Refuses
<1>2. CASE symbol # req.signal.symbol
  <2>1. SameLots(state, next, symbol)
    <3>1. req.signal.side = "Buy" => SameLots(state, next, symbol)
      BY <1>2, OpensLots DEF Trades
    <3>2. req.signal.side = "Sell" => SameLots(state, next, symbol)
      BY <1>2, ClearsLots DEF Trades
    <3> QED
      BY <3>1, <3>2 DEF Sides
  <2> QED
    BY <2>1 DEF SameLots, Refuses
<1> QED
  BY <1>1, <1>2

\* Later instants fall on later days or on the same.
LEMMA DaysInOrder ==
  ASSUME NEW a \in Int, NEW b \in Int, a <= b
  PROVE  DayOf(a) \in Int /\ DayOf(b) \in Int /\ DayOf(a) <= DayOf(b)
BY SMT DEF DayOf, DaySeconds

\* The new run is on the last day of its experiment.
LEMMA NewRunIsLast ==
  ASSUME IInv, NEW req \in Requests, Submit(req), NEW c, c = req.cycle_id
  PROVE  \A i \in OwnRuns(c) :
           /\ DayOf(runs[i].request.decision_at) \in Int /\ DayOf(req.decision_at) \in Int
           /\ DayOf(runs[i].request.decision_at) <= DayOf(req.decision_at)
<1> SUFFICES ASSUME NEW i \in OwnRuns(c)
             PROVE  /\ DayOf(runs[i].request.decision_at) \in Int
                    /\ DayOf(req.decision_at) \in Int
                    /\ DayOf(runs[i].request.decision_at) <= DayOf(req.decision_at)
  OBVIOUS
<1>a. PICK n : n = NextRun
  OBVIOUS
<1>1. DecisionsInOrder'
  BY NextIInv DEF Next, IInv
<1>2. /\ DOMAIN runs = 1..Len(runs) /\ Len(runs) \in Nat /\ n = Len(runs) + 1
      /\ \A k \in DOMAIN runs : runs'[k] = runs[k] /\ k \in DOMAIN runs'
      /\ n \in DOMAIN runs' /\ runs'[n].request = req
  BY <1>a, NewRun
<1>3. i \in DOMAIN runs /\ runs[i].request.cycle_id = c /\ i < n
  BY <1>2 DEF OwnRuns
<1>4. runs[i].request.decision_at <= req.decision_at
  BY <1>1, <1>2, <1>3 DEF DecisionsInOrder
<1>5. runs[i].request.decision_at \in Int /\ req.decision_at \in Int
  BY <1>3, RequestsAssumption DEF IInv, TypeOK
<1> QED
  BY <1>4, <1>5, DaysInOrder

\* What has been filled stays spent, and the new fill is spent too.
LEMMA OwnFillsAreSpent ==
  ASSUME BooksIInv, NEW req \in Requests, Submit(req), NEW c, c = req.cycle_id,
         NEW i \in FilledRuns(c)'
  PROVE  Spent(c, i)'
<1>a. PICK n : n = NextRun
  OBVIOUS
<1>b. PICK acc : acc = Replayed(c)
  OBVIOUS
<1>c. PICK fill : fill = SubmitReply(req).value.run.outcome.fill
  OBVIOUS
<1>d. PICK day : day = DayOf(req.decision_at)
  OBVIOUS
<1> DEFINE ev == SubmitReply(req).value.run.evidence
           state == acc.state
           next == Afterwards(state, fill)
<1>1. IInv /\ c \in DOMAIN experiments
  BY FreshSubmit DEF Submit, BooksIInv
<1>2. /\ \A k \in DOMAIN runs : runs'[k] = runs[k] /\ k \in DOMAIN runs' /\ k # n
      /\ \A k \in DOMAIN runs' : k \in DOMAIN runs \/ k = n
      /\ n \in DOMAIN runs' /\ runs'[n].request = req
      /\ runs'[n] = SubmitReply(req).value.run
  BY <1>a, <1>1, NewRun
<1>3. fill # None => Trades(state, req, ev, next)
  BY <1>b, <1>c, NewFill DEF Afterwards
<1>4. IsBook(state) /\ req.signal.side \in Sides
  BY <1>b, <1>1, RequestsAssumption DEF BooksIInv, BooksAgree, BookAgrees
<1>5. Replayed(c)'.state = next
  <2>1. Replayed(c)' = Redone(c, acc, n)'
    BY <1>a, <1>b, <1>1, ReplayGrows
  <2>2. Redone(c, acc, n)' = ReplayedTo(req, next)
    BY <1>a, <1>b, <1>c, NewRunIsRedone
  <2> HIDE DEF next
  <2> QED
    BY <2>1, <2>2 DEF ReplayedTo
<1> HIDE DEF ev, state, next
<1>6. n \in OwnRuns(c)'
  BY <1>2 DEF OwnRuns
<1>7. CASE i = n
  <2>1. fill # None
    BY <1>2, <1>c, <1>7 DEF FilledRuns
  <2>2. Refuses(next, req.signal.symbol, req.signal.side, day)
    BY <1>3, <1>4, <1>d, <2>1, TradeSpends
  <2> QED
    BY <1>2, <1>5, <1>7, <1>d, <2>2 DEF Spent, Refuses, HoldsSince
<1>8. CASE i # n
  <2>1. i \in DOMAIN runs /\ runs'[i] = runs[i] /\ i \in OwnRuns(c) /\ i \in FilledRuns(c)
    BY <1>2, <1>8 DEF FilledRuns, OwnRuns
  <2> DEFINE symbol == runs[i].request.signal.symbol
             side == runs[i].request.signal.side
             then == DayOf(runs[i].request.decision_at)
  <2>2. then \in Int /\ day \in Int /\ then <= day
    BY <1>1, <1>d, <2>1, NewRunIsLast
  <2>3. CASE then < day
    <3>1. DayOf(runs'[i].request.decision_at) < DayOf(runs'[n].request.decision_at)
      BY <1>2, <1>d, <2>1, <2>3
    <3> QED
      BY <1>6, <3>1 DEF Spent
  <2>4. CASE then = day
    <3>1. Spent(c, i)
      BY <1>1, <2>1 DEF BooksIInv, FilledIsSpent
    <3>2. ~\E j \in OwnRuns(c) : then < DayOf(runs[j].request.decision_at)
      <4> SUFFICES ASSUME NEW j \in OwnRuns(c), then < DayOf(runs[j].request.decision_at)
                   PROVE  FALSE
        OBVIOUS
      <4>1. DayOf(runs[j].request.decision_at) \in Int /\ DayOf(runs[j].request.decision_at) <= day
        BY <1>1, <1>d, NewRunIsLast
      <4> HIDE DEF then
      <4> QED
        BY <2>2, <2>4, <4>1
    <3>3. Refuses(state, symbol, side, then)
      BY <1>b, <3>1, <3>2 DEF Spent, Refuses, HoldsSince, state
    <3> HIDE DEF symbol, side, then
    <3>4. Refuses(next, symbol, side, then)
      <4>1. CASE fill = None
        BY <3>3, <4>1 DEF next, Afterwards
      <4>2. CASE fill # None
        BY <1>3, <1>4, <1>d, <2>4, <3>3, <4>2, RefusalStays
      <4> QED
        BY <4>1, <4>2
    <3> QED
      BY <1>5, <2>1, <3>4 DEF Spent, Refuses, HoldsSince, symbol, side, then
  <2> QED
    BY <2>2, <2>3, <2>4
<1> QED
  BY <1>7, <1>8

\* Every fill stays spent.
LEMMA FillsStaySpent ==
  ASSUME BooksIInv, [Next]_vars
  PROVE  FilledIsSpent'
<1>1. ASSUME NEW c \in DOMAIN experiments, NEW i \in FilledRuns(c)',
             Replayed(c)' = Replayed(c), OwnRuns(c)' = OwnRuns(c),
             \A k \in DOMAIN runs : runs'[k] = runs[k]
      PROVE  Spent(c, i)'
  <2>1. \A k \in OwnRuns(c) : runs'[k] = runs[k]
    BY <1>1 DEF OwnRuns
  <2>2. i \in OwnRuns(c) /\ i \in FilledRuns(c)
    BY <1>1, <2>1 DEF FilledRuns
  <2>3. Spent(c, i)
    BY <2>2 DEF BooksIInv, FilledIsSpent
  <2> QED
    BY <1>1, <2>1, <2>2, <2>3 DEF Spent
<1>2. CASE runs' = runs /\ fills' = fills
  <2>1. ASSUME NEW c \in DOMAIN experiments, NEW i \in FilledRuns(c)' PROVE Spent(c, i)'
    BY <1>1, <1>2, <2>1, BooksStay
  <2>2. ASSUME NEW spec \in Specs, CreateExperiment(spec) PROVE FilledRuns(spec.cycle_id)' = {}
    BY <2>2, NewBookAgrees DEF FilledRuns
  <2>3. \A c \in DOMAIN experiments' :
          \/ c \in DOMAIN experiments
          \/ \E spec \in Specs : CreateExperiment(spec) /\ c = spec.cycle_id
    <3>1. \/ DOMAIN experiments' = DOMAIN experiments
          \/ \E spec \in Specs : CreateExperiment(spec)
      BY DEF Next, vars, RegisterReviewedPack, CompleteExperiment, IngestQuote, Submit
    <3>2. ASSUME NEW spec \in Specs, CreateExperiment(spec), NEW c \in DOMAIN experiments'
          PROVE  c \in DOMAIN experiments \/ c = spec.cycle_id
      BY <3>2, PutRow DEF CreateExperiment
    <3> QED
      BY <3>1, <3>2
  <2> QED
    BY <2>1, <2>2, <2>3 DEF FilledIsSpent
<1>3. ASSUME NEW req \in Requests, Submit(req) PROVE FilledIsSpent'
  <2>1. experiments' = experiments
    BY <1>3 DEF Submit
  <2>2. \A k \in DOMAIN runs : runs'[k] = runs[k]
    BY <1>3, SubmitAppends DEF BooksIInv, IInv
  <2>3. ASSUME NEW c \in DOMAIN experiments, NEW i \in FilledRuns(c)' PROVE Spent(c, i)'
    <3>1. CASE c = req.cycle_id
      BY <1>3, <2>3, <3>1, OwnFillsAreSpent
    <3>2. CASE c # req.cycle_id
      BY <1>1, <1>3, <2>2, <2>3, <3>2, OtherBooksAgree
    <3> QED
      BY <3>1, <3>2
  <2> QED
    BY <2>1, <2>3 DEF FilledIsSpent
<1> QED
  BY <1>2, <1>3, RunsStep

\* A run that fills finds its evidence unspent: no earlier fill of its
\* experiment named it.
LEMMA EvidenceIsFresh ==
  ASSUME BooksIInv, NEW req \in Requests, Submit(req), NEW c, c = req.cycle_id,
         SubmitReply(req).value.run.outcome.fill # None,
         NEW i \in FilledRuns(c)
  PROVE  runs[i].request.quote_ref # req.quote_ref
<1> SUFFICES ASSUME runs[i].request.quote_ref = req.quote_ref PROVE FALSE
  OBVIOUS
<1>b. PICK acc : acc = Replayed(c)
  OBVIOUS
<1>d. PICK day : day = DayOf(req.decision_at)
  OBVIOUS
<1> DEFINE ev == SubmitReply(req).value.run.evidence
           state == acc.state
           next == Apply(state, SubmitReply(req).value.run.outcome.fill).value
           old == runs[i].request
<1>1. IInv /\ c \in DOMAIN experiments /\ ev = StoredEvidence(req.quote_ref)
  BY FreshSubmit DEF Submit, BooksIInv
<1>2. Trades(state, req, ev, next)
  BY <1>b, NewFill
<1>3. IsBook(state) /\ req.signal.side \in Sides
  BY <1>b, <1>1, RequestsAssumption DEF BooksIInv, BooksAgree, BookAgrees
<1> HIDE DEF ev, next
<1>4. i \in DOMAIN runs /\ i \in OwnRuns(c) /\ runs[i].outcome.fill # None
  BY DEF FilledRuns, OwnRuns
<1>5. runs[i].evidence = ev
  BY <1>1, <1>4 DEF BooksIInv, FillsRestOnEvidence, IInv, RunsStillOwned, RunStillOwned, PinnedIntact
<1>6. /\ ev.quote.symbol = old.signal.symbol /\ ev.execution.side = old.signal.side
      /\ DayOf(ev.quote.observed_at) = DayOf(old.decision_at)
  BY <1>4, <1>5 DEF BooksIInv, FillsRestOnEvidence
<1>7. /\ old.signal.symbol = req.signal.symbol /\ old.signal.side = req.signal.side
      /\ DayOf(old.decision_at) = day
  BY <1>2, <1>6, <1>d DEF Trades
<1>8. Spent(c, i)
  BY <1>1 DEF BooksIInv, FilledIsSpent
<1>9. ~\E j \in OwnRuns(c) : day < DayOf(runs[j].request.decision_at)
  <2> SUFFICES ASSUME NEW j \in OwnRuns(c), day < DayOf(runs[j].request.decision_at)
               PROVE  FALSE
    OBVIOUS
  <2>1. /\ DayOf(runs[j].request.decision_at) \in Int /\ day \in Int
        /\ DayOf(runs[j].request.decision_at) <= day
    BY <1>1, <1>d, NewRunIsLast
  <2> QED
    BY <2>1
<1>10. Refuses(state, req.signal.symbol, req.signal.side, day)
  BY <1>b, <1>7, <1>8, <1>9 DEF Spent, Refuses, HoldsSince
<1> QED
  BY <1>2, <1>3, <1>d, <1>10, TradeSpends

\* No evidence is filled on twice.
LEMMA EvidenceFillsOnce ==
  ASSUME BooksIInv, [Next]_vars
  PROVE  OneFillPerEvidence'
<1>1. CASE runs' = runs
  <2>1. \A c : FilledRuns(c)' = FilledRuns(c)
    BY <1>1 DEF FilledRuns, OwnRuns
  <2>2. \A i \in DOMAIN runs : runs[i].request.cycle_id \in DOMAIN experiments
    BY DEF BooksIInv, IInv, RunsStillOwned, RunStillOwned
  <2>3. \A c : FilledRuns(c) # {} => c \in DOMAIN experiments
    BY <2>2 DEF FilledRuns, OwnRuns
  <2> QED
    BY <1>1, <2>1, <2>3 DEF BooksIInv, OneFillPerEvidence
<1>2. ASSUME NEW req \in Requests, Submit(req) PROVE OneFillPerEvidence'
  <2>a. PICK n : n = NextRun
    OBVIOUS
  <2>1. experiments' = experiments /\ IInv
    BY <1>2 DEF Submit, BooksIInv
  <2>2. /\ \A k \in DOMAIN runs : runs'[k] = runs[k] /\ k # n
        /\ \A k \in DOMAIN runs' : k \in DOMAIN runs \/ k = n
        /\ runs'[n].request = req
        /\ runs'[n] = SubmitReply(req).value.run
    BY <1>2, <2>a, <2>1, NewRun
  <2>3. \A c : \A i \in FilledRuns(c)' : i \in FilledRuns(c) \/ i = n
    BY <2>2 DEF FilledRuns, OwnRuns
  <2>4. \A c : \A i \in FilledRuns(c) : i \in DOMAIN runs
    BY DEF FilledRuns, OwnRuns
  <2>5. ASSUME NEW c, n \in FilledRuns(c)', NEW i \in FilledRuns(c)
        PROVE  runs'[i].request.quote_ref # runs'[n].request.quote_ref
    <3>1. c = req.cycle_id /\ SubmitReply(req).value.run.outcome.fill # None
      BY <2>2, <2>5 DEF FilledRuns, OwnRuns
    <3>2. runs[i].request.quote_ref # req.quote_ref
      BY <1>2, <2>5, <3>1, EvidenceIsFresh
    <3> QED
      BY <2>2, <2>4, <2>5, <3>2
  <2> SUFFICES ASSUME NEW c \in DOMAIN experiments', NEW i \in FilledRuns(c)', NEW j \in FilledRuns(c)',
                      runs'[i].request.quote_ref = runs'[j].request.quote_ref
               PROVE  i = j
    BY DEF OneFillPerEvidence
  <2>6. CASE i \in FilledRuns(c) /\ j \in FilledRuns(c)
    BY <2>1, <2>2, <2>4, <2>6 DEF BooksIInv, OneFillPerEvidence
  <2>7. CASE ~(i \in FilledRuns(c) /\ j \in FilledRuns(c))
    BY <2>3, <2>5, <2>7
  <2> QED
    BY <2>6, <2>7
<1> QED
  BY <1>1, <1>2, RunsStep

(***************************************************************************)
(* Positions are what the last trade of each symbol left.                  *)
(***************************************************************************)
\* No later fill of the experiment is of this one's symbol.
Latest(c, i) ==
  \A k \in FilledRuns(c) :
    runs[k].request.signal.symbol = runs[i].request.signal.symbol => k <= i

\* What this trade left of its symbol.
Left(i, state) ==
  LET req == runs[i].request
      symbol == req.signal.symbol
  IN IF req.signal.side = "Buy"
       THEN Holding(state, symbol, runs[i].outcome.fill.quantity, DayOf(req.decision_at))
       ELSE LotsOf(state, symbol) = {}

\* A position is what the last trade of its symbol left, and there is none
\* without a trade.
PositionsFollow(c) ==
  /\ \A i \in FilledRuns(c) : Latest(c, i) => Left(i, Replayed(c).state)
  /\ \A symbol : LotsOf(Replayed(c).state, symbol) # {} =>
       \E i \in FilledRuns(c) : Latest(c, i) /\ runs[i].request.signal.symbol = symbol

TradesFollow == \A c \in DOMAIN experiments : PositionsFollow(c)

TradesIInv == BooksIInv /\ TradesFollow /\ RoundTrips

\* What a trade does to the holdings: it opens one nobody had or clears one of
\* an earlier day, and leaves the other symbols alone.
LEMMA TradeMoves ==
  ASSUME NEW state, IsBook(state), NEW req, NEW ev, NEW next, NEW fill,
         Trades(state, req, ev, next), WholeLot(state, req, fill, next),
         req.signal.side \in Sides,
         NEW symbol, symbol = req.signal.symbol, NEW day, day = DayOf(req.decision_at)
  PROVE  /\ req.signal.side = "Buy" =>
              LotsOf(state, symbol) = {} /\ Holding(next, symbol, fill.quantity, day)
         /\ req.signal.side = "Sell" =>
              /\ \E since : since < day /\ Holding(state, symbol, fill.quantity, since)
              /\ LotsOf(next, symbol) = {}
         /\ \A other : other # symbol => SameLots(state, next, other)
<1>1. CASE req.signal.side = "Buy"
  <2>1. OpensLot(state, next, symbol, day)
    BY <1>1 DEF Trades
  <2> DEFINE lots == state.lots
             lot == [symbol |-> symbol, quantity |-> fill.quantity, bought_on |-> day]
             n == Len(lots) + 1
  <2>2. next.lots = Append(lots, lot) /\ Numbered(lots)
    BY <1>1 DEF WholeLot, Numbered, IsBook
  <2>3. lot.symbol = symbol /\ lot.quantity = fill.quantity /\ lot.bought_on = day
    OBVIOUS
  <2> HIDE DEF lots, lot
  <2>4. n \in DOMAIN next.lots /\ next.lots[n] = lot
    BY <2>2, AppendRow
  <2>5. Holding(next, symbol, fill.quantity, day)
    BY <2>3, <2>4 DEF Holding, LotsOf
  <2>6. \A other : other # symbol => SameLots(state, next, other)
    BY <2>1, OpensLots
  <2> QED
    BY <1>1, <2>1, <2>5, <2>6 DEF OpensLot
<1>2. CASE req.signal.side = "Sell"
  <2>1. Clears(state, next, symbol, day)
    BY <1>2 DEF Trades
  <2>2. \E since : since < day /\ Holding(state, symbol, fill.quantity, since)
    BY <1>2 DEF WholeLot
  <2>3. /\ LotsOf(next, symbol) = {}
        /\ \A other : other # symbol => SameLots(state, next, other)
    BY <2>1, ClearsLots
  <2> QED
    BY <1>2, <2>2, <2>3
<1> QED
  BY <1>1, <1>2 DEF Sides

\* A symbol has one lot.
LEMMA HoldingIsOne ==
  ASSUME NEW state, IsBook(state), NEW symbol, NEW q1, NEW d1, NEW q2, NEW d2,
         Holding(state, symbol, q1, d1), Holding(state, symbol, q2, d2)
  PROVE  q1 = q2 /\ d1 = d2
<1>1. PICK k \in LotsOf(state, symbol) : state.lots[k].quantity = q1 /\ state.lots[k].bought_on = d1
  BY DEF Holding
<1>2. PICK m \in LotsOf(state, symbol) : state.lots[m].quantity = q2 /\ state.lots[m].bought_on = d2
  BY DEF Holding
<1>3. k = m
  BY DEF IsBook, LotsOf
<1> QED
  BY <1>1, <1>2, <1>3

\* The new trade closes the position it finds or opens one where there is none.
LEMMA NewRoundTrip ==
  ASSUME TradesIInv, NEW req \in Requests, Submit(req), NEW c, c = req.cycle_id,
         NEW n, n = NextRun, n \in FilledRuns(c)'
  PROVE  RoundTrip(c, n)'
<1>b. PICK acc : acc = Replayed(c)
  OBVIOUS
<1>c. PICK fill : fill = SubmitReply(req).value.run.outcome.fill
  OBVIOUS
<1> DEFINE ev == SubmitReply(req).value.run.evidence
           state == acc.state
           next == Apply(state, fill).value
           symbol == req.signal.symbol
           day == DayOf(req.decision_at)
<1>1. IInv /\ c \in DOMAIN experiments /\ BooksIInv
  BY FreshSubmit DEF Submit, TradesIInv, BooksIInv
<1>2. /\ \A k \in DOMAIN runs : runs'[k] = runs[k] /\ k \in DOMAIN runs' /\ k # n
      /\ \A k \in DOMAIN runs : k \in Nat /\ k < n
      /\ \A k \in DOMAIN runs' : k \in DOMAIN runs \/ k = n
      /\ n \in Nat
      /\ runs'[n].request = req /\ runs'[n].outcome.fill = fill
  BY <1>c, <1>1, NewRun
<1>3. /\ FilledRuns(c)' = FilledRuns(c) \cup {n}
      /\ \A k \in FilledRuns(c) : k \in DOMAIN runs
  BY <1>2 DEF FilledRuns, OwnRuns
<1>4. fill # None /\ IsBook(state) /\ req.signal.side \in Sides
  BY <1>b, <1>1, <1>2, RequestsAssumption DEF BooksIInv, BooksAgree, BookAgrees, FilledRuns
<1>5. Trades(state, req, ev, next) /\ WholeLot(state, req, fill, next)
  BY <1>b, <1>c, <1>1, <1>4, NewFill
<1> HIDE DEF ev, next
<1>6. /\ req.signal.side = "Buy" => LotsOf(state, symbol) = {}
      /\ req.signal.side = "Sell" =>
           \E since : since < day /\ Holding(state, symbol, fill.quantity, since)
  BY <1>4, <1>5, TradeMoves
<1>7. /\ \A i \in FilledRuns(c) : Latest(c, i) => Left(i, state)
      /\ LotsOf(state, symbol) # {} =>
           \E i \in FilledRuns(c) : Latest(c, i) /\ runs[i].request.signal.symbol = symbol
  BY <1>b, <1>1 DEF TradesIInv, TradesFollow, PositionsFollow
<1>8. \A i \in FilledRuns(c) : runs[i].request.signal.side \in Sides
  BY <1>1, <1>3, RequestsAssumption DEF IInv, TypeOK
<1> HIDE DEF state, symbol, day
<1>9. CASE req.signal.side = "Buy"
  <2> SUFFICES ASSUME NEW i \in FilledRuns(c)', Follows(c, i, n)'
               PROVE  runs'[i].request.signal.side = "Sell"
    BY <1>2, <1>9 DEF RoundTrip
  <2>1. i < n /\ i # n
    BY <1>2 DEF Follows
  <2>2. i \in FilledRuns(c) /\ runs'[i] = runs[i] /\ i \in Nat
    BY <1>2, <1>3, <2>1
  <2>3. runs[i].request.signal.symbol = symbol
    BY <1>2, <2>2 DEF Follows, symbol
  <2>4. Latest(c, i)
    <3> SUFFICES ASSUME NEW k \in FilledRuns(c), runs[k].request.signal.symbol = symbol
                 PROVE  k <= i
      BY <2>3 DEF Latest
    <3>1. k \in Nat /\ k < n /\ k \in FilledRuns(c)' /\ runs'[k] = runs[k]
      BY <1>2, <1>3
    <3>2. ~(i < k)
      BY <1>2, <3>1 DEF Follows, symbol
    <3> QED
      BY <2>2, <3>1, <3>2
  <2>5. Left(i, state)
    BY <1>7, <2>2, <2>4
  <2>6. ~(runs[i].request.signal.side = "Buy")
    BY <1>6, <1>9, <2>3, <2>5 DEF Left, Holding
  <2> QED
    BY <1>8, <2>2, <2>6 DEF Sides
<1>10. CASE req.signal.side = "Sell"
  <2>1. PICK since : since < day /\ Holding(state, symbol, fill.quantity, since)
    BY <1>6, <1>10
  <2>2. LotsOf(state, symbol) # {}
    BY <2>1 DEF Holding
  <2>3. PICK i \in FilledRuns(c) : Latest(c, i) /\ runs[i].request.signal.symbol = symbol
    BY <1>7, <2>2
  <2>4. i \in Nat /\ i < n /\ i \in FilledRuns(c)' /\ runs'[i] = runs[i]
    BY <1>2, <1>3
  <2>5. Left(i, state)
    BY <1>7, <2>3
  <2>6. /\ runs[i].request.signal.side = "Buy"
        /\ Holding(state, symbol, runs[i].outcome.fill.quantity,
                   DayOf(runs[i].request.decision_at))
    BY <1>8, <2>2, <2>3, <2>5 DEF Left, Sides
  <2>7. /\ runs[i].outcome.fill.quantity = fill.quantity
        /\ DayOf(runs[i].request.decision_at) = since
    BY <1>4, <2>1, <2>6, HoldingIsOne
  <2>8. Follows(c, i, n)'
    <3>1. ASSUME NEW k \in FilledRuns(c)', i < k, k < n
          PROVE  runs'[k].request.signal.symbol # symbol
      <4>1. k \in FilledRuns(c) /\ runs'[k] = runs[k] /\ k \in Nat
        BY <1>2, <1>3, <3>1
      <4>2. ~(k <= i)
        BY <2>4, <3>1, <4>1
      <4> QED
        BY <2>3, <4>1, <4>2 DEF Latest
    <3> QED
      BY <1>2, <2>3, <2>4, <3>1 DEF Follows, symbol
  <2>9. runs'[i].request.signal.side = "Buy" /\ ~(runs'[n].request.signal.side = "Buy")
    BY <1>2, <1>10, <2>4, <2>6
  <2>10. /\ runs'[i].outcome.fill.quantity = runs'[n].outcome.fill.quantity
         /\ DayOf(runs'[i].request.decision_at) < DayOf(runs'[n].request.decision_at)
    BY <1>2, <2>1, <2>4, <2>7 DEF day
  <2> QED
    BY <2>4, <2>8, <2>9, <2>10 DEF RoundTrip
<1> QED
  BY <1>4, <1>9, <1>10 DEF Sides

\* After it, positions are again what the last trades left.
LEMMA PositionsMove ==
  ASSUME TradesIInv, NEW req \in Requests, Submit(req), NEW c, c = req.cycle_id
  PROVE  PositionsFollow(c)'
<1>a. PICK n : n = NextRun
  OBVIOUS
<1>b. PICK acc : acc = Replayed(c)
  OBVIOUS
<1>c. PICK fill : fill = SubmitReply(req).value.run.outcome.fill
  OBVIOUS
<1> DEFINE ev == SubmitReply(req).value.run.evidence
           state == acc.state
           next == Afterwards(state, fill)
           symbol == req.signal.symbol
           day == DayOf(req.decision_at)
<1>1. IInv /\ c \in DOMAIN experiments /\ BooksIInv
  BY FreshSubmit DEF Submit, TradesIInv, BooksIInv
<1>2. /\ \A k \in DOMAIN runs : runs'[k] = runs[k] /\ k \in DOMAIN runs' /\ k # n
      /\ \A k \in DOMAIN runs : k \in Nat /\ k < n
      /\ \A k \in DOMAIN runs' : k \in DOMAIN runs \/ k = n
      /\ n \in Nat /\ n \in DOMAIN runs'
      /\ runs'[n].request = req /\ runs'[n].outcome.fill = fill
  BY <1>a, <1>c, <1>1, NewRun
<1>3. /\ FilledRuns(c)' = IF fill = None THEN FilledRuns(c) ELSE FilledRuns(c) \cup {n}
      /\ \A k \in FilledRuns(c) : k \in DOMAIN runs
  BY <1>2 DEF FilledRuns, OwnRuns
<1>4. IsBook(state) /\ req.signal.side \in Sides
  BY <1>b, <1>1, RequestsAssumption DEF BooksIInv, BooksAgree, BookAgrees
<1>5. Replayed(c)'.state = next
  <2>1. Replayed(c)' = Redone(c, acc, n)'
    BY <1>a, <1>b, <1>1, ReplayGrows
  <2>2. Redone(c, acc, n)' = ReplayedTo(req, next)
    BY <1>a, <1>b, <1>c, <1>1, NewRunIsRedone
  <2> HIDE DEF next
  <2> QED
    BY <2>1, <2>2 DEF ReplayedTo
<1>6. PositionsFollow(c)
  BY <1>1 DEF TradesIInv, TradesFollow
<1>7. CASE fill = None
  <2>1. next = state
    BY <1>7 DEF Afterwards
  <2>2. \A i \in FilledRuns(c) : /\ Latest(c, i)' <=> Latest(c, i)
                                 /\ Left(i, state)' <=> Left(i, state)
    BY <1>2, <1>3, <1>7 DEF Latest, Left
  <2>3. FilledRuns(c)' = FilledRuns(c) /\ \A i \in FilledRuns(c) : runs'[i] = runs[i]
    BY <1>2, <1>3, <1>7
  <2>4. Replayed(c)'.state = state /\ Replayed(c).state = state
    BY <1>b, <1>5, <2>1
  <2> HIDE DEF state, next
  <2>5. ASSUME NEW i \in FilledRuns(c)', Latest(c, i)' PROVE Left(i, state)'
    BY <1>6, <2>2, <2>3, <2>4, <2>5 DEF PositionsFollow
  <2>6. ASSUME NEW s, LotsOf(state, s) # {}
        PROVE  \E i \in FilledRuns(c)' : Latest(c, i)' /\ runs'[i].request.signal.symbol = s
    BY <1>6, <2>2, <2>3, <2>4, <2>6 DEF PositionsFollow
  <2> QED
    BY <2>4, <2>5, <2>6 DEF PositionsFollow, Left
<1>8. CASE fill # None
  <2>1. Trades(state, req, ev, next) /\ WholeLot(state, req, fill, next)
    BY <1>b, <1>c, <1>1, <1>8, NewFill DEF Afterwards
  <2> HIDE DEF ev, next
  <2>2. /\ req.signal.side = "Buy" => Holding(next, symbol, fill.quantity, day)
        /\ req.signal.side = "Sell" => LotsOf(next, symbol) = {}
        /\ \A other : other # symbol => SameLots(state, next, other)
    BY <1>4, <2>1, TradeMoves
  <2>3. FilledRuns(c)' = FilledRuns(c) \cup {n}
    BY <1>3, <1>8
  <2> HIDE DEF symbol, day, state
  <2>4. Latest(c, n)'
    BY <1>2, <1>3, <2>3 DEF Latest
  <2>5. ASSUME NEW i \in FilledRuns(c)
        PROVE  Latest(c, i)' <=> Latest(c, i) /\ runs[i].request.signal.symbol # symbol
    <3>1. i \in Nat /\ i < n /\ runs'[i] = runs[i] /\ ~(n <= i)
      BY <1>2, <1>3
    <3> QED
      BY <1>2, <1>3, <2>3, <3>1 DEF Latest, symbol
  <2>6. ASSUME NEW i \in FilledRuns(c)', Latest(c, i)'
        PROVE  Left(i, next)'
    <3>1. CASE i = n
      BY <1>2, <1>4, <2>2, <3>1 DEF Left, Sides, symbol, day
    <3>2. CASE i # n
      <4>1. i \in FilledRuns(c) /\ runs'[i] = runs[i]
        BY <1>2, <1>3, <2>3, <3>2
      <4>2. Latest(c, i) /\ runs[i].request.signal.symbol # symbol
        BY <2>5, <2>6, <4>1
      <4>3. Left(i, state)
        BY <1>b, <1>6, <4>1, <4>2 DEF PositionsFollow, state
      <4>4. SameLots(state, next, runs[i].request.signal.symbol)
        BY <2>2, <4>2
      <4> QED
        BY <4>1, <4>3, <4>4 DEF Left, SameLots
    <3> QED
      BY <3>1, <3>2
  <2>7. ASSUME NEW s, LotsOf(next, s) # {}
        PROVE  \E i \in FilledRuns(c)' : Latest(c, i)' /\ runs'[i].request.signal.symbol = s
    <3>1. CASE s = symbol
      BY <1>2, <2>3, <2>4, <3>1 DEF symbol
    <3>2. CASE s # symbol
      <4>1. LotsOf(state, s) # {}
        BY <2>2, <2>7, <3>2 DEF SameLots
      <4>2. PICK i \in FilledRuns(c) : Latest(c, i) /\ runs[i].request.signal.symbol = s
        BY <1>b, <1>6, <4>1 DEF PositionsFollow, state
      <4> QED
        BY <1>2, <1>3, <2>3, <2>5, <3>2, <4>2
    <3> QED
      BY <3>1, <3>2
  <2> QED
    BY <1>5, <2>6, <2>7 DEF PositionsFollow, Left
<1> QED
  BY <1>7, <1>8

\* Trades keep alternating and positions keep following them.
LEMMA TradesKeepFollowing ==
  ASSUME TradesIInv, [Next]_vars
  PROVE  TradesFollow' /\ RoundTrips'
<1>0. BooksIInv /\ IInv
  BY DEF TradesIInv, BooksIInv
<1>1. ASSUME NEW c \in DOMAIN experiments,
             Replayed(c)' = Replayed(c), OwnRuns(c)' = OwnRuns(c),
             \A k \in DOMAIN runs : runs'[k] = runs[k]
      PROVE  PositionsFollow(c)' /\ \A j \in FilledRuns(c)' : RoundTrip(c, j)'
  <2>1. \A k \in OwnRuns(c) : runs'[k] = runs[k]
    BY <1>1 DEF OwnRuns
  <2>2. FilledRuns(c)' = FilledRuns(c) /\ \A k \in FilledRuns(c) : runs'[k] = runs[k]
    BY <1>1, <2>1 DEF FilledRuns
  <2>3. PositionsFollow(c) /\ \A j \in FilledRuns(c) : RoundTrip(c, j)
    BY DEF TradesIInv, TradesFollow, RoundTrips
  <2>4. \A i \in FilledRuns(c) : Latest(c, i)' <=> Latest(c, i)
    BY <2>2 DEF Latest
  <2>5. PositionsFollow(c)'
    BY <1>1, <2>2, <2>3, <2>4 DEF PositionsFollow, Left
  <2>6. \A i, j \in FilledRuns(c) : Follows(c, i, j)' <=> Follows(c, i, j)
    BY <2>2 DEF Follows
  <2>7. \A j \in FilledRuns(c) : RoundTrip(c, j)'
    BY <2>2, <2>3, <2>6 DEF RoundTrip
  <2> QED
    BY <2>2, <2>5, <2>7
<1>2. CASE runs' = runs /\ fills' = fills
  <2>1. ASSUME NEW c \in DOMAIN experiments
        PROVE  PositionsFollow(c)' /\ \A j \in FilledRuns(c)' : RoundTrip(c, j)'
    BY <1>0, <1>1, <1>2, <2>1, BooksStay
  <2>2. ASSUME NEW spec \in Specs, CreateExperiment(spec), NEW c, c = spec.cycle_id
        PROVE  FilledRuns(c)' = {} /\ PositionsFollow(c)'
    <3>1. OwnRuns(c)' = {} /\ Replayed(c)'.state = NewPortfolio(spec.initial_cash)
      BY <1>0, <2>2, NewBookAgrees
    <3>2. FilledRuns(c)' = {}
      BY <3>1 DEF FilledRuns
    <3>3. \A symbol : LotsOf(NewPortfolio(spec.initial_cash), symbol) = {}
      BY EmptySeq DEF LotsOf, NewPortfolio
    <3> QED
      BY <3>1, <3>2, <3>3 DEF PositionsFollow
  <2>3. \A c \in DOMAIN experiments' :
          \/ c \in DOMAIN experiments
          \/ \E spec \in Specs : CreateExperiment(spec) /\ c = spec.cycle_id
    <3>1. \/ DOMAIN experiments' = DOMAIN experiments
          \/ \E spec \in Specs : CreateExperiment(spec)
      BY DEF Next, vars, RegisterReviewedPack, CompleteExperiment, IngestQuote, Submit
    <3>2. ASSUME NEW spec \in Specs, CreateExperiment(spec), NEW c \in DOMAIN experiments'
          PROVE  c \in DOMAIN experiments \/ c = spec.cycle_id
      BY <3>2, PutRow DEF CreateExperiment
    <3> QED
      BY <3>1, <3>2
  <2> QED
    BY <2>1, <2>2, <2>3 DEF TradesFollow, RoundTrips
<1>3. ASSUME NEW req \in Requests, Submit(req) PROVE TradesFollow' /\ RoundTrips'
  <2>a. PICK n : n = NextRun
    OBVIOUS
  <2>1. experiments' = experiments
    BY <1>3 DEF Submit
  <2>2. /\ \A k \in DOMAIN runs : runs'[k] = runs[k] /\ k # n /\ k < n /\ k \in Nat
        /\ \A k \in DOMAIN runs' : k \in DOMAIN runs \/ k = n
        /\ n \in Nat
    BY <1>0, <1>3, <2>a, NewRun
  <2>3. ASSUME NEW c \in DOMAIN experiments, c # req.cycle_id
        PROVE  PositionsFollow(c)' /\ \A j \in FilledRuns(c)' : RoundTrip(c, j)'
    BY <1>0, <1>1, <1>3, <2>2, <2>3, OtherBooksAgree
  <2>4. ASSUME NEW c, c = req.cycle_id, NEW j \in FilledRuns(c)' PROVE RoundTrip(c, j)'
    <3>1. CASE j = n
      BY <1>3, <2>a, <2>4, <3>1, NewRoundTrip
    <3>2. CASE j # n
      <4>1. \A i \in FilledRuns(c)' : i < j => i # n
        BY <2>2, <3>2, <2>4 DEF FilledRuns, OwnRuns
      <4>2. \A i \in FilledRuns(c) : i \in FilledRuns(c)' /\ runs'[i] = runs[i]
        BY <2>2, NewRun, <1>0, <1>3 DEF FilledRuns, OwnRuns
      <4>3. \A i \in FilledRuns(c)' : i # n => i \in FilledRuns(c) /\ runs'[i] = runs[i]
        BY <2>2 DEF FilledRuns, OwnRuns
      <4>4. j \in FilledRuns(c) /\ runs'[j] = runs[j]
        BY <3>2, <4>3
      <4>5. j < n /\ j \in Nat /\ n \in Nat /\ n # j /\ ~(n < j)
        BY <2>2, <4>4 DEF FilledRuns, OwnRuns
      <4>6. \A i \in FilledRuns(c) : Follows(c, i, j)' <=> Follows(c, i, j)
        BY <4>2, <4>3, <4>4, <4>5 DEF Follows
      <4>7. \A i \in FilledRuns(c)' : Follows(c, i, j)' => i \in FilledRuns(c)
        BY <4>1, <4>3 DEF Follows
      <4>8. RoundTrip(c, j)
        BY <1>3, <2>4, <4>4, FreshSubmit DEF Submit, TradesIInv, RoundTrips
      <4> QED
        BY <4>2, <4>4, <4>6, <4>7, <4>8 DEF RoundTrip
    <3> QED
      BY <3>1, <3>2
  <2>5. ASSUME NEW c, c = req.cycle_id PROVE PositionsFollow(c)'
    BY <1>3, <2>5, PositionsMove
  <2> QED
    BY <2>1, <2>3, <2>4, <2>5 DEF TradesFollow, RoundTrips
<1> QED
  BY <1>2, <1>3, RunsStep

(***************************************************************************)
(* The theorems.                                                           *)
(***************************************************************************)
\* The store starts without experiments, evidence and runs.
LEMMA InitBooks == Init => BooksIInv
<1> SUFFICES ASSUME Init PROVE BooksIInv
  OBVIOUS
<1>1. DOMAIN experiments = {} /\ DOMAIN evidence = {} /\ DOMAIN runs = {}
  <2>1. DOMAIN <<>> = {}
    OBVIOUS
  <2> QED
    BY <2>1 DEF Init
<1> QED
  BY <1>1, InitIInv DEF BooksIInv, EvidenceIsImported, BooksAgree, FillsRestOnEvidence,
     FilledIsSpent, OneFillPerEvidence

\* The invariant is inductive.
LEMMA NextBooks == BooksIInv /\ [Next]_vars => BooksIInv'
<1> SUFFICES ASSUME BooksIInv, [Next]_vars PROVE BooksIInv'
  OBVIOUS
<1>1. IInv'
  BY NextIInv DEF BooksIInv
<1> QED
  BY <1>1, EvidenceStaysImported, BooksKeepAgreeing, FillsKeepEvidence, FillsStaySpent,
     EvidenceFillsOnce DEF BooksIInv

\* Every reachable state of the store has it.
THEOREM BooksInvariant == Spec => []BooksIInv
BY InitBooks, NextBooks, PTL DEF Spec

\* Whatever was imported, registered, decided or completed since, replay finds
\* every recorded outcome again and ends with the portfolio the fills give
\* (query.rs verify_replay).
THEOREM ReplayVerifies == Spec => []ReplayAlwaysVerifies
<1>1. BooksIInv => ReplayAlwaysVerifies
  BY References DEF BooksIInv, BooksAgree, BookAgrees, ReplayAlwaysVerifies, VerifyReplay,
     EveryExperimentLoads
<1> QED
  BY <1>1, BooksInvariant, PTL

\* One immutable quote supports at most one fill of an experiment, though
\* nothing counts what a fill consumes (EXECUTION_EVIDENCE.md).
THEOREM EvidenceIsFilledOnce == Spec => []OneFillPerEvidence
<1>1. BooksIInv => OneFillPerEvidence
  BY DEF BooksIInv
<1> QED
  BY <1>1, BooksInvariant, PTL

\* The trades of a symbol are round trips: a sale sells the whole of a purchase
\* of an earlier day, and a purchase comes after the sale of the one before.
\* The books alone do not show it: positions must be what the last trade of
\* their symbol left.
THEOREM TradesAreRoundTrips == Spec => []RoundTrips
<1>1. Init => TradesIInv
  <2>1. Init => DOMAIN experiments = {}
    BY EmptySeq DEF Init
  <2> QED
    BY <2>1, InitBooks DEF TradesIInv, TradesFollow, RoundTrips
<1>2. TradesIInv /\ [Next]_vars => TradesIInv'
  BY NextBooks, TradesKeepFollowing DEF TradesIInv
<1>3. TradesIInv => RoundTrips
  BY DEF TradesIInv
<1> QED
  BY <1>1, <1>2, <1>3, PTL DEF Spec

\* A completed experiment accepts nothing, and completing it again writes what
\* is there.
LEMMA CompletedStays ==
  ASSUME BooksIInv, [Next]_vars, NEW c \in DOMAIN experiments,
         experiments[c].status = "completed"
  PROVE  /\ experiments'[c] = experiments[c]
         /\ OwnRuns(c)' = OwnRuns(c)
         /\ LoadState(c)' = LoadState(c)
<1>1. CASE runs' = runs /\ fills' = fills
  <2>1. OwnRuns(c)' = OwnRuns(c) /\ LoadState(c)' = LoadState(c)
    BY <1>1, BooksStay
  <2>2. experiments'[c] = experiments[c]
    <3>1. CASE experiments' = experiments
      BY <3>1
    <3>2. ASSUME NEW spec \in Specs, CreateExperiment(spec) PROVE experiments'[c] = experiments[c]
      BY <3>2, PutRow DEF CreateExperiment, Extends
    <3>3. ASSUME NEW k \in DOMAIN experiments, CompleteExperiment(k)
          PROVE  experiments'[c] = experiments[c]
      <4>1. CASE k # c
        BY <3>3, <4>1 DEF CompleteExperiment
      <4>2. CASE k = c
        <5>1. experiments'[c] = [experiments[c] EXCEPT !.status = "completed"]
          BY <3>3, <4>2 DEF CompleteExperiment
        <5> DEFINE Manifests == {Catalogue[id].pack_id : id \in DOMAIN Catalogue}
        <5>2. experiments[c] \in [spec : Specs, status : {"active", "completed"},
                                  manifest : Manifests]
          BY DEF BooksIInv, IInv, TypeOK
        <5> HIDE DEF Manifests
        <5> QED
          BY <5>1, <5>2
      <4> QED
        BY <4>1, <4>2
    <3>4. \/ experiments' = experiments
          \/ \E spec \in Specs : CreateExperiment(spec)
          \/ \E k \in DOMAIN experiments : CompleteExperiment(k)
      BY DEF Next, vars, RegisterReviewedPack, IngestQuote, Submit
    <3> QED
      BY <3>1, <3>2, <3>3, <3>4
  <2> QED
    BY <2>1, <2>2
<1>2. ASSUME NEW req \in Requests, Submit(req)
      PROVE  /\ experiments'[c] = experiments[c]
             /\ OwnRuns(c)' = OwnRuns(c)
             /\ LoadState(c)' = LoadState(c)
  <2>1. experiments[req.cycle_id].status = "active"
    BY <1>2, FreshDecision DEF Submit, Accepting
  <2>2. c # req.cycle_id /\ experiments' = experiments
    BY <1>2, <2>1 DEF Submit
  <2> QED
    BY <1>2, <2>2, OtherBooksAgree
<1> QED
  BY <1>1, <1>2, RunsStep

\* Completion is final: the experiment stays completed, decides nothing more
\* and keeps its portfolio (complete_experiment, submit).
THEOREM CompletionIsFinal == Spec => CompletedIsFinal
<1>1. BooksIInv /\ [Next]_vars =>
        [\A c \in DOMAIN experiments :
           experiments[c].status = "completed" =>
             /\ experiments'[c] = experiments[c]
             /\ OwnRuns(c)' = OwnRuns(c)
             /\ LoadState(c)' = LoadState(c)]_vars
  BY CompletedStays
<1> QED
  BY <1>1, BooksInvariant, PTL DEF Spec, CompletedIsFinal

\* The day an experiment has reached is the day of its latest run.
LEMMA LastDayIs ==
  ASSUME IInv, NEW c, OwnRuns(c) # {}
  PROVE  /\ \E i \in OwnRuns(c) : LastDay(c) = DayOf(runs[i].request.decision_at)
         /\ Greatest(OwnRuns(c)) \in OwnRuns(c)
         /\ \A i \in OwnRuns(c) : i <= Greatest(OwnRuns(c))
<1>1. Len(runs) \in Nat /\ DOMAIN runs = 1..Len(runs)
  BY RowsAreNumbered DEF IInv, RowsNumbered
<1>2. OwnRuns(c) \subseteq Nat /\ \A i \in OwnRuns(c) : i <= Len(runs)
  BY <1>1 DEF OwnRuns
<1> DEFINE T == OwnRuns(c)
<1>3. T \subseteq Nat /\ T # {} /\ \A i \in T : i <= Len(runs)
  BY <1>2
<1> HIDE DEF T
<1>4. Greatest(T) \in T /\ \A i \in T : i <= Greatest(T)
  BY <1>1, <1>3, GreatestIs
<1> QED
  BY <1>4 DEF LastDay, T

\* The runs up to a day that is past stay the same runs.
LEMMA PastRuns ==
  ASSUME IInv, [Next]_vars, NEW c \in DOMAIN experiments, NEW day \in Days, day < LastDay(c)
  PROVE  RunsUpTo(c, day)' = RunsUpTo(c, day)
<1>1. day \in Nat
  BY DaysAreNumbered
<1>2. CASE runs' = runs
  BY <1>2 DEF RunsUpTo, OwnRuns
<1>3. ASSUME NEW req \in Requests, Submit(req)
      PROVE  RunsUpTo(c, day)' = RunsUpTo(c, day)
  <2>a. PICK n : n = NextRun
    OBVIOUS
  <2>1. /\ \A k \in DOMAIN runs : runs'[k] = runs[k] /\ k \in DOMAIN runs' /\ k # n
        /\ \A k \in DOMAIN runs' : k \in DOMAIN runs \/ k = n
        /\ runs'[n].request = req
    BY <1>3, <2>a, NewRun
  <2>2. n \notin RunsUpTo(c, day)'
    <3> SUFFICES ASSUME n \in RunsUpTo(c, day)' PROVE FALSE
      OBVIOUS
    <3>1. c = req.cycle_id /\ DayOf(req.decision_at) <= day
      BY <2>1 DEF RunsUpTo, OwnRuns
    <3>2. OwnRuns(c) # {}
      <4>1. OwnRuns(c) = {} => LastDay(c) = 0
        BY DEF LastDay
      <4> QED
        BY <1>1, <4>1
    <3>3. PICK i \in OwnRuns(c) : LastDay(c) = DayOf(runs[i].request.decision_at)
      BY <3>2, LastDayIs
    <3>4. /\ DayOf(runs[i].request.decision_at) \in Int /\ DayOf(req.decision_at) \in Int
          /\ DayOf(runs[i].request.decision_at) <= DayOf(req.decision_at)
      BY <1>3, <3>1, NewRunIsLast
    <3> QED
      BY <1>1, <3>1, <3>3, <3>4
  <2> QED
    BY <2>1, <2>2 DEF RunsUpTo, OwnRuns
<1> QED
  BY <1>2, <1>3, RunsStep

\* The portfolio after runs that were there stays the same.
LEMMA PastState ==
  ASSUME IInv, [Next]_vars, NEW c \in DOMAIN experiments, NEW S, S \subseteq DOMAIN runs
  PROVE  StateAfter(c, S)' = StateAfter(c, S)
<1> DEFINE cash == experiments[c].spec.initial_cash
           s == RunRows(S)
           t == RunRows(S)'
           N == Len(runs)
<1>1. experiments'[c].spec = experiments[c].spec
  BY StepOnlyAdds DEF OnlyAdds
<1>2. StateAfter(c, S) = Project(cash, s) /\ StateAfter(c, S)' = Project(cash, t)
  BY <1>1 DEF StateAfter, RunRows
<1>3. TypeOK /\ TypeOK'
  BY TypeKeeps DEF IInv
<1>4. N \in Nat /\ DOMAIN runs = 1..N /\ Len(s) = N
  BY <1>3, RowsAreNumbered DEF RowsNumbered
<1>5. /\ Len(runs') \in Nat /\ DOMAIN runs' = 1..Len(runs') /\ Len(t) = Len(runs')
  <2>1. (TypeOK => RowsNumbered)'
    BY RowsAreNumbered, PTL
  <2> QED
    BY <1>3, <2>1 DEF RowsNumbered
<1>6. \A i \in DOMAIN runs : i \in DOMAIN runs' /\ s[i] = t[i]
  <2>1. \A i \in DOMAIN runs : i \in DOMAIN runs' /\ StoredFill(i)' = StoredFill(i)
    BY StoredFillStays, StepOnlyAdds DEF OnlyAdds, Extends
  <2> QED
    BY <2>1 DEF RunRows
<1>7. \/ Len(runs') = N
      \/ Len(runs') = N + 1 /\ N + 1 \in DOMAIN runs' /\ N + 1 \notin S
  <2>1. CASE runs' = runs
    BY <2>1
  <2>2. ASSUME NEW req \in Requests, Submit(req)
        PROVE  Len(runs') = N + 1 /\ N + 1 \in DOMAIN runs' /\ N + 1 \notin S
    <3>1. DOMAIN runs' = 1..(N + 1)
      BY <2>2, SubmitAppends DEF IInv
    <3>2. N + 1 \in 1..Len(runs') /\ Len(runs') \in 1..(N + 1)
      BY <1>4, <1>5, <3>1
    <3>3. N + 1 \notin DOMAIN runs
      BY <1>4
    <3>4. N + 1 \notin S
      BY <3>3
    <3>5. Len(runs') = N + 1
      <4> DEFINE M == Len(runs')
      <4>1. M \in Nat /\ N \in Nat /\ N + 1 \in 1..M /\ M \in 1..(N + 1)
        BY <1>4, <1>5, <3>2
      <4> HIDE DEF M, N
      <4>2. M = N + 1
        BY <4>1, SMT
      <4> QED
        BY <4>2 DEF M
    <3> QED
      BY <1>4, <1>5, <3>1, <3>4, <3>5
  <2> QED
    BY <2>1, <2>2, RunsStep
<1>8. N + 1 \in DOMAIN runs' /\ N + 1 \notin S => t[N + 1] = None
  BY DEF RunRows
<1> HIDE DEF s, t, cash, N
<1>9. Project(cash, t) = Project(cash, s)
  <2>1. CASE Len(runs') = N
    BY <1>4, <1>5, <1>6, <2>1, ProjectSame
  <2>2. CASE Len(runs') = N + 1 /\ t[N + 1] = None
    <3>1. Project(cash, t) = Entry(Project(cash, s), t[N + 1])
      BY <1>4, <1>5, <1>6, <2>2, ProjectGrows
    <3> QED
      BY <2>2, <3>1 DEF Entry
  <2> QED
    BY <1>7, <1>8, <2>1, <2>2
<1> QED
  BY <1>2, <1>9 DEF cash, s, t

\* The past of an experiment is fixed: the view of a day its decisions have
\* passed is the same after every later step (query.rs as_of).
THEOREM HistoryIsFixed == Spec => HistoryNeverChanges
<1>1. ASSUME IInv, [Next]_vars, NEW c \in DOMAIN experiments, NEW day \in Days,
             day < LastDay(c)
      PROVE  AsOfView(c, day)' = AsOfView(c, day)
  <2>a. PICK S : S = RunsUpTo(c, day)
    OBVIOUS
  <2>1. RunsUpTo(c, day)' = S
    BY <1>1, <2>a, PastRuns
  <2>2. S \subseteq DOMAIN runs
    BY <2>a DEF RunsUpTo, OwnRuns
  <2>3. StateAfter(c, S)' = StateAfter(c, S)
    BY <1>1, <2>2, PastState
  <2> QED
    BY <2>a, <2>1, <2>3 DEF AsOfView
<1>2. IInv /\ [Next]_vars =>
        [\A c \in DOMAIN experiments, day \in Days :
           day < LastDay(c) => AsOfView(c, day)' = AsOfView(c, day)]_vars
  BY <1>1
<1> QED
  BY <1>2, LedgerInvariant, PTL DEF Spec, HistoryNeverChanges

(***************************************************************************)
(* The two ways to compute a portfolio: the undated one adds up the fill   *)
(* table, the dated one the fills of selected runs (query.rs state).       *)
(***************************************************************************)
LoadsAgree == \A c \in DOMAIN experiments : StateAfter(c, OwnRuns(c)) = LoadState(c)

\* A new run that is selected is one more entry of the dated portfolio.
LEMMA StateGrows ==
  ASSUME IInv, NEW req \in Requests, Submit(req), NEW c \in DOMAIN experiments,
         NEW S, S \subseteq DOMAIN runs, NEW n, n = NextRun
  PROVE  StateAfter(c, S \cup {n})' =
           Entry(StateAfter(c, S), SubmitReply(req).value.run.outcome.fill)
<1> DEFINE cash == experiments[c].spec.initial_cash
           T == S \cup {n}
           s == RunRows(S)
           t == RunRows(T)'
           N == Len(runs)
<1>0. [Next]_vars /\ IInv'
  BY NextIInv DEF Next
<1>1. /\ experiments'[c].spec = experiments[c].spec
      /\ \A i \in DOMAIN runs : i \in DOMAIN runs' /\ StoredFill(i)' = StoredFill(i)
  BY <1>0, StoredFillStays, StepOnlyAdds DEF OnlyAdds, Extends
<1>2. StateAfter(c, S) = Project(cash, s) /\ StateAfter(c, T)' = Project(cash, t)
  BY <1>1 DEF StateAfter, RunRows
<1>3. /\ DOMAIN runs = 1..N /\ N \in Nat /\ n = N + 1 /\ DOMAIN runs' = 1..n
      /\ \A i \in DOMAIN runs : i # n
      /\ n \in DOMAIN runs' /\ runs'[n] = SubmitReply(req).value.run
  BY NewRun
<1>4. Len(s) = N
  <2>1. s = [i \in 1..N |-> s[i]]
    BY <1>3 DEF RunRows
  <2> QED
    BY <1>3, <2>1, LenOfFunction
<1>5. Len(t) = N + 1
  <2>1. t = [i \in 1..n |-> t[i]]
    BY <1>3 DEF RunRows
  <2>2. n \in Nat
    BY <1>3
  <2> HIDE DEF t
  <2>3. Len(t) = n
    BY <2>1, <2>2, LenOfFunction
  <2> QED
    BY <1>3, <2>3
<1>6. \A i \in DOMAIN runs : s[i] = t[i]
  BY <1>1, <1>3 DEF RunRows
<1>7. t[n] = SubmitReply(req).value.run.outcome.fill
  <2>1. (FillsMirrorRuns => \A i \in DOMAIN runs : StoredFill(i) = runs[i].outcome.fill)'
    BY StoredFillIs, PTL
  <2>2. StoredFill(n)' = runs'[n].outcome.fill
    BY <1>0, <1>3, <2>1 DEF IInv
  <2>3. t[n] = StoredFill(n)'
    BY <1>3 DEF RunRows
  <2> QED
    BY <1>3, <2>2, <2>3
<1> HIDE DEF s, t, cash, N, T
<1>8. Project(cash, t) = Entry(Project(cash, s), t[N + 1])
  BY <1>3, <1>4, <1>5, <1>6, ProjectGrows
<1> QED
  BY <1>2, <1>3, <1>7, <1>8 DEF T

BeginsWithCash ==
  \A c : StateAfter(c, {}) = Ok(NewPortfolio(experiments[c].spec.initial_cash))

\* Nothing selected is the portfolio the experiment began with.
LEMMA StateOfNone == RowsNumbered => BeginsWithCash
<1> SUFFICES ASSUME RowsNumbered, NEW c
             PROVE  StateAfter(c, {}) = Ok(NewPortfolio(experiments[c].spec.initial_cash))
  BY DEF BeginsWithCash
<1> DEFINE rows == RunRows({})
<1>1. Len(runs) \in Nat /\ DOMAIN runs = 1..Len(runs)
  BY DEF RowsNumbered
<1>2. Len(rows) = Len(runs) /\ \A i \in 1..Len(runs) : rows[i] = None
  <2>1. rows = [i \in 1..Len(runs) |-> rows[i]]
    BY <1>1 DEF RunRows
  <2>2. Len(rows) = Len(runs)
    BY <1>1, <2>1, LenOfFunction
  <2> QED
    BY <1>1, <2>2 DEF RunRows
<1>3. StateAfter(c, {}) = Project(experiments[c].spec.initial_cash, rows)
  BY DEF StateAfter, RunRows
<1> HIDE DEF rows
<1> QED
  BY <1>1, <1>2, <1>3, ProjectNothing

\* The two agree after every step.
LEMMA LoadsKeepAgreeing ==
  ASSUME BooksIInv, LoadsAgree, [Next]_vars
  PROVE  LoadsAgree'
<1> SUFFICES ASSUME NEW c \in DOMAIN experiments'
             PROVE  StateAfter(c, OwnRuns(c))' = LoadState(c)'
  BY DEF LoadsAgree
<1>0. IInv
  BY DEF BooksIInv
<1>a. PICK S : S = OwnRuns(c)
  OBVIOUS
<1>b. S \subseteq DOMAIN runs
  BY <1>a DEF OwnRuns
<1>1. ASSUME c \in DOMAIN experiments, OwnRuns(c)' = S, LoadState(c)' = LoadState(c)
      PROVE  StateAfter(c, OwnRuns(c))' = LoadState(c)'
  <2>1. StateAfter(c, S)' = StateAfter(c, S)
    BY <1>0, <1>1, <1>b, PastState
  <2>2. StateAfter(c, S) = LoadState(c)
    BY <1>1, <1>a DEF LoadsAgree
  <2>3. StateAfter(c, OwnRuns(c))' = StateAfter(c, S)'
    BY <1>1 DEF StateAfter
  <2> QED
    BY <1>1, <2>1, <2>2, <2>3
<1>2. CASE c \in DOMAIN experiments /\ runs' = runs /\ fills' = fills
  BY <1>1, <1>2, <1>a, BooksStay
<1>3. ASSUME NEW req \in Requests, Submit(req)
      PROVE  StateAfter(c, OwnRuns(c))' = LoadState(c)'
  <2>0. c \in DOMAIN experiments
    BY <1>3 DEF Submit
  <2>1. CASE req.cycle_id # c
    BY <1>1, <1>3, <1>a, <2>0, <2>1, OtherBooksAgree
  <2>2. CASE req.cycle_id = c
    <3>a. PICK n : n = NextRun
      OBVIOUS
    <3>b. PICK T : T = S \cup {n}
      OBVIOUS
    <3>c. PICK fill : fill = SubmitReply(req).value.run.outcome.fill
      OBVIOUS
    <3>1. /\ \A k \in DOMAIN runs : runs'[k] = runs[k] /\ k \in DOMAIN runs' /\ k # n
          /\ DOMAIN runs' = DOMAIN runs \cup {n}
          /\ runs'[n].request = req
      <4>1. /\ DOMAIN runs = 1..Len(runs) /\ Len(runs) \in Nat /\ n = Len(runs) + 1
            /\ DOMAIN runs' = 1..n
        BY <1>0, <1>3, <3>a, NewRun
      <4>2. DOMAIN runs' = DOMAIN runs \cup {n}
        BY <4>1
      <4> QED
        BY <1>0, <1>3, <3>a, <4>2, NewRun
    <3>2. OwnRuns(c)' = T
      BY <1>a, <2>2, <3>b, <3>1 DEF OwnRuns
    <3>3. StateAfter(c, S \cup {n})' = Entry(StateAfter(c, S), fill)
      BY <1>0, <1>3, <1>b, <2>0, <3>a, <3>c, StateGrows
    <3>4. LoadState(c)' = Entry(LoadState(c), fill)
      BY <1>0, <1>3, <2>0, <2>2, <3>c, LoadAfterSubmit
    <3>5. StateAfter(c, OwnRuns(c))' = StateAfter(c, S \cup {n})'
      BY <3>b, <3>2 DEF StateAfter
    <3>6. StateAfter(c, S) = LoadState(c)
      BY <1>a, <2>0 DEF LoadsAgree
    <3> QED
      BY <3>3, <3>4, <3>5, <3>6
  <2> QED
    BY <2>1, <2>2
<1>4. ASSUME c \notin DOMAIN experiments, NEW spec \in Specs, CreateExperiment(spec)
      PROVE  StateAfter(c, OwnRuns(c))' = LoadState(c)'
  <2>1. c = spec.cycle_id /\ experiments'[c].spec = spec
    BY <1>4, PutRow DEF CreateExperiment, Holds, Put
  <2>2. BookAgrees(c)' /\ OwnRuns(c)' = {} /\ Replayed(c)'.state = NewPortfolio(spec.initial_cash)
    BY <1>4, <2>1, NewBookAgrees
  <2>3. LoadState(c)' = Ok(NewPortfolio(spec.initial_cash))
    BY <2>2 DEF BookAgrees, EndsAsRecorded
  <2>4. (TypeOK => RowsNumbered)'
    BY RowsAreNumbered, PTL
  <2>5. RowsNumbered'
    BY <1>0, <2>4, NextIInv DEF IInv
  <2>6. (RowsNumbered => BeginsWithCash)'
    BY StateOfNone, PTL
  <2>7. StateAfter(c, {})' = Ok(NewPortfolio(spec.initial_cash))
    BY <2>1, <2>5, <2>6 DEF BeginsWithCash
  <2>8. StateAfter(c, OwnRuns(c))' = StateAfter(c, {})'
    BY <2>2 DEF StateAfter
  <2> QED
    BY <2>3, <2>7, <2>8
<1>5. \/ c \in DOMAIN experiments /\ runs' = runs /\ fills' = fills
      \/ \E req \in Requests : Submit(req)
      \/ c \notin DOMAIN experiments /\ \E spec \in Specs : CreateExperiment(spec)
  <2>1. CASE experiments' = experiments
    BY <2>1, RunsStep
  <2>2. ASSUME NEW k \in DOMAIN experiments, CompleteExperiment(k)
        PROVE  c \in DOMAIN experiments /\ runs' = runs /\ fills' = fills
    BY <2>2 DEF CompleteExperiment
  <2>3. ASSUME NEW spec \in Specs, CreateExperiment(spec)
        PROVE  runs' = runs /\ fills' = fills
    BY <2>3 DEF CreateExperiment
  <2> QED
    BY <2>1, <2>2, <2>3 DEF Next, vars, RegisterReviewedPack, IngestQuote, Submit
<1> QED
  BY <1>2, <1>3, <1>4, <1>5

\* The undated portfolio is the dated one after every run of the experiment,
\* so the two queries of `state' never tell of different accounts.
THEOREM ViewsHaveOneMeaning == Spec => []LoadsAgree
<1>1. Init => LoadsAgree
  BY DEF Init, LoadsAgree
<1>2. BooksIInv /\ LoadsAgree /\ [Next]_vars => LoadsAgree'
  BY LoadsKeepAgreeing
<1> QED
  BY <1>1, <1>2, BooksInvariant, PTL DEF Spec

(***************************************************************************)
(* The ledger implements the account of every experiment.                  *)
(*                                                                         *)
(* A step of the ledger changes what is seen of at most one account, and   *)
(* the books above say how: a fill, decided on the book that replay and the*)
(* fill table agree on, opens a lot where there was none or clears one of  *)
(* an earlier day.  What is left is arithmetic on one row.  LotsAreDated   *)
(* is needed because the account writes 0 for no lot: no lot may bear that *)
(* day.                                                                    *)
(*                                                                         *)
(* The second half says that an account owes nothing to the others: every  *)
(* reply is the one the program would give over a file that holds only the *)
(* rows of one experiment.  The rows are picked by their ranks.            *)
(***************************************************************************)

\* The account speaks of every symbol, day and amount that can occur.
AccountCovers ==
  /\ Amounts = Nat
  /\ \A input \in Imports :
       ImportValid(input) =>
         input.quote.symbol \in Symbols /\ DayOf(input.quote.observed_at) \in Days
  /\ \A req \in Requests : RequestError(req) = "" => DayOf(req.decision_at) \in Days

LotsAreDated ==
  \A c \in DOMAIN experiments : \A s : ~HoldsSince(LoadState(c).value, s, 0)

(***************************************************************************)
(* What is seen of one experiment.                                         *)
(***************************************************************************)
StatusOf(c) == IF Opened(c) THEN experiments[c].status ELSE "absent"
CashOf(c) == IF Opened(c) THEN LoadState(c).value.cash ELSE 0
BoughtOf(c) == [s \in Symbols |-> IF Opened(c) THEN LotDay(c, s) ELSE 0]
UsedFor(c, q) == {i \in FilledRuns(c) : runs[i].request.quote_ref = q}
UsesOf(c) == [q \in QuoteRefs |-> Cardinality(UsedFor(c, q))]

SameAccount(c) ==
  /\ StatusOf(c)' = StatusOf(c) /\ CashOf(c)' = CashOf(c) /\ BoughtOf(c)' = BoughtOf(c)
  /\ LastDay(c)' = LastDay(c) /\ UsesOf(c)' = UsesOf(c)

\* The day a symbol's lot was bought, as the account writes it.
DayHeld(state, s) ==
  IF LotsOf(state, s) = {} THEN 0
  ELSE Greatest({state.lots[i].bought_on : i \in LotsOf(state, s)})

\* A book holds at most one lot of a symbol, so its day is the lot's.
LEMMA DayHeldIs ==
  ASSUME NEW state, IsBook(state), NEW s
  PROVE  /\ LotsOf(state, s) = {} => DayHeld(state, s) = 0
         /\ \A day : HoldsSince(state, s, day) => DayHeld(state, s) = day
<1>1. LotsOf(state, s) = {} => DayHeld(state, s) = 0
  BY DEF DayHeld
<1>2. ASSUME NEW day, HoldsSince(state, s, day) PROVE DayHeld(state, s) = day
  <2>1. PICK k \in LotsOf(state, s) : state.lots[k].bought_on = day
    BY <1>2 DEF HoldsSince
  <2>2. \A i \in LotsOf(state, s) : i = k
    BY DEF IsBook, LotsOf
  <2>3. day \in Nat
    BY <2>1 DEF IsBook, LotsOf
  <2>4. {state.lots[i].bought_on : i \in LotsOf(state, s)} = {day}
    BY <2>1, <2>2
  <2>5. Greatest({day}) = day
    <3>1. \E m \in {day} : \A n \in {day} : n <= m
      BY <2>3
    <3>2. Greatest({day}) \in {day}
      BY <3>1 DEF Greatest
    <3> QED
      BY <3>2
  <2> QED
    BY <2>1, <2>4, <2>5 DEF DayHeld
<1> QED
  BY <1>1, <1>2

\* Books with the same lots of a symbol show the same day.
LEMMA SameDayHeld ==
  ASSUME NEW state, IsBook(state), NEW next, IsBook(next), NEW s, SameLots(state, next, s)
  PROVE  DayHeld(next, s) = DayHeld(state, s)
<1>1. CASE LotsOf(state, s) = {}
  BY <1>1, DayHeldIs DEF SameLots
<1>2. CASE LotsOf(state, s) # {}
  <2>1. PICK k \in LotsOf(state, s) : TRUE
    BY <1>2
  <2>2. HoldsSince(state, s, state.lots[k].bought_on)
    BY <2>1 DEF HoldsSince
  <2>3. HoldsSince(next, s, state.lots[k].bought_on)
    BY <2>2 DEF SameLots
  <2> QED
    BY <2>2, <2>3, DayHeldIs
<1> QED
  BY <1>1, <1>2

\* The account of an experiment whose rows a step leaves alone.
LEMMA Unseen ==
  ASSUME IInv, NEW c, Opened(c)' <=> Opened(c),
         Opened(c) => experiments'[c].status = experiments[c].status /\ LoadState(c)' = LoadState(c),
         OwnRuns(c)' = OwnRuns(c), \A i \in OwnRuns(c) : runs'[i] = runs[i]
  PROVE  SameAccount(c)
<1>1. StatusOf(c)' = StatusOf(c) /\ CashOf(c)' = CashOf(c)
  BY DEF StatusOf, CashOf
<1>2. BoughtOf(c)' = BoughtOf(c)
  <2>1. Opened(c) => \A s : LotDay(c, s)' = LotDay(c, s)
    BY DEF LotDay
  <2> QED
    BY <2>1 DEF BoughtOf
<1>3. FilledRuns(c)' = FilledRuns(c)
  BY DEF FilledRuns
<1>4. \A q : UsedFor(c, q)' = UsedFor(c, q)
  BY <1>3 DEF UsedFor, FilledRuns
<1>5. UsesOf(c)' = UsesOf(c)
  BY <1>4 DEF UsesOf
<1>6. LastDay(c)' = LastDay(c)
  <2>1. CASE OwnRuns(c) = {}
    BY <2>1 DEF LastDay
  <2>2. CASE OwnRuns(c) # {}
    BY <2>2, LastDayIs DEF LastDay
  <2> QED
    BY <2>1, <2>2
<1> QED
  BY <1>1, <1>2, <1>5, <1>6 DEF SameAccount

(***************************************************************************)
(* A decision, as seen by its own account.                                 *)
(***************************************************************************)
\* The book of an experiment is a book, and the one replay ends with.
LEMMA BookIs ==
  ASSUME BooksIInv, NEW c \in DOMAIN experiments
  PROVE  /\ LoadState(c) = Ok(Replayed(c).state) /\ LoadState(c).value = Replayed(c).state
         /\ IsBook(LoadState(c).value)
<1>1. BookAgrees(c)
  BY DEF BooksIInv, BooksAgree
<1>2. LoadState(c) = Ok(Replayed(c).state)
  BY <1>1 DEF BookAgrees, EndsAsRecorded
<1>3. LoadState(c).value = Replayed(c).state
  BY <1>2, Results
<1> QED
  BY <1>1, <1>2, <1>3 DEF BookAgrees

\* A decision turns the book into what its fill makes of it.
LEMMA BookStep ==
  ASSUME BooksIInv, NEW req \in Requests, Submit(req), NEW c, c = req.cycle_id,
         NEW fill, fill = SubmitReply(req).value.run.outcome.fill,
         NEW book, book = LoadState(c).value
  PROVE  /\ LoadState(c)'.value = Afterwards(book, fill)
         /\ IsBook(book) /\ IsBook(Afterwards(book, fill))
         /\ fill # None => Trades(book, req, SubmitReply(req).value.run.evidence,
                                  Afterwards(book, fill))
<1>a. PICK acc : acc = Replayed(c)
  OBVIOUS
<1>b. PICK n : n = NextRun
  OBVIOUS
<1>1. IInv /\ c \in DOMAIN experiments
  BY FreshSubmit DEF Submit, BooksIInv
<1>2. book = acc.state /\ IsBook(book)
  BY <1>1, <1>a, BookIs
<1>3. Replayed(c)'.state = Afterwards(book, fill)
  <2>1. Replayed(c)' = Redone(c, acc, n)'
    BY <1>1, <1>a, <1>b, ReplayGrows
  <2>2. Redone(c, acc, n)' = ReplayedTo(req, Afterwards(acc.state, fill))
    BY <1>a, <1>b, NewRunIsRedone
  <2> QED
    BY <1>2, <2>1, <2>2 DEF ReplayedTo
<1>4. LoadState(c)'.value = Replayed(c)'.state
  <2>1. BookAgrees(c)'
    BY OwnBookAgrees
  <2>2. LoadState(c)' = Ok(Replayed(c)'.state)
    BY <2>1 DEF BookAgrees, EndsAsRecorded
  <2> QED
    BY <2>2, Results
<1>5. IsBook(Afterwards(book, fill))
  BY <1>a, <1>2, NewFill
<1>6. fill # None => Trades(book, req, SubmitReply(req).value.run.evidence, Afterwards(book, fill))
  BY <1>a, <1>2, NewFill DEF Afterwards
<1> QED
  BY <1>2, <1>3, <1>4, <1>5, <1>6

\* A decision is in the record for a day the account knows.
LEMMA DecisionDay ==
  ASSUME AccountCovers, BooksIInv, NEW req \in Requests, Submit(req), NEW day, day = DayOf(req.decision_at)
  PROVE  day \in Days /\ day \in Nat \ {0}
<1>1. RequestError(req) = ""
  BY FreshDecision, DecidedRequests DEF Submit
<1> QED
  BY <1>1, DaysAreNumbered DEF AccountCovers

\* Lots bear the day of a decision, which is not 0.
LEMMA LotsStayDated ==
  ASSUME AccountCovers, BooksIInv, LotsAreDated, [Next]_vars
  PROVE  LotsAreDated'
<1>1. CASE runs' = runs /\ fills' = fills
  <2>1. \A c \in DOMAIN experiments : LoadState(c)' = LoadState(c)
    BY <1>1, BooksStay
  <2>2. ASSUME NEW spec \in Specs, CreateExperiment(spec), NEW s
        PROVE  ~HoldsSince(LoadState(spec.cycle_id)'.value, s, 0)
    <3>1. /\ BookAgrees(spec.cycle_id)'
          /\ Replayed(spec.cycle_id)'.state = NewPortfolio(spec.initial_cash)
      BY <2>2, NewBookAgrees
    <3>2. LoadState(spec.cycle_id)' = Ok(NewPortfolio(spec.initial_cash))
      BY <3>1 DEF BookAgrees, EndsAsRecorded
    <3>3. LoadState(spec.cycle_id)'.value.lots = <<>>
      BY <3>2, Results DEF NewPortfolio
    <3> QED
      BY <3>3 DEF HoldsSince, LotsOf
  <2>3. \A c \in DOMAIN experiments' :
          \/ c \in DOMAIN experiments
          \/ \E spec \in Specs : CreateExperiment(spec) /\ c = spec.cycle_id
    <3>1. \/ DOMAIN experiments' = DOMAIN experiments
          \/ \E spec \in Specs : CreateExperiment(spec)
      BY DEF Next, vars, RegisterReviewedPack, CompleteExperiment, IngestQuote, Submit
    <3>2. ASSUME NEW spec \in Specs, CreateExperiment(spec), NEW c \in DOMAIN experiments'
          PROVE  c \in DOMAIN experiments \/ c = spec.cycle_id
      BY <3>2, PutRow DEF CreateExperiment
    <3> QED
      BY <3>1, <3>2
  <2> QED
    BY <2>1, <2>2, <2>3 DEF LotsAreDated
<1>2. ASSUME NEW req \in Requests, Submit(req) PROVE LotsAreDated'
  <2>1. experiments' = experiments
    BY <1>2 DEF Submit
  <2>2. ASSUME NEW c \in DOMAIN experiments, NEW s
        PROVE  ~HoldsSince(LoadState(c)'.value, s, 0)
    <3>1. CASE c # req.cycle_id
      <4>1. LoadState(c)' = LoadState(c)
        BY <1>2, <3>1, OtherBooksAgree
      <4> QED
        BY <4>1 DEF LotsAreDated
    <3>2. CASE c = req.cycle_id
      <4>a. PICK book : book = LoadState(c).value
        OBVIOUS
      <4>b. PICK fill : fill = SubmitReply(req).value.run.outcome.fill
        OBVIOUS
      <4>c. PICK day : day = DayOf(req.decision_at)
        OBVIOUS
      <4>d. PICK next : next = Afterwards(book, fill)
        OBVIOUS
      <4>e. PICK symbol : symbol = req.signal.symbol
        OBVIOUS
      <4>1. /\ LoadState(c)'.value = next
            /\ IsBook(book) /\ IsBook(next)
            /\ fill # None => Trades(book, req, SubmitReply(req).value.run.evidence, next)
        BY <1>2, <3>2, <4>a, <4>b, <4>d, BookStep
      <4>2. ~HoldsSince(book, s, 0)
        BY <4>a DEF LotsAreDated
      <4>3. day # 0
        BY <1>2, <4>c, DecisionDay
      <4>4. CASE fill = None
        BY <4>1, <4>2, <4>4, <4>d DEF Afterwards
      <4>5. CASE fill # None /\ req.signal.side = "Buy"
        <5>1. OpensLot(book, next, symbol, day)
          BY <4>1, <4>5, <4>c, <4>e DEF Trades
        <5>2. HoldsSince(next, symbol, day) /\ \A other : other # symbol => SameLots(book, next, other)
          BY <4>1, <5>1, OpensLots
        <5>3. HoldsSince(next, symbol, 0) => DayHeld(next, symbol) = 0
          BY <4>1, DayHeldIs
        <5>4. DayHeld(next, symbol) = day
          BY <4>1, <5>2, DayHeldIs
        <5> QED
          BY <4>1, <4>2, <4>3, <5>2, <5>3, <5>4 DEF SameLots
      <4>6. CASE fill # None /\ req.signal.side = "Sell"
        <5>1. Clears(book, next, symbol, day)
          BY <4>1, <4>6, <4>c, <4>e DEF Trades
        <5>2. LotsOf(next, symbol) = {} /\ \A other : other # symbol => SameLots(book, next, other)
          BY <4>1, <5>1, ClearsLots
        <5> QED
          BY <4>1, <4>2, <5>2 DEF SameLots, HoldsSince
      <4> QED
        BY <4>4, <4>5, <4>6, RequestsAssumption DEF Sides
    <3> QED
      BY <3>1, <3>2
  <2> QED
    BY <2>1, <2>2 DEF LotsAreDated
<1> QED
  BY <1>1, <1>2, RunsStep

\* A decision finds its account active and moves its clock to its own day.
LEMMA DecisionSeen ==
  ASSUME AccountCovers, BooksIInv, NEW req \in Requests, Submit(req),
         NEW c, c = req.cycle_id, NEW day, day = DayOf(req.decision_at)
  PROVE  /\ Opened(c) /\ Opened(c)'
         /\ StatusOf(c) = "active" /\ StatusOf(c)' = StatusOf(c)
         /\ LastDay(c) <= day /\ LastDay(c)' = day
<1>a. PICK n : n = NextRun
  OBVIOUS
<1>0. IInv
  BY DEF BooksIInv
<1>1. /\ DOMAIN runs = 1..Len(runs) /\ Len(runs) \in Nat /\ n = Len(runs) + 1
      /\ DOMAIN runs' = 1..n
      /\ n \in DOMAIN runs' /\ runs'[n].request = req
  BY <1>0, <1>a, NewRun
<1>2. Opened(c) /\ Opened(c)' /\ StatusOf(c) = "active" /\ StatusOf(c)' = StatusOf(c)
  <2>1. c \in DOMAIN experiments /\ experiments' = experiments
    BY FreshSubmit DEF Submit
  <2>2. experiments[c].status = "active"
    BY FreshDecision DEF Submit, Accepting
  <2> QED
    BY <2>1, <2>2 DEF Opened, StatusOf
<1>3. LastDay(c)' = day
  <2> DEFINE T == OwnRuns(c)'
  <2>1. n \in T /\ T \subseteq 1..n
    BY <1>1 DEF OwnRuns
  <2> HIDE DEF T
  <2>2. n \in Nat /\ T \subseteq Nat /\ T # {} /\ \A i \in T : i <= n
    BY <1>1, <2>1
  <2>3. Greatest(T) \in T /\ \A i \in T : i <= Greatest(T)
    BY <2>2, GreatestIs
  <2>4. Greatest(T) = n
    <3>1. Greatest(T) \in Nat /\ Greatest(T) <= n /\ n <= Greatest(T)
      BY <2>1, <2>2, <2>3
    <3> QED
      BY <2>2, <3>1
  <2>5. LastDay(c)' = DayOf(runs'[Greatest(T)].request.decision_at)
    BY <2>2 DEF LastDay, T
  <2> QED
    BY <1>1, <2>4, <2>5
<1>4. LastDay(c) <= day
  <2>1. day \in Nat
    BY DecisionDay
  <2>2. CASE OwnRuns(c) = {}
    <3>1. LastDay(c) = 0
      BY <2>2 DEF LastDay
    <3> QED
      BY <2>1, <3>1
  <2>3. CASE OwnRuns(c) # {}
    <3>1. PICK i \in OwnRuns(c) : LastDay(c) = DayOf(runs[i].request.decision_at)
      BY <1>0, <2>3, LastDayIs
    <3> QED
      BY <1>0, <3>1, NewRunIsLast
  <2> QED
    BY <2>2, <2>3
<1> QED
  BY <1>2, <1>3, <1>4

\* A decision that fills uses its quote once more, one that does not uses none.
LEMMA QuoteUse ==
  ASSUME BooksIInv, NEW req \in Requests, Submit(req), NEW c, c = req.cycle_id,
         NEW fill, fill = SubmitReply(req).value.run.outcome.fill,
         NEW q, q = req.quote_ref
  PROVE  /\ fill = None => UsesOf(c)' = UsesOf(c)
         /\ fill # None /\ q \in QuoteRefs => UsesOf(c)' = [UsesOf(c) EXCEPT ![q] = @ + 1]
<1>a. PICK n : n = NextRun
  OBVIOUS
<1>0. IInv
  BY DEF BooksIInv
<1>1. /\ DOMAIN runs = 1..Len(runs) /\ Len(runs) \in Nat
      /\ \A i \in DOMAIN runs : runs'[i] = runs[i] /\ i \in DOMAIN runs' /\ i # n
      /\ \A i \in DOMAIN runs' : i \in DOMAIN runs \/ i = n
      /\ n \in DOMAIN runs' /\ n \notin DOMAIN runs
      /\ runs'[n].outcome.fill = fill /\ runs'[n].request = req
  BY <1>0, <1>a, NewRun
<1>2. FilledRuns(c)' = IF fill = None THEN FilledRuns(c) ELSE FilledRuns(c) \cup {n}
  BY <1>1 DEF FilledRuns, OwnRuns
<1>3. FilledRuns(c) \subseteq DOMAIN runs
  BY DEF FilledRuns, OwnRuns
<1>4. \A p : UsedFor(c, p)' =
               IF fill # None /\ p = q THEN UsedFor(c, p) \cup {n} ELSE UsedFor(c, p)
  BY <1>1, <1>2, <1>3 DEF UsedFor
<1>5. fill = None => UsesOf(c)' = UsesOf(c)
  BY <1>4 DEF UsesOf
<1>6. Cardinality(UsedFor(c, q) \cup {n}) = Cardinality(UsedFor(c, q)) + 1
  <2>1. UsedFor(c, q) \subseteq 1..Len(runs) /\ n \notin UsedFor(c, q)
    BY <1>1, <1>3 DEF UsedFor
  <2>2. IsFiniteSet(UsedFor(c, q))
    <3>1. IsFiniteSet(1..Len(runs))
      BY <1>1, FS_Interval
    <3> QED
      BY <2>1, <3>1, FS_Subset
  <2> QED
    BY <2>1, <2>2, FS_AddElement
<1>7. ASSUME fill # None, q \in QuoteRefs
      PROVE  UsesOf(c)' = [UsesOf(c) EXCEPT ![q] = @ + 1]
  <2>1. \A p : Cardinality(UsedFor(c, p))' =
                 IF p = q THEN Cardinality(UsedFor(c, p)) + 1 ELSE Cardinality(UsedFor(c, p))
    BY <1>4, <1>6, <1>7
  <2> QED
    BY <1>7, <2>1 DEF UsesOf
<1> QED
  BY <1>5, <1>7

\* What the account of an experiment shows of its book.
LEMMA BookSeen ==
  ASSUME NEW c
  PROVE  /\ Opened(c) => /\ CashOf(c) = LoadState(c).value.cash
                         /\ BoughtOf(c) = [s \in Symbols |-> DayHeld(LoadState(c).value, s)]
         /\ Opened(c)' => /\ CashOf(c)' = LoadState(c)'.value.cash
                          /\ BoughtOf(c)' = [s \in Symbols |-> DayHeld(LoadState(c)'.value, s)]
BY DEF CashOf, BoughtOf, LotDay, DayHeld

\* A purchase, as the account sees it.
SeesBought(c, symbol, day) ==
  /\ BoughtOf(c)[symbol] = 0
  /\ BoughtOf(c)' = [BoughtOf(c) EXCEPT ![symbol] = day]
  /\ \E cost \in Nat \ {0} : 10 * cost <= CashOf(c) /\ CashOf(c)' = CashOf(c) - cost

\* What a decision that buys is to its account (portfolio.rs apply).
LEMMA PurchaseSeen ==
  ASSUME AccountCovers, BooksIInv, NEW req \in Requests, Submit(req),
         NEW c, c = req.cycle_id, NEW day, day = DayOf(req.decision_at),
         NEW symbol, symbol = req.signal.symbol, symbol \in Symbols,
         SubmitReply(req).value.run.outcome.fill # None
  PROVE  req.signal.side = "Buy" => SeesBought(c, symbol, day)
<1> SUFFICES ASSUME req.signal.side = "Buy" PROVE SeesBought(c, symbol, day)
  OBVIOUS
<1>a. PICK book : book = LoadState(c).value
  OBVIOUS
<1>b. PICK fill : fill = SubmitReply(req).value.run.outcome.fill
  OBVIOUS
<1>c. PICK next : next = Afterwards(book, fill)
  OBVIOUS
<1>1. /\ LoadState(c)'.value = next
      /\ IsBook(book) /\ IsBook(next)
      /\ Trades(book, req, SubmitReply(req).value.run.evidence, next)
  BY <1>a, <1>b, <1>c, BookStep
<1>2. OpensLot(book, next, symbol, day)
  BY <1>1 DEF Trades
<1>3. HoldsSince(next, symbol, day) /\ \A other : other # symbol => SameLots(book, next, other)
  BY <1>1, <1>2, OpensLots
<1>4. /\ DayHeld(book, symbol) = 0 /\ DayHeld(next, symbol) = day
      /\ \A other : other # symbol => DayHeld(next, other) = DayHeld(book, other)
  BY <1>1, <1>2, <1>3, DayHeldIs, SameDayHeld DEF OpensLot
<1>5. /\ CashOf(c) = book.cash /\ CashOf(c)' = next.cash
      /\ BoughtOf(c) = [s \in Symbols |-> DayHeld(book, s)]
      /\ BoughtOf(c)' = [s \in Symbols |-> DayHeld(next, s)]
  BY <1>a, <1>1, BookSeen, DecisionSeen
<1>6. BoughtOf(c)' = [BoughtOf(c) EXCEPT ![symbol] = day]
  BY <1>4, <1>5
<1> QED
  BY <1>2, <1>4, <1>5, <1>6 DEF OpensLot, SeesBought

\* A sale, as the account sees it.
SeesSold(c, symbol, day) ==
  /\ BoughtOf(c)[symbol] # 0 /\ BoughtOf(c)[symbol] < day
  /\ BoughtOf(c)' = [BoughtOf(c) EXCEPT ![symbol] = 0]
  /\ \E proceeds \in Nat : CashOf(c)' = CashOf(c) + proceeds

\* What a decision that sells is to its account (portfolio.rs apply).
LEMMA SaleSeen ==
  ASSUME AccountCovers, BooksIInv, LotsAreDated, NEW req \in Requests, Submit(req),
         NEW c, c = req.cycle_id, NEW day, day = DayOf(req.decision_at),
         NEW symbol, symbol = req.signal.symbol, symbol \in Symbols,
         SubmitReply(req).value.run.outcome.fill # None
  PROVE  req.signal.side = "Sell" => SeesSold(c, symbol, day)
<1> SUFFICES ASSUME req.signal.side = "Sell" PROVE SeesSold(c, symbol, day)
  OBVIOUS
<1>a. PICK book : book = LoadState(c).value
  OBVIOUS
<1>b. PICK fill : fill = SubmitReply(req).value.run.outcome.fill
  OBVIOUS
<1>c. PICK next : next = Afterwards(book, fill)
  OBVIOUS
<1>1. /\ LoadState(c)'.value = next
      /\ IsBook(book) /\ IsBook(next)
      /\ Trades(book, req, SubmitReply(req).value.run.evidence, next)
  BY <1>a, <1>b, <1>c, BookStep
<1>2. Clears(book, next, symbol, day)
  BY <1>1 DEF Trades
<1>3. LotsOf(next, symbol) = {} /\ \A other : other # symbol => SameLots(book, next, other)
  BY <1>1, <1>2, ClearsLots
<1>4. /\ DayHeld(next, symbol) = 0
      /\ \A other : other # symbol => DayHeld(next, other) = DayHeld(book, other)
  BY <1>1, <1>3, DayHeldIs, SameDayHeld
<1>5. PICK i \in LotsOf(book, symbol) : book.lots[i].bought_on < day
  BY <1>2 DEF Clears
<1>6. DayHeld(book, symbol) = book.lots[i].bought_on
  BY <1>1, <1>5, DayHeldIs DEF HoldsSince
<1>7. book.lots[i].bought_on # 0
  <2>1. c \in DOMAIN experiments
    BY FreshSubmit DEF Submit
  <2> QED
    BY <2>1, <1>a, <1>5 DEF LotsAreDated, HoldsSince
<1>8. /\ CashOf(c) = book.cash /\ CashOf(c)' = next.cash
      /\ BoughtOf(c) = [s \in Symbols |-> DayHeld(book, s)]
      /\ BoughtOf(c)' = [s \in Symbols |-> DayHeld(next, s)]
  BY <1>a, <1>1, BookSeen, DecisionSeen
<1>9. BoughtOf(c)' = [BoughtOf(c) EXCEPT ![symbol] = 0]
  BY <1>4, <1>8
<1>10. \E proceeds \in Nat : next.cash = book.cash + proceeds
  <2>1. next.cash \in Nat /\ book.cash \in Nat /\ next.cash >= book.cash
    BY <1>1, <1>2 DEF Clears, IsBook
  <2>2. next.cash - book.cash \in Nat /\ next.cash = book.cash + (next.cash - book.cash)
    BY <2>1
  <2> QED
    BY <2>2
<1> QED
  BY <1>5, <1>6, <1>7, <1>8, <1>9, <1>10 DEF SeesSold

(***************************************************************************)
(* Quotes.                                                                 *)
(***************************************************************************)
\* Stored evidence shows the account a quote it speaks of.
LEMMA EvidenceSeen ==
  ASSUME AccountCovers, EvidenceIsImported, NEW q \in DOMAIN evidence
  PROVE  /\ q \in QuoteRefs
         /\ FactsOf(evidence[q]) \in [side : {"Buy", "Sell", "Neither"}, symbol : Symbols, day : Days]
<1>a. PICK ev : ev = evidence[q]
  OBVIOUS
<1>1. PICK input \in Imports : ImportValid(input) /\ q = QuoteRef(input.pack, input.quote)
                               /\ SameImport(ev, input)
  BY <1>a DEF EvidenceIsImported
<1>2. q \in QuoteRefs
  BY <1>1 DEF QuoteRefs
<1>3. ev.quote = input.quote /\ ev.execution = input.execution
  BY <1>1 DEF SameImport
<1>4. ev.quote.symbol \in Symbols /\ DayOf(ev.quote.observed_at) \in Days
  BY <1>1, <1>3 DEF AccountCovers
<1>5. ev.execution # None => ev.execution.side \in {"Buy", "Sell"}
  BY <1>3, ImportsAssumption DEF Sides
<1> QED
  BY <1>a, <1>2, <1>4, <1>5 DEF FactsOf

EvidenceIsSeen ==
  \A q \in DOMAIN evidence :
    /\ q \in QuoteRefs
    /\ FactsOf(evidence[q]) \in [side : {"Buy", "Sell", "Neither"}, symbol : Symbols, day : Days]

\* So does all of it.
LEMMA AllEvidenceSeen == AccountCovers /\ EvidenceIsImported => EvidenceIsSeen
BY EvidenceSeen DEF EvidenceIsSeen

\* A fill rests on a quote of its symbol, side and day.
LEMMA FillSeen ==
  ASSUME AccountCovers, BooksIInv, NEW req \in Requests, Submit(req),
         SubmitReply(req).value.run.outcome.fill # None, NEW q, q = req.quote_ref
  PROVE  /\ q \in QuoteRefs /\ q \in DOMAIN evidence
         /\ req.signal.symbol \in Symbols
         /\ FactsOf(evidence[q]).side = req.signal.side
         /\ FactsOf(evidence[q]).symbol = req.signal.symbol
         /\ FactsOf(evidence[q]).day = DayOf(req.decision_at)
<1> DEFINE ev == SubmitReply(req).value.run.evidence
           book == LoadState(req.cycle_id).value
           fill == SubmitReply(req).value.run.outcome.fill
<1>1. Trades(book, req, ev, Afterwards(book, fill))
  BY BookStep
<1>2. ev = StoredEvidence(q)
  BY FreshSubmit DEF Submit
<1> HIDE DEF ev, book, fill
<1>3. /\ ev # None /\ ev.execution # None /\ ev.quote.symbol = req.signal.symbol
      /\ ev.execution.side = req.signal.side
      /\ DayOf(ev.quote.observed_at) = DayOf(req.decision_at)
  BY <1>1 DEF Trades
<1>4. q \in DOMAIN evidence /\ ev = evidence[q]
  BY <1>2, <1>3 DEF StoredEvidence
<1>5. /\ FactsOf(ev).side = req.signal.side
      /\ FactsOf(ev).symbol = req.signal.symbol
      /\ FactsOf(ev).day = DayOf(req.decision_at)
  BY <1>3 DEF FactsOf
<1>6. q \in QuoteRefs /\ FactsOf(ev).symbol \in Symbols
  BY <1>4, EvidenceSeen DEF BooksIInv
<1> QED
  BY <1>4, <1>5, <1>6

(***************************************************************************)
(* The accounts of all experiments.                                        *)
(***************************************************************************)
Statuses == [c \in Cycles |-> StatusOf(c)]
Cashes == [c \in Cycles |-> CashOf(c)]
Positions == [c \in Cycles |-> BoughtOf(c)]
Clocks == [c \in Cycles |-> LastDay(c)]
Published == [q \in DOMAIN evidence |-> FactsOf(evidence[q])]
Uses == [c \in Cycles |-> UsesOf(c)]

\* A step that one account sees changes one row of each table.
LEMMA OneRow ==
  ASSUME NEW c \in Cycles, \A d \in Cycles : d # c => SameAccount(d)
  PROVE  /\ Statuses' = [Statuses EXCEPT ![c] = StatusOf(c)']
         /\ Cashes' = [Cashes EXCEPT ![c] = CashOf(c)']
         /\ Positions' = [Positions EXCEPT ![c] = BoughtOf(c)']
         /\ Clocks' = [Clocks EXCEPT ![c] = LastDay(c)']
         /\ Uses' = [Uses EXCEPT ![c] = UsesOf(c)']
<1>1. Statuses' = [Statuses EXCEPT ![c] = StatusOf(c)']
  BY DEF Statuses, SameAccount
<1>2. Cashes' = [Cashes EXCEPT ![c] = CashOf(c)']
  BY DEF Cashes, SameAccount
<1>3. Positions' = [Positions EXCEPT ![c] = BoughtOf(c)']
  BY DEF Positions, SameAccount
<1>4. Clocks' = [Clocks EXCEPT ![c] = LastDay(c)']
  BY DEF Clocks, SameAccount
<1>5. Uses' = [Uses EXCEPT ![c] = UsesOf(c)']
  BY DEF Uses, SameAccount
<1> QED
  BY <1>1, <1>2, <1>3, <1>4, <1>5

\* One that no account sees changes nothing.
LEMMA NoRow ==
  ASSUME \A c \in Cycles : SameAccount(c)
  PROVE  UNCHANGED <<Statuses, Cashes, Positions, Clocks, Uses>>
BY DEF Statuses, Cashes, Positions, Clocks, Uses, SameAccount

\* What is not changed of a row leaves the table as it was.
LEMMA SameRow ==
  ASSUME NEW X, NEW f, f = [x \in X |-> f[x]], NEW c \in X, NEW v, v = f[c]
  PROVE  [f EXCEPT ![c] = v] = f
OBVIOUS

\* A change of one cell of one row.
LEMMA OneCell ==
  ASSUME NEW X, NEW f, f = [x \in X |-> f[x]], NEW c \in X, NEW y, NEW v
  PROVE  [f EXCEPT ![c] = [f[c] EXCEPT ![y] = v]] = [f EXCEPT ![c][y] = v]
OBVIOUS

\* A decision is not seen by other accounts.
LEMMA OthersUnseen ==
  ASSUME BooksIInv, NEW req \in Requests, Submit(req), NEW d, d # req.cycle_id
  PROVE  SameAccount(d)
<1>a. PICK n : n = NextRun
  OBVIOUS
<1>0. IInv
  BY DEF BooksIInv
<1>1. /\ \A i \in DOMAIN runs : runs'[i] = runs[i] /\ i \in DOMAIN runs'
      /\ \A i \in DOMAIN runs' : i \in DOMAIN runs \/ i = n
      /\ runs'[n].request = req
  BY <1>0, <1>a, NewRun
<1>2. OwnRuns(d)' = OwnRuns(d) /\ \A i \in OwnRuns(d) : runs'[i] = runs[i]
  BY <1>1 DEF OwnRuns
<1>3. experiments' = experiments
  BY DEF Submit
<1>4. Opened(d) => LoadState(d)' = LoadState(d)
  BY OtherBooksAgree DEF Opened
<1>5. Opened(d)' <=> Opened(d)
  BY <1>3 DEF Opened
<1> QED
  BY <1>0, <1>2, <1>3, <1>4, <1>5, Unseen

\* Nor is a step that decides nothing, unless it opens or completes the account.
LEMMA QuietUnseen ==
  ASSUME BooksIInv, [Next]_vars, runs' = runs, fills' = fills, NEW d,
         Opened(d)' <=> Opened(d), Opened(d) => experiments'[d].status = experiments[d].status
  PROVE  SameAccount(d)
<1>1. OwnRuns(d)' = OwnRuns(d) /\ \A i \in OwnRuns(d) : runs'[i] = runs[i]
  BY DEF OwnRuns
<1>2. Opened(d) => LoadState(d)' = LoadState(d)
  BY BooksStay DEF Opened
<1> QED
  BY <1>1, <1>2, Unseen DEF BooksIInv

IAvars == <<Statuses, Cashes, Positions, Clocks, Published, Uses>>

\* A decision is a decision of its account, or of none the account speaks of.
LEMMA SubmitStep ==
  ASSUME AccountCovers, BooksIInv, LotsAreDated, NEW req \in Requests, Submit(req)
  PROVE  [ImplementedAccount!Next]_IAvars
<1>a. PICK c : c = req.cycle_id
  OBVIOUS
<1>b. PICK day : day = DayOf(req.decision_at)
  OBVIOUS
<1>c. PICK fill : fill = SubmitReply(req).value.run.outcome.fill
  OBVIOUS
<1>d. PICK q : q = req.quote_ref
  OBVIOUS
<1>e. PICK s : s = req.signal.symbol
  OBVIOUS
<1>1. \A d : d # c => SameAccount(d)
  BY <1>a, OthersUnseen
<1>2. Published' = Published
  BY DEF Published, Submit
<1>3. CASE c \notin Cycles
  <2>1. UNCHANGED <<Statuses, Cashes, Positions, Clocks, Uses>>
    BY <1>1, <1>3, NoRow
  <2> QED
    BY <1>2, <2>1 DEF IAvars
<1>4. CASE c \in Cycles
  <2>1. /\ Statuses' = [Statuses EXCEPT ![c] = StatusOf(c)']
        /\ Cashes' = [Cashes EXCEPT ![c] = CashOf(c)']
        /\ Positions' = [Positions EXCEPT ![c] = BoughtOf(c)']
        /\ Clocks' = [Clocks EXCEPT ![c] = LastDay(c)']
        /\ Uses' = [Uses EXCEPT ![c] = UsesOf(c)']
    BY <1>1, <1>4, OneRow
  <2>2. /\ Statuses[c] = StatusOf(c) /\ Cashes[c] = CashOf(c) /\ Positions[c] = BoughtOf(c)
        /\ Clocks[c] = LastDay(c) /\ Uses[c] = UsesOf(c)
    BY <1>4 DEF Statuses, Cashes, Positions, Clocks, Uses
  <2>3. /\ Statuses = [x \in Cycles |-> Statuses[x]] /\ Cashes = [x \in Cycles |-> Cashes[x]]
        /\ Positions = [x \in Cycles |-> Positions[x]] /\ Uses = [x \in Cycles |-> Uses[x]]
    BY DEF Statuses, Cashes, Positions, Uses
  <2>4. /\ Opened(c) /\ Opened(c)'
        /\ StatusOf(c) = "active" /\ StatusOf(c)' = StatusOf(c)
        /\ LastDay(c) <= day /\ LastDay(c)' = day
    BY <1>a, <1>b, DecisionSeen
  <2>5. Statuses' = Statuses
    BY <1>4, <2>1, <2>2, <2>3, <2>4, SameRow
  <2>6. ImplementedAccount!Decided(c, day)
    <3>1. /\ Statuses' = Statuses /\ Published' = Published
          /\ Statuses[c] = "active" /\ Clocks[c] <= day
          /\ Clocks' = [Clocks EXCEPT ![c] = day]
      BY <1>2, <2>1, <2>2, <2>4, <2>5
    <3> QED
      BY <3>1 DEF ImplementedAccount!Decided, Statuses, StatusOf, Published, Clocks
  <2>7. day \in Days
    BY <1>b, DecisionDay
  <2>8. CASE fill = None
    <3>1. LoadState(c)'.value = LoadState(c).value
      BY <1>a, <1>c, <2>8, BookStep DEF Afterwards
    <3>2. CashOf(c)' = CashOf(c) /\ BoughtOf(c)' = BoughtOf(c)
      BY <2>4, <3>1, BookSeen
    <3>3. UsesOf(c)' = UsesOf(c)
      BY <1>a, <1>c, <2>8, QuoteUse
    <3>4. Cashes' = Cashes /\ Positions' = Positions /\ Uses' = Uses
      BY <1>4, <2>1, <2>2, <2>3, <3>2, <3>3, SameRow
    <3>5. ImplementedAccount!Refuse
      BY <3>4 DEF ImplementedAccount!Refuse, Cashes, CashOf, Positions, BoughtOf, Uses, UsesOf, UsedFor
    <3> QED
      BY <1>4, <2>6, <2>7, <3>5 DEF ImplementedAccount!Next
  <2>9. CASE fill # None
    <3>1. /\ q \in QuoteRefs /\ q \in DOMAIN evidence /\ s \in Symbols
          /\ q \in DOMAIN Published
          /\ Published[q].side = req.signal.side
          /\ Published[q].symbol = s /\ Published[q].day = day
      <4>1. /\ q \in QuoteRefs /\ q \in DOMAIN evidence /\ s \in Symbols
            /\ FactsOf(evidence[q]).side = req.signal.side
            /\ FactsOf(evidence[q]).symbol = s /\ FactsOf(evidence[q]).day = day
        BY <1>b, <1>c, <1>d, <1>e, <2>9, FillSeen
      <4> QED
        BY <4>1 DEF Published
    <3>2. Uses' = [Uses EXCEPT ![c][q] = @ + 1]
      <4>1. UsesOf(c)' = [UsesOf(c) EXCEPT ![q] = @ + 1]
        BY <1>a, <1>c, <1>d, <2>9, <3>1, QuoteUse
      <4>2. UsesOf(c)' = [Uses[c] EXCEPT ![q] = Uses[c][q] + 1]
        BY <2>2, <4>1
      <4> QED
        BY <1>4, <2>1, <2>3, <4>2, OneCell
    <3>3. CASE req.signal.side = "Buy"
      <4>1. /\ BoughtOf(c)[s] = 0
            /\ BoughtOf(c)' = [BoughtOf(c) EXCEPT ![s] = day]
            /\ \E cost \in Nat \ {0} : 10 * cost <= CashOf(c) /\ CashOf(c)' = CashOf(c) - cost
        <5>1. SeesBought(c, s, day)
          BY <1>a, <1>b, <1>c, <1>e, <2>9, <3>1, <3>3, PurchaseSeen
        <5> QED
          BY <5>1 DEF SeesBought
      <4>2. Positions' = [Positions EXCEPT ![c][s] = day]
        BY <1>4, <2>1, <2>2, <2>3, <4>1, OneCell
      <4>3. PICK cost \in Nat \ {0} : 10 * cost <= Cashes[c] /\ Cashes' = [Cashes EXCEPT ![c] = @ - cost]
        BY <2>1, <2>2, <4>1
      <4>4. cost \in Amounts /\ cost > 0 /\ Positions[c][s] = 0
        <5>1. cost \in Nat /\ cost > 0
          OBVIOUS
        <5>2. cost \in Amounts
          BY <5>1 DEF AccountCovers
        <5> QED
          BY <2>2, <4>1, <5>1, <5>2
      <4>5. ImplementedAccount!Buy(c, q, day)
        BY <3>1, <3>2, <3>3, <4>2, <4>3, <4>4
           DEF ImplementedAccount!Buy, ImplementedAccount!Supports, ImplementedAccount!MayBuy,
               ImplementedAccount!Affordable, Published, Cashes, CashOf, Positions, BoughtOf,
               Uses, UsesOf, UsedFor
      <4> QED
        BY <1>4, <2>6, <2>7, <3>1, <4>5 DEF ImplementedAccount!Next
    <3>4. CASE req.signal.side = "Sell"
      <4>1. /\ BoughtOf(c)[s] # 0 /\ BoughtOf(c)[s] < day
            /\ BoughtOf(c)' = [BoughtOf(c) EXCEPT ![s] = 0]
            /\ \E proceeds \in Nat : CashOf(c)' = CashOf(c) + proceeds
        <5>1. SeesSold(c, s, day)
          BY <1>a, <1>b, <1>c, <1>e, <2>9, <3>1, <3>4, SaleSeen
        <5> QED
          BY <5>1 DEF SeesSold
      <4>2. Positions' = [Positions EXCEPT ![c][s] = 0]
        BY <1>4, <2>1, <2>2, <2>3, <4>1, OneCell
      <4>3. PICK proceeds \in Nat : Cashes' = [Cashes EXCEPT ![c] = @ + proceeds]
        BY <2>1, <2>2, <4>1
      <4>4. proceeds \in Amounts /\ Positions[c][s] # 0 /\ Positions[c][s] < day
        BY <2>2, <4>1 DEF AccountCovers
      <4>5. ImplementedAccount!Sell(c, q, day)
        BY <3>1, <3>2, <3>4, <4>2, <4>3, <4>4
           DEF ImplementedAccount!Sell, ImplementedAccount!Supports, ImplementedAccount!MaySell,
               Published, Cashes, CashOf, Positions, BoughtOf, Uses, UsesOf, UsedFor
      <4> QED
        BY <1>4, <2>6, <2>7, <3>1, <4>5 DEF ImplementedAccount!Next
    <3> QED
      BY <3>3, <3>4, RequestsAssumption DEF Sides
  <2> QED
    BY <2>8, <2>9
<1> QED
  BY <1>3, <1>4

\* A creation opens its account with the cash of the specification.
LEMMA CreateStep ==
  ASSUME AccountCovers, BooksIInv, NEW spec \in Specs, CreateExperiment(spec)
  PROVE  [ImplementedAccount!Next]_IAvars
<1>a. PICK c : c = spec.cycle_id
  OBVIOUS
<1>b. PICK amount : amount = spec.initial_cash
  OBVIOUS
<1>0. IInv /\ [Next]_vars /\ runs' = runs /\ fills' = fills /\ evidence' = evidence
  BY DEF CreateExperiment, BooksIInv, Next
<1>1. /\ c \notin DOMAIN experiments
      /\ experiments' = Put(experiments, c, [spec |-> spec, status |-> "active",
                                             manifest |-> Catalogue[spec.pack].pack_id])
      /\ amount > 0 /\ amount \in Int
  BY <1>a, <1>b, SpecsAssumption DEF CreateExperiment, SpecValid
<1>2. /\ ~Opened(c) /\ Opened(c)' /\ experiments'[c].status = "active"
      /\ \A d : d # c => /\ Opened(d)' <=> Opened(d)
                         /\ Opened(d) => experiments'[d].status = experiments[d].status
  BY <1>1 DEF Opened, Put
<1>3. \A d : d # c => SameAccount(d)
  BY <1>0, <1>2, QuietUnseen
<1>4. Published' = Published
  BY <1>0 DEF Published
<1>5. CASE c \notin Cycles
  <2>1. UNCHANGED <<Statuses, Cashes, Positions, Clocks, Uses>>
    BY <1>3, <1>5, NoRow
  <2> QED
    BY <1>4, <2>1 DEF IAvars
<1>6. CASE c \in Cycles
  <2>1. /\ Statuses' = [Statuses EXCEPT ![c] = StatusOf(c)']
        /\ Cashes' = [Cashes EXCEPT ![c] = CashOf(c)']
        /\ Positions' = [Positions EXCEPT ![c] = BoughtOf(c)']
        /\ Clocks' = [Clocks EXCEPT ![c] = LastDay(c)']
        /\ Uses' = [Uses EXCEPT ![c] = UsesOf(c)']
    BY <1>3, <1>6, OneRow
  <2>2. /\ Statuses[c] = StatusOf(c) /\ Positions[c] = BoughtOf(c)
        /\ Clocks[c] = LastDay(c) /\ Uses[c] = UsesOf(c)
    BY <1>6 DEF Statuses, Positions, Clocks, Uses
  <2>3. /\ Positions = [x \in Cycles |-> Positions[x]]
        /\ Clocks = [x \in Cycles |-> Clocks[x]] /\ Uses = [x \in Cycles |-> Uses[x]]
    BY DEF Positions, Clocks, Uses
  <2>4. StatusOf(c) = "absent" /\ StatusOf(c)' = "active"
    BY <1>2 DEF StatusOf
  <2>5. LoadState(c)'.value = NewPortfolio(amount)
    <3>1. BookAgrees(c)' /\ Replayed(c)'.state = NewPortfolio(amount)
      BY <1>a, <1>b, NewBookAgrees
    <3>2. LoadState(c)' = Ok(NewPortfolio(amount))
      BY <3>1 DEF BookAgrees, EndsAsRecorded
    <3> QED
      BY <3>2, Results
  <2>6. CashOf(c)' = amount
    BY <1>2, <2>5 DEF CashOf, NewPortfolio
  <2>7. BoughtOf(c)' = BoughtOf(c)
    <3>1. BoughtOf(c)' = [s \in Symbols |-> DayHeld(LoadState(c)'.value, s)]
      BY <1>2, BookSeen
    <3>2. \A s : DayHeld(LoadState(c)'.value, s) = 0
      <4>1. LoadState(c)'.value.lots = <<>>
        BY <2>5 DEF NewPortfolio
      <4>2. \A s : LotsOf(LoadState(c)'.value, s) = {}
        BY <4>1 DEF LotsOf
      <4> QED
        BY <4>2 DEF DayHeld
    <3>3. BoughtOf(c) = [s \in Symbols |-> 0]
      BY <1>2 DEF BoughtOf
    <3> QED
      BY <3>1, <3>2, <3>3
  <2>8. LastDay(c)' = LastDay(c) /\ UsesOf(c)' = UsesOf(c)
    <3>1. OwnRuns(c)' = OwnRuns(c) /\ OwnRuns(c) = {}
      BY <1>0, <1>2 DEF OwnRuns, Opened, IInv, RunsStillOwned, RunStillOwned
    <3>2. \A q : UsedFor(c, q)' = {} /\ UsedFor(c, q) = {}
      BY <3>1 DEF UsedFor, FilledRuns
    <3> QED
      BY <3>1, <3>2 DEF LastDay, UsesOf
  <2>9. Positions' = Positions /\ Clocks' = Clocks /\ Uses' = Uses
    BY <1>6, <2>1, <2>2, <2>3, <2>7, <2>8, SameRow
  <2>10. amount \in Amounts
    <3>1. amount \in Nat
      BY <1>1
    <3> QED
      BY <3>1 DEF AccountCovers
  <2>11. /\ Statuses[c] = "absent" /\ Statuses' = [Statuses EXCEPT ![c] = "active"]
         /\ Cashes' = [Cashes EXCEPT ![c] = amount]
    BY <2>1, <2>2, <2>4, <2>6
  <2>12. ImplementedAccount!Open(c, amount)
    BY <1>1, <1>4, <2>9, <2>11
       DEF ImplementedAccount!Open, Statuses, StatusOf, Cashes, CashOf, Positions, BoughtOf,
           Clocks, Published, Uses, UsesOf, UsedFor
  <2> QED
    BY <1>6, <2>10, <2>12 DEF ImplementedAccount!Next
<1> QED
  BY <1>5, <1>6

\* A completion completes its account, the first time.
LEMMA CompleteStep ==
  ASSUME BooksIInv, NEW c \in DOMAIN experiments, CompleteExperiment(c)
  PROVE  [ImplementedAccount!Next]_IAvars
<1>0. [Next]_vars /\ runs' = runs /\ fills' = fills /\ evidence' = evidence
  BY DEF CompleteExperiment, Next
<1>1. experiments' = [experiments EXCEPT ![c].status = "completed"]
  BY DEF CompleteExperiment
<1>2. /\ \A d : Opened(d)' <=> Opened(d)
      /\ \A d : d # c /\ Opened(d) => experiments'[d].status = experiments[d].status
  BY <1>1 DEF Opened
<1>3. Opened(c) /\ experiments'[c].status = "completed"
  <2> DEFINE Manifests == {Catalogue[id].pack_id : id \in DOMAIN Catalogue}
  <2>1. experiments[c] \in [spec : Specs, status : {"active", "completed"}, manifest : Manifests]
    BY DEF BooksIInv, IInv, TypeOK
  <2> HIDE DEF Manifests
  <2> QED
    BY <1>1, <2>1 DEF Opened
<1>4. experiments[c].status \in {"active", "completed"}
  BY DEF BooksIInv, IInv, TypeOK
<1>5. \A d : d # c => SameAccount(d)
  BY <1>0, <1>2, QuietUnseen
<1>6. Published' = Published
  BY <1>0 DEF Published
<1>7. CASE c \notin Cycles \/ experiments[c].status = "completed"
  <2>1. \A d \in Cycles : SameAccount(d)
    <3>1. experiments[c].status = "completed" => SameAccount(c)
      BY <1>0, <1>2, <1>3, QuietUnseen
    <3> QED
      BY <1>5, <1>7, <3>1
  <2>2. UNCHANGED <<Statuses, Cashes, Positions, Clocks, Uses>>
    BY <2>1, NoRow
  <2> QED
    BY <1>6, <2>2 DEF IAvars
<1>8. CASE c \in Cycles /\ experiments[c].status = "active"
  <2>1. /\ Statuses' = [Statuses EXCEPT ![c] = StatusOf(c)']
        /\ Cashes' = [Cashes EXCEPT ![c] = CashOf(c)']
        /\ Positions' = [Positions EXCEPT ![c] = BoughtOf(c)']
        /\ Clocks' = [Clocks EXCEPT ![c] = LastDay(c)']
        /\ Uses' = [Uses EXCEPT ![c] = UsesOf(c)']
    BY <1>5, <1>8, OneRow
  <2>2. /\ Statuses[c] = StatusOf(c) /\ Cashes[c] = CashOf(c) /\ Positions[c] = BoughtOf(c)
        /\ Clocks[c] = LastDay(c) /\ Uses[c] = UsesOf(c)
    BY <1>8 DEF Statuses, Cashes, Positions, Clocks, Uses
  <2>3. /\ Cashes = [x \in Cycles |-> Cashes[x]] /\ Positions = [x \in Cycles |-> Positions[x]]
        /\ Clocks = [x \in Cycles |-> Clocks[x]] /\ Uses = [x \in Cycles |-> Uses[x]]
    BY DEF Cashes, Positions, Clocks, Uses
  <2>4. StatusOf(c) = "active" /\ StatusOf(c)' = "completed"
    BY <1>2, <1>3, <1>8 DEF StatusOf
  <2>5. OwnRuns(c)' = OwnRuns(c) /\ LoadState(c)' = LoadState(c)
    BY <1>0, BooksStay
  <2>6. CashOf(c)' = CashOf(c) /\ BoughtOf(c)' = BoughtOf(c)
    BY <1>2, <1>3, <2>5, BookSeen
  <2>7. LastDay(c)' = LastDay(c)
    BY <1>0, <2>5 DEF LastDay
  <2>8. UsesOf(c)' = UsesOf(c)
    BY <1>0, <2>5 DEF UsesOf, UsedFor, FilledRuns
  <2>9. Cashes' = Cashes /\ Positions' = Positions /\ Clocks' = Clocks /\ Uses' = Uses
    BY <1>8, <2>1, <2>2, <2>3, <2>6, <2>7, <2>8, SameRow
  <2>10. Statuses[c] = "active" /\ Statuses' = [Statuses EXCEPT ![c] = "completed"]
    BY <2>1, <2>2, <2>4
  <2>11. ImplementedAccount!Complete(c)
    BY <1>6, <2>9, <2>10
       DEF ImplementedAccount!Complete, Statuses, StatusOf, Cashes, CashOf, Positions, BoughtOf,
           Clocks, Published, Uses, UsesOf, UsedFor
  <2> QED
    BY <1>8, <2>11 DEF ImplementedAccount!Next
<1> QED
  BY <1>4, <1>7, <1>8

\* An import that is new is published.
LEMMA IngestStep ==
  ASSUME AccountCovers, BooksIInv, NEW input \in Imports, NEW now \in Receipts,
         IngestQuote(input, now)
  PROVE  [ImplementedAccount!Next]_IAvars
<1>a. PICK q : q = QuoteRef(input.pack, input.quote)
  OBVIOUS
<1>b. PICK ev : ev = EvidenceFrom(input, now)
  OBVIOUS
<1>0. [Next]_vars /\ runs' = runs /\ fills' = fills /\ experiments' = experiments
  BY DEF IngestQuote, Next
<1>1. q \notin DOMAIN evidence /\ evidence' = Put(evidence, q, ev)
  BY <1>a, <1>b, FreshImport DEF IngestQuote
<1>2. EvidenceIsImported'
  BY <1>0, EvidenceStaysImported
<1>3. q \in DOMAIN evidence' /\ evidence'[q] = ev
  BY <1>1 DEF Put
<1>4. q \in QuoteRefs /\ FactsOf(ev) \in ImplementedAccount!Facts
  <2>1. (AccountCovers /\ EvidenceIsImported => EvidenceIsSeen)'
    BY AllEvidenceSeen, PTL
  <2>2. EvidenceIsSeen'
    BY <1>2, <2>1 DEF AccountCovers
  <2> QED
    BY <1>3, <2>2 DEF EvidenceIsSeen, ImplementedAccount!Facts
<1>5. UNCHANGED <<Statuses, Cashes, Positions, Clocks, Uses>>
  BY <1>0, QuietUnseen, NoRow DEF Opened
<1>6. q \notin DOMAIN Published
  BY <1>1 DEF Published
<1>7. Published' = [p \in DOMAIN Published \cup {q} |-> IF p = q THEN FactsOf(ev) ELSE Published[p]]
  BY <1>1 DEF Published, Put
<1>8. ImplementedAccount!Publish(q, FactsOf(ev))
  BY <1>5, <1>6, <1>7
     DEF ImplementedAccount!Publish, Statuses, StatusOf, Cashes, CashOf, Positions, BoughtOf,
         Clocks, Published, Uses, UsesOf, UsedFor
<1> QED
  BY <1>4, <1>8 DEF ImplementedAccount!Next

\* Every step of the ledger is a step of the accounts, or none.
LEMMA StepMaps ==
  ASSUME AccountCovers, BooksIInv, LotsAreDated, [Next]_vars
  PROVE  [ImplementedAccount!Next]_IAvars
<1>1. ASSUME NEW id \in DOMAIN Catalogue, RegisterReviewedPack(id)
      PROVE  [ImplementedAccount!Next]_IAvars
  <2>1. /\ runs' = runs /\ fills' = fills /\ evidence' = evidence /\ experiments' = experiments
    BY <1>1 DEF RegisterReviewedPack
  <2>2. \A c \in Cycles : SameAccount(c)
    BY <2>1, QuietUnseen DEF Opened
  <2>3. UNCHANGED <<Statuses, Cashes, Positions, Clocks, Uses>>
    BY <2>2, NoRow
  <2> QED
    BY <2>1, <2>3 DEF IAvars, Published
<1>2. CASE UNCHANGED vars
  <2>1. /\ runs' = runs /\ fills' = fills /\ evidence' = evidence /\ experiments' = experiments
    BY <1>2 DEF vars
  <2>2. \A c \in Cycles : SameAccount(c)
    BY <2>1, QuietUnseen DEF Opened
  <2>3. UNCHANGED <<Statuses, Cashes, Positions, Clocks, Uses>>
    BY <2>2, NoRow
  <2> QED
    BY <2>1, <2>3 DEF IAvars, Published
<1> QED
  BY <1>1, <1>2, CreateStep, CompleteStep, IngestStep, SubmitStep DEF Next

\* The ledger starts with no account opened and nothing published.
LEMMA InitMaps == Init => ImplementedAccount!Init
<1> SUFFICES ASSUME Init PROVE ImplementedAccount!Init
  OBVIOUS
<1>1. DOMAIN experiments = {} /\ DOMAIN evidence = {} /\ DOMAIN runs = {}
  <2>1. DOMAIN <<>> = {}
    OBVIOUS
  <2> QED
    BY <2>1 DEF Init
<1>2. \A c : ~Opened(c) /\ LastDay(c) = 0
  BY <1>1 DEF Opened, LastDay, OwnRuns
<1>3. Statuses = [c \in Cycles |-> "absent"] /\ Cashes = [c \in Cycles |-> 0]
  BY <1>2 DEF Statuses, StatusOf, Cashes, CashOf
<1>4. Positions = [c \in Cycles |-> [s \in Symbols |-> 0]]
  BY <1>2 DEF Positions, BoughtOf
<1>5. Clocks = [c \in Cycles |-> 0]
  BY <1>2 DEF Clocks
<1>6. Published = [q \in {} |-> 0]
  BY <1>1 DEF Published
<1>7. Uses = [c \in Cycles |-> [q \in QuoteRefs |-> 0]]
  <2>1. \A c, q : UsedFor(c, q) = {}
    BY <1>1 DEF UsedFor, FilledRuns, OwnRuns
  <2>2. Cardinality({}) = 0
    BY FS_EmptySet
  <2>3. \A c, q : Cardinality(UsedFor(c, q)) = 0
    BY <2>1, <2>2
  <2> QED
    BY <2>3 DEF Uses, UsesOf
<1> QED
  BY <1>3, <1>4, <1>5, <1>6, <1>7
     DEF ImplementedAccount!Init, Statuses, StatusOf, Cashes, CashOf, Positions, BoughtOf,
         Clocks, Published, Uses, UsesOf, UsedFor

\* The ledger starts without lots.
LEMMA InitDated == Init => LotsAreDated
<1>1. DOMAIN <<>> = {}
  OBVIOUS
<1> QED
  BY <1>1 DEF Init, LotsAreDated

\* Every experiment is an account: whatever the ledger does, each of its cash,
\* lots, clock and the quotes it used up change as Account allows, so that what
\* is proved of the account holds of the ledger (store/mod.rs submit).
THEOREM LedgerImplementsAccount == AccountCovers => (Spec => ImplementsAccount)
<1> SUFFICES ASSUME AccountCovers PROVE Spec => ImplementsAccount
  OBVIOUS
<1>1. BooksIInv /\ LotsAreDated /\ [Next]_vars => LotsAreDated'
  BY LotsStayDated
<1>2. BooksIInv /\ LotsAreDated /\ [Next]_vars => [ImplementedAccount!Next]_(ImplementedAccount!vars)
  <2> SUFFICES ASSUME BooksIInv, LotsAreDated, [Next]_vars
               PROVE  [ImplementedAccount!Next]_(ImplementedAccount!vars)
    OBVIOUS
  <2>1. [ImplementedAccount!Next]_IAvars
    BY StepMaps
  <2> QED
    BY <2>1
       DEF ImplementedAccount!vars, IAvars, Statuses, StatusOf, Cashes, CashOf, Positions, BoughtOf,
           Clocks, Published, Uses, UsesOf, UsedFor
<1> QED
  BY <1>1, <1>2, InitDated, InitMaps, BooksInvariant, PTL
     DEF Spec, ImplementsAccount, ImplementedAccount!Spec

(***************************************************************************)
(* What is proved of the account, for the ledger.                          *)
(***************************************************************************)
AccountTheorems == INSTANCE Account_proofs WITH
  Quotes <- QuoteRefs,
  status <- Statuses, cash <- Cashes, bought <- Positions,
  today  <- Clocks, facts <- Published, uses <- Uses

\* The account of the theorems is the account implemented.
LEMMA SameSpec == ImplementedAccount!Spec => AccountTheorems!Spec
<1> USE DEF Statuses, StatusOf, Cashes, CashOf, Positions, BoughtOf, Clocks, Published, Uses,
            UsesOf, UsedFor
<1>1. ImplementedAccount!Init => AccountTheorems!Init
  BY DEF ImplementedAccount!Init, AccountTheorems!Init
<1>2. UNCHANGED ImplementedAccount!vars => UNCHANGED AccountTheorems!vars
  BY DEF ImplementedAccount!vars, AccountTheorems!vars
<1>3. ImplementedAccount!Facts = AccountTheorems!Facts
  BY DEF ImplementedAccount!Facts, AccountTheorems!Facts
<1>4. \A q, f : ImplementedAccount!Publish(q, f) => AccountTheorems!Publish(q, f)
  BY DEF ImplementedAccount!Publish, AccountTheorems!Publish
<1>5. \A c, amount : ImplementedAccount!Open(c, amount) => AccountTheorems!Open(c, amount)
  BY DEF ImplementedAccount!Open, AccountTheorems!Open
<1>6. \A c : ImplementedAccount!Complete(c) => AccountTheorems!Complete(c)
  BY DEF ImplementedAccount!Complete, AccountTheorems!Complete
<1>7. \A c, day : ImplementedAccount!Decided(c, day) => AccountTheorems!Decided(c, day)
  BY DEF ImplementedAccount!Decided, AccountTheorems!Decided
<1>8. ImplementedAccount!Refuse => AccountTheorems!Refuse
  BY DEF ImplementedAccount!Refuse, AccountTheorems!Refuse
<1>9. \A c, q, day : ImplementedAccount!Buy(c, q, day) => AccountTheorems!Buy(c, q, day)
  BY ZenonT(40) DEF ImplementedAccount!Buy, AccountTheorems!Buy, ImplementedAccount!Supports,
         AccountTheorems!Supports, ImplementedAccount!MayBuy, AccountTheorems!MayBuy,
         ImplementedAccount!Affordable, AccountTheorems!Affordable
<1>10. \A c, q, day : ImplementedAccount!Sell(c, q, day) => AccountTheorems!Sell(c, q, day)
  BY ZenonT(40) DEF ImplementedAccount!Sell, AccountTheorems!Sell, ImplementedAccount!Supports,
         AccountTheorems!Supports, ImplementedAccount!MaySell, AccountTheorems!MaySell
<1>11. ImplementedAccount!Next => AccountTheorems!Next
  BY <1>3, <1>4, <1>5, <1>6, <1>7, <1>8, <1>9, <1>10, Zenon
     DEF ImplementedAccount!Next, AccountTheorems!Next
<1>12. [ImplementedAccount!Next]_(ImplementedAccount!vars)
         => [AccountTheorems!Next]_(AccountTheorems!vars)
  BY <1>2, <1>11
<1> HIDE DEF Statuses, StatusOf, Cashes, CashOf, Positions, BoughtOf, Clocks, Published, Uses,
             UsesOf, UsedFor
<1> QED
  BY <1>1, <1>12, PTL DEF ImplementedAccount!Spec, AccountTheorems!Spec

\* T+1: no lot leaves the book of an experiment on the day it entered, and no
\* experiment's clock goes back (portfolio.rs sellable_quantity, apply).
THEOREM LotsWaitInTheLedger == AccountCovers => (Spec => AccountTheorems!NoDayTrade)
<1>1. AccountCovers => Amounts \subseteq Nat
  BY DEF AccountCovers
<1>2. AccountCovers => (AccountTheorems!Spec => AccountTheorems!NoDayTrade)
  BY <1>1, AccountTheorems!LotsWaitADay, DaysAreNumbered
<1> QED
  BY <1>2, LedgerImplementsAccount, SameSpec, PTL DEF ImplementsAccount

SolventBooks == \A c \in Cycles : Opened(c) => LoadState(c).value.cash > 0

\* No experiment ever runs out of cash: a tenth at a time never empties it and
\* no sale costs money (execution.rs, the budget; portfolio.rs apply).
THEOREM ExperimentsStaySolvent == AccountCovers => (Spec => []SolventBooks)
<1>1. AccountCovers => Amounts \subseteq Nat
  BY DEF AccountCovers
<1>2. AccountCovers => (AccountTheorems!Spec => []AccountTheorems!Solvent)
  BY <1>1, AccountTheorems!AccountsStaySolvent, DaysAreNumbered
<1>3. IInv /\ AccountTheorems!Solvent => SolventBooks
  <2> SUFFICES ASSUME IInv, AccountTheorems!Solvent, NEW c \in Cycles, Opened(c)
               PROVE  LoadState(c).value.cash > 0
    BY DEF SolventBooks
  <2>1. experiments[c].status \in {"active", "completed"}
    BY DEF IInv, TypeOK, Opened
  <2>2. Statuses[c] # "absent" /\ Cashes[c] = LoadState(c).value.cash
    BY <2>1 DEF Statuses, StatusOf, Cashes, CashOf
  <2>3. Statuses[c] # "absent" => Cashes[c] > 0
    BY DEF AccountTheorems!Solvent
  <2> QED
    BY <2>2, <2>3
<1> QED
  BY <1>2, <1>3, LedgerInvariant, LedgerImplementsAccount, SameSpec, PTL DEF ImplementsAccount

(***************************************************************************)
(* An experiment alone in the file.                                        *)
(***************************************************************************)
\* The rules of accounting do not look at the file.
LEMMA AloneApplies ==
  ASSUME NEW c, NEW state, NEW fill
  PROVE  Alone(c)!Apply(state, fill) = Apply(state, fill)
BY DEF Alone!Apply, Apply, Alone!ApplyBuy, ApplyBuy, Alone!ApplySell, ApplySell,
   Alone!Err, Err, Alone!Ok, Ok, Alone!Overflows, Overflows, Alone!BuyTotal, BuyTotal,
   Alone!LotSize, LotSize, Alone!Sellable, Sellable, Alone!LotsOf, LotsOf,
   Alone!SellableQuantity, SellableQuantity, Alone!Units, Units,
   Alone!AfterSelling, AfterSelling, Alone!Remaining, Remaining, Alone!Retain, Retain,
   Alone!Taken, Taken, Alone!Demand, Demand, Alone!Larger, Larger, Alone!Smaller, Smaller

\* The rules of a decision do not look at the file.
LEMMA AloneDecides ==
  ASSUME NEW c, NEW state, NEW req, NEW ev, NEW pack
  PROVE  Alone(c)!Decide(state, req, ev, pack) = Decide(state, req, ev, pack)
<1>1. Alone(c)!PackValid(pack) = PackValid(pack)
  BY DEF Alone!PackValid, PackValid, Alone!CalendarValid, CalendarValid,
     Alone!SessionsValid, SessionsValid, Alone!InstrumentsValid, InstrumentsValid,
     Alone!QuantityRuleVersion, QuantityRuleVersion
<1>2. Alone(c)!RequestError(req) = RequestError(req)
  BY DEF Alone!RequestError, RequestError, Alone!FirstReason, FirstReason, Alone!When, When,
     Alone!IsTimestamp, IsTimestamp
<1>3. Alone(c)!EvidenceError(req, ev) = EvidenceError(req, ev)
  BY DEF Alone!EvidenceError, EvidenceError, Alone!FirstReason, FirstReason, Alone!When, When,
     Alone!IsTimestamp, IsTimestamp, Alone!EvidenceValid, EvidenceValid,
     Alone!FixtureQuoteValid, FixtureQuoteValid, Alone!LevelValid, LevelValid,
     Alone!FixtureSource, FixtureSource, Alone!QuoteRef, QuoteRef
<1>4. Alone(c)!MarketRejection(req, ev, pack) = MarketRejection(req, ev, pack)
  <2>1. \A reasons : Alone(c)!FirstReason(reasons) = FirstReason(reasons)
    BY DEF Alone!FirstReason, FirstReason
  <2>2. \A t : Alone(c)!DayOf(t) = DayOf(t) /\ Alone(c)!TimeOfDay(t) = TimeOfDay(t)
    BY DEF Alone!DayOf, DayOf, Alone!TimeOfDay, TimeOfDay, Alone!DaySeconds, DaySeconds
  <2>4. \A at : Alone(c)!QuoteTimeRejection(at, ev) = QuoteTimeRejection(at, ev)
    BY DEF Alone!QuoteTimeRejection, QuoteTimeRejection, Alone!FirstReason, FirstReason, Alone!When, When,
       Alone!TooOld, TooOld, Alone!MaxQuoteAge, MaxQuoteAge,
       Alone!DayOf, DayOf, Alone!TimeOfDay, TimeOfDay, Alone!DaySeconds, DaySeconds
  <2>5. \A calendar, day : Alone(c)!DateRejection(calendar, day) = DateRejection(calendar, day)
    BY DEF Alone!DateRejection, DateRejection, Alone!FirstReason, FirstReason, Alone!When, When,
       Alone!CalendarDay, CalendarDay, Alone!Covers, Covers, Alone!IsWeekend, IsWeekend
  <2>6. \A p, time : Alone(c)!SessionRejection(p, time) = SessionRejection(p, time)
    BY DEF Alone!SessionRejection, SessionRejection, Alone!FirstReason, FirstReason, Alone!When, When,
       Alone!Contains, Contains
  <2>7. \A snap, symbol, pinned, day :
          Alone(c)!QuantityRefusal(snap, symbol, pinned, day)
            = QuantityRefusal(snap, symbol, pinned, day)
    BY DEF Alone!QuantityRefusal, QuantityRefusal, Alone!FirstReason, FirstReason, Alone!When, When,
       Alone!Covers, Covers, Alone!Identity, Identity, Alone!QuantityRuleVersion, QuantityRuleVersion
  <2>8. \A side, quote : Alone(c)!QuoteStatusRejection(side, quote) = QuoteStatusRejection(side, quote)
    BY DEF Alone!QuoteStatusRejection, QuoteStatusRejection, Alone!FirstReason, FirstReason, Alone!When, When
  <2>9. \A side, at, level : Alone(c)!LevelRejection(side, at, level) = LevelRejection(side, at, level)
    BY DEF Alone!LevelRejection, LevelRejection, Alone!FirstReason, FirstReason, Alone!When, When,
       Alone!TooOld, TooOld, Alone!MaxQuoteAge, MaxQuoteAge,
       Alone!DayOf, DayOf, Alone!TimeOfDay, TimeOfDay, Alone!DaySeconds, DaySeconds
  <2> QED
    BY <2>1, <2>2, <2>4, <2>5, <2>6, <2>7, <2>8, <2>9 DEF Alone!MarketRejection, MarketRejection
<1>5. Alone(c)!QuantityRule(pack.instruments, ev.instrument)
        = QuantityRule(pack.instruments, ev.instrument)
  BY DEF Alone!QuantityRule, QuantityRule
<1>6. ASSUME NEW level, NEW rule
      PROVE  Alone(c)!Execute(state, req, level, rule) = Execute(state, req, level, rule)
  <2>1. \A t : Alone(c)!DayOf(t) = DayOf(t)
    BY DEF Alone!DayOf, DayOf, Alone!DaySeconds, DaySeconds
  <2>2. \A gross : /\ Alone(c)!Commission(gross) = Commission(gross)
                   /\ \A side : Alone(c)!StampDuty(side, gross) = StampDuty(side, gross)
    BY DEF Alone!Commission, Commission, Alone!StampDuty, StampDuty, Alone!CheckedFee, CheckedFee,
       Alone!Larger, Larger, Alone!MinCommission, MinCommission,
       Alone!CommissionBps, CommissionBps, Alone!StampDutyBps, StampDutyBps
  <2>4. \A price : Alone(c)!BuyQuantity(state.cash, price, rule) = BuyQuantity(state.cash, price, rule)
    BY DEF Alone!BuyQuantity, BuyQuantity, Alone!BuyBudget, BuyBudget,
       Alone!BuyBudgetBps, BuyBudgetBps, Alone!Greatest, Greatest, Alone!BuyCost, BuyCost,
       Alone!Commission, Commission, Alone!CheckedFee, CheckedFee,
       Alone!Larger, Larger, Alone!MinCommission, MinCommission, Alone!CommissionBps, CommissionBps
  <2>5. \A symbol : /\ Alone(c)!Quantity(state, symbol) = Quantity(state, symbol)
                    /\ \A day : Alone(c)!SellableQuantity(state, symbol, day)
                                  = SellableQuantity(state, symbol, day)
    BY DEF Alone!Quantity, Quantity, Alone!SellableQuantity, SellableQuantity, Alone!Units, Units,
       Alone!LotsOf, LotsOf, Alone!Sellable, Sellable
  <2>6. \A price : Alone(c)!OrderQuantity(req, state, price, rule) = OrderQuantity(req, state, price, rule)
    BY <2>1, <2>4, <2>5 DEF Alone!OrderQuantity, OrderQuantity
  <2>7. Alone(c)!PositionRejection(req, state) = PositionRejection(req, state)
    BY DEF Alone!PositionRejection, PositionRejection, Alone!Quantity, Quantity,
       Alone!Units, Units, Alone!LotsOf, LotsOf
  <2>8. \A price : Alone(c)!SizingOverflows(req, state, price, rule)
                     = SizingOverflows(req, state, price, rule)
    BY DEF Alone!SizingOverflows, SizingOverflows, Alone!Overflows, Overflows,
       Alone!BuyBudgetBps, BuyBudgetBps
  <2>9. \A side, quantity : Alone(c)!QuantityRejection(side, quantity, rule, level)
                              = QuantityRejection(side, quantity, rule, level)
    BY DEF Alone!QuantityRejection, QuantityRejection, Alone!FirstReason, FirstReason,
       Alone!When, When, Alone!Capacity, Capacity
  <2>10. \A side, gross : Alone(c)!FeesOverflow(side, gross) = FeesOverflow(side, gross)
    BY <2>2 DEF Alone!FeesOverflow, FeesOverflow, Alone!FeeOverflows, FeeOverflows,
       Alone!Overflows, Overflows, Alone!CommissionBps, CommissionBps,
       Alone!StampDutyBps, StampDutyBps
  <2>11. \A quantity, price : Alone(c)!FillOf(req, quantity, price) = FillOf(req, quantity, price)
    BY <2>1, <2>2 DEF Alone!FillOf, FillOf
  <2>12. \A fill : Alone(c)!Apply(state, fill) = Apply(state, fill)
    BY AloneApplies
  <2>13. /\ \A reason : Alone(c)!Rejected(state, reason) = Rejected(state, reason)
         /\ \A fill, cash : Alone(c)!Filled(fill, cash) = Filled(fill, cash)
         /\ \A name : Alone(c)!Err(name) = Err(name)
    BY DEF Alone!Rejected, Rejected, Alone!Filled, Filled, Alone!Ok, Ok, Alone!Err, Err
  <2>14. PICK price, quantity, refusal, fill, next :
           /\ price = level.price
           /\ quantity = OrderQuantity(req, state, price, rule)
           /\ refusal = QuantityRejection(req.signal.side, quantity, rule, level)
           /\ fill = FillOf(req, quantity, price) /\ next = Apply(state, fill)
    OBVIOUS
  <2> DEFINE result ==
        IF PositionRejection(req, state) # "" THEN Rejected(state, PositionRejection(req, state))
        ELSE IF SizingOverflows(req, state, price, rule) THEN Err("amount_overflow")
        ELSE IF refusal # "" THEN Rejected(state, refusal)
        ELSE IF FeesOverflow(req.signal.side, quantity * price) THEN Err("amount_overflow")
        ELSE IF ~next.ok THEN next
        ELSE Filled(fill, next.value.cash)
  <2>15. Execute(state, req, level, rule) = result
    BY <2>14 DEF Execute
  <2>16. /\ Alone(c)!OrderQuantity(req, state, level.price, rule) = quantity
         /\ Alone(c)!QuantityRejection(req.signal.side, quantity, rule, level) = refusal
         /\ Alone(c)!FillOf(req, quantity, price) = fill /\ Alone(c)!Apply(state, fill) = next
    BY <2>6, <2>9, <2>11, <2>12, <2>14
  <2>17. Alone(c)!Execute(state, req, level, rule) = result
    BY <2>7, <2>8, <2>10, <2>13, <2>14, <2>16, ZenonT(40) DEF Alone!Execute
  <2> HIDE DEF result
  <2> QED
    BY <2>15, <2>17
<1>7. /\ \A name : Alone(c)!Err(name) = Err(name)
      /\ \A reason : Alone(c)!Rejected(state, reason) = Rejected(state, reason)
  BY DEF Alone!Rejected, Rejected, Alone!Ok, Ok, Alone!Err, Err
<1> QED
  BY <1>1, <1>2, <1>3, <1>4, <1>5, <1>6, <1>7 DEF Alone!Decide, Decide

\* The row, the pack and the specification of the experiment are still there.
LEMMA AloneLoads ==
  ASSUME IInv, NEW c \in DOMAIN experiments
  PROVE  /\ Alone(c)!ExperimentError(c) = ""
         /\ Alone(c)!PackOf(c) = PackOf(c)
         /\ Alone(c)!Accepting(c) <=> Accepting(c)
<1> DEFINE own == [k \in {c} |-> experiments[k]]
           kept == [id \in OwnPack(c) |-> packs[id]]
           spec == own[c].spec
           strategy == spec.strategy.strategy_version_id
           input == spec.strategy.research_input_id
<1>0. own[c] = experiments[c] /\ DOMAIN own = {c}
  OBVIOUS
<1>1. /\ SpecValid(spec) /\ spec.cycle_id = c
      /\ own[c].manifest = Catalogue[spec.pack].pack_id
      /\ Holds(packs, spec.pack, Catalogue[spec.pack])
      /\ Holds(artifacts, strategy, spec.strategy)
      /\ Holds(inputs, input, ReviewedInputs[input])
  BY <1>0 DEF IInv, ReferencesIntact
<1>2. /\ DOMAIN kept = {spec.pack} /\ spec.pack \in DOMAIN packs
      /\ kept[spec.pack] = packs[spec.pack]
  BY <1>0, <1>1 DEF OwnPack, Holds
<1>3. /\ Alone(c)!PackOf(c) = PackOf(c)
      /\ Alone(c)!Accepting(c) <=> Accepting(c)
  BY <1>0, <1>2 DEF Alone!PackOf, PackOf, Alone!Accepting, Accepting
<1>4. Alone(c)!SpecValid(spec)
  BY <1>1 DEF Alone!SpecValid, SpecValid, Alone!PolicyVersion, PolicyVersion
<1>5. /\ Alone(c)!Holds(kept, spec.pack, Catalogue[spec.pack])
      /\ Alone(c)!Holds(artifacts, strategy, spec.strategy)
      /\ Alone(c)!Holds(inputs, input, ReviewedInputs[input])
  BY <1>1, <1>2 DEF Alone!Holds, Holds
<1> DEFINE w1 == Alone(c)!When(~Alone(c)!Holds(kept, spec.pack, Catalogue[spec.pack]),
                               "pinned_market_snapshot_mismatch")
           w2 == Alone(c)!When(own[c].manifest # Catalogue[spec.pack].pack_id,
                               "experiment_pack_reference_mismatch")
           w3 == Alone(c)!When(spec.cycle_id # c, "experiment_identity_mismatch")
           w4 == Alone(c)!When(~Alone(c)!Holds(artifacts, strategy, spec.strategy),
                               "experiment_artifact_mismatch")
           w5 == Alone(c)!When(~Alone(c)!Holds(inputs, input, ReviewedInputs[input]),
                               "pinned_research_input_mismatch")
           reasons == <<w1, w2, w3, w4, w5>>
<1>6. Alone(c)!ExperimentError(c) = Alone(c)!FirstReason(reasons)
  BY <1>0, <1>4, Zenon DEF Alone!ExperimentError
<1>7. w1 = "" /\ w2 = "" /\ w3 = "" /\ w4 = "" /\ w5 = ""
  BY <1>1, <1>5, Zenon DEF Alone!When
<1> HIDE DEF w1, w2, w3, w4, w5
<1>8. /\ DOMAIN reasons = 1..5
      /\ \A i \in 1..5 : reasons[i] \in {w1, w2, w3, w4, w5}
  OBVIOUS
<1> HIDE DEF reasons
<1>9. \A i \in 1..5 : reasons[i] = ""
  BY <1>7, <1>8
<1>10. Alone(c)!FirstReason(reasons) = FirstReason(reasons)
  BY DEF Alone!FirstReason, FirstReason
<1> QED
  BY <1>3, <1>6, <1>8, <1>9, <1>10, NoReason

\* The request is judged against the same row.
LEMMA AloneOwns ==
  ASSUME NEW req
  PROVE  Alone(req.cycle_id)!OwnershipError(req) = OwnershipError(req)
<1> DEFINE c == req.cycle_id
           own == [k \in {c} |-> experiments[k]]
           spec == experiments[c].spec
<1>1. own[c] = experiments[c]
  OBVIOUS
<1> DEFINE reasons == <<
             When(req.schema_version # 4, "unsupported_contract_version"),
             When(req.strategy_version_id # spec.strategy.strategy_version_id,
                  "experiment_strategy_mismatch"),
             When(req.quote_ref.pack # spec.pack, "experiment_quote_data_pack_mismatch") >>
           again == <<
             Alone(c)!When(req.schema_version # 4, "unsupported_contract_version"),
             Alone(c)!When(req.strategy_version_id # own[c].spec.strategy.strategy_version_id,
                  "experiment_strategy_mismatch"),
             Alone(c)!When(req.quote_ref.pack # own[c].spec.pack,
                  "experiment_quote_data_pack_mismatch") >>
<1>2. OwnershipError(req) = FirstReason(reasons)
  BY DEF OwnershipError
<1>3. Alone(c)!OwnershipError(req) = Alone(c)!FirstReason(again)
  BY DEF Alone!OwnershipError
<1>4. again = reasons
  BY <1>1 DEF Alone!When, When
<1> HIDE DEF reasons, again
<1>5. Alone(c)!FirstReason(reasons) = FirstReason(reasons)
  BY DEF Alone!FirstReason, FirstReason
<1> QED
  BY <1>2, <1>3, <1>4, <1>5

\* Evidence of the experiment's own pack is found as before.
LEMMA AloneFinds ==
  ASSUME NEW c, NEW ref, ref.pack = experiments[c].spec.pack
  PROVE  Alone(c)!StoredEvidence(ref) = StoredEvidence(ref)
BY DEF Alone!StoredEvidence, StoredEvidence, OwnPack

\* The rows an experiment keeps, in the numbers they get.
KeptRuns(c) == [n \in 1..Cardinality(OwnRuns(c)) |-> runs[Nth(OwnRuns(c), n)]]
KeptFills(c) ==
  [n \in 1..Cardinality(OwnFills(c)) |->
     [run  |-> Rank(OwnRuns(c), fills[Nth(OwnFills(c), n)].run),
      fill |-> fills[Nth(OwnFills(c), n)].fill]]

\* They are the rows of the experiment, all of them, in the order they had.
LEMMA RowsKept ==
  ASSUME IInv, NEW c
  PROVE  /\ Cardinality(OwnRuns(c)) \in Nat
         /\ \A i \in OwnRuns(c) : /\ Rank(OwnRuns(c), i) \in DOMAIN KeptRuns(c)
                                  /\ Nth(OwnRuns(c), Rank(OwnRuns(c), i)) = i
                                  /\ KeptRuns(c)[Rank(OwnRuns(c), i)] = runs[i]
         /\ \A n \in DOMAIN KeptRuns(c) : /\ Nth(OwnRuns(c), n) \in OwnRuns(c)
                                          /\ Rank(OwnRuns(c), Nth(OwnRuns(c), n)) = n
                                          /\ KeptRuns(c)[n] = runs[Nth(OwnRuns(c), n)]
                                          /\ KeptRuns(c)[n].request.cycle_id = c
         /\ \A i, j \in OwnRuns(c) : i <= j <=> Rank(OwnRuns(c), i) <= Rank(OwnRuns(c), j)
<1>1. Len(runs) \in Nat /\ OwnRuns(c) \subseteq 1..Len(runs) /\ Cardinality(OwnRuns(c)) \in Nat
  BY OwnRunsAreFinite DEF IInv
<1>2. /\ \A i \in OwnRuns(c) : /\ Rank(OwnRuns(c), i) \in 1..Cardinality(OwnRuns(c))
                               /\ Nth(OwnRuns(c), Rank(OwnRuns(c), i)) = i
      /\ \A n \in 1..Cardinality(OwnRuns(c)) : /\ Nth(OwnRuns(c), n) \in OwnRuns(c)
                                               /\ Rank(OwnRuns(c), Nth(OwnRuns(c), n)) = n
      /\ \A i, j \in OwnRuns(c) : i < j => Rank(OwnRuns(c), i) < Rank(OwnRuns(c), j)
  BY <1>1, RanksCount
<1>3. \A i \in OwnRuns(c) : runs[i].request.cycle_id = c
  BY DEF OwnRuns
<1>4. DOMAIN KeptRuns(c) = 1..Cardinality(OwnRuns(c))
      /\ \A n \in DOMAIN KeptRuns(c) : KeptRuns(c)[n] = runs[Nth(OwnRuns(c), n)]
  BY DEF KeptRuns
<1>5. ASSUME NEW i \in OwnRuns(c), NEW j \in OwnRuns(c)
      PROVE  i <= j <=> Rank(OwnRuns(c), i) <= Rank(OwnRuns(c), j)
  <2>1. /\ i \in Int /\ j \in Int
        /\ Rank(OwnRuns(c), i) \in Int /\ Rank(OwnRuns(c), j) \in Int
    BY <1>1, <1>2
  <2>2. i = j \/ i < j \/ j < i
    BY <2>1
  <2>3. /\ i < j => Rank(OwnRuns(c), i) < Rank(OwnRuns(c), j)
        /\ j < i => Rank(OwnRuns(c), j) < Rank(OwnRuns(c), i)
    BY <1>2
  <2> QED
    BY <2>1, <2>2, <2>3
<1> QED
  BY <1>1, <1>2, <1>3, <1>4, <1>5

\* A repeated request finds its run, under its new number.
LEMMA AlonePrior ==
  ASSUME IInv, NEW req, NEW c, c = req.cycle_id
  PROVE  Alone(c)!PriorRuns(req) = {Rank(OwnRuns(c), i) : i \in PriorRuns(req)}
<1>1. PriorRuns(req) \subseteq OwnRuns(c)
  BY DEF PriorRuns, SameSignal, OwnRuns
<1>2. Alone(c)!PriorRuns(req) = {n \in DOMAIN KeptRuns(c) : SameSignal(KeptRuns(c)[n], req)}
  BY DEF Alone!PriorRuns, Alone!SameSignal, SameSignal, KeptRuns, Alone!Cardinality, Cardinality
<1>3. ASSUME NEW n \in DOMAIN KeptRuns(c)
      PROVE  SameSignal(KeptRuns(c)[n], req) <=> Nth(OwnRuns(c), n) \in PriorRuns(req)
  <2>1. PICK i : i = Nth(OwnRuns(c), n)
    OBVIOUS
  <2>2. i \in OwnRuns(c) /\ KeptRuns(c)[n] = runs[i]
    BY <2>1, RowsKept
  <2> QED
    BY <2>1, <2>2 DEF PriorRuns, OwnRuns
<1>4. \A i \in OwnRuns(c) : /\ Rank(OwnRuns(c), i) \in DOMAIN KeptRuns(c)
                            /\ Nth(OwnRuns(c), Rank(OwnRuns(c), i)) = i
  BY RowsKept
<1>5. \A n \in DOMAIN KeptRuns(c) : Rank(OwnRuns(c), Nth(OwnRuns(c), n)) = n
  BY RowsKept
<1> QED
  BY <1>1, <1>2, <1>3, <1>4, <1>5

\* The last of the kept runs is the last run of the experiment.
LEMMA AloneOrders ==
  ASSUME IInv, NEW req, NEW c, c = req.cycle_id
  PROVE  Alone(c)!InOrder(req) <=> InOrder(req)
<1> DEFINE After(run) == IsTimestamp(req.decision_at) /\ req.decision_at >= run.request.decision_at
<1>1. Alone(c)!InOrder(req) <=>
        \A n \in DOMAIN KeptRuns(c) :
          (\A m \in DOMAIN KeptRuns(c) : m <= n) => After(KeptRuns(c)[n])
  <2>1. Alone(c)!OwnRuns(c) = {n \in DOMAIN KeptRuns(c) : KeptRuns(c)[n].request.cycle_id = c}
    BY DEF Alone!OwnRuns, KeptRuns, Alone!Cardinality, Cardinality
  <2>2. Alone(c)!OwnRuns(c) = DOMAIN KeptRuns(c)
    BY <2>1, RowsKept
  <2>3. Alone(c)!InOrder(req) <=>
          \A n \in Alone(c)!OwnRuns(c) :
            (\A m \in Alone(c)!OwnRuns(c) : m <= n) => After(KeptRuns(c)[n])
    BY DEF Alone!InOrder, Alone!IsTimestamp, IsTimestamp, KeptRuns, Alone!Cardinality, Cardinality
  <2> QED
    BY <2>2, <2>3
<1>2. InOrder(req) <=>
        \A i \in OwnRuns(c) : (\A j \in OwnRuns(c) : j <= i) => After(runs[i])
  BY DEF InOrder
<1> HIDE DEF After
<1>3. ASSUME InOrder(req), NEW n \in DOMAIN KeptRuns(c), \A m \in DOMAIN KeptRuns(c) : m <= n
      PROVE  After(KeptRuns(c)[n])
  <2>1. PICK i : i = Nth(OwnRuns(c), n)
    OBVIOUS
  <2>2. i \in OwnRuns(c) /\ KeptRuns(c)[n] = runs[i] /\ Rank(OwnRuns(c), i) = n
    BY <2>1, RowsKept
  <2>3. ASSUME NEW j \in OwnRuns(c) PROVE j <= i
    <3>1. Rank(OwnRuns(c), j) \in DOMAIN KeptRuns(c)
      BY RowsKept
    <3>2. Rank(OwnRuns(c), j) <= Rank(OwnRuns(c), i)
      BY <1>3, <2>2, <3>1
    <3> QED
      BY <2>2, <3>2, RowsKept
  <2> QED
    BY <1>2, <1>3, <2>2, <2>3
<1>4. ASSUME Alone(c)!InOrder(req), NEW i \in OwnRuns(c), \A j \in OwnRuns(c) : j <= i
      PROVE  After(runs[i])
  <2>1. PICK n : n = Rank(OwnRuns(c), i)
    OBVIOUS
  <2>2. n \in DOMAIN KeptRuns(c) /\ KeptRuns(c)[n] = runs[i]
    BY <2>1, RowsKept
  <2>3. ASSUME NEW m \in DOMAIN KeptRuns(c) PROVE m <= n
    <3>1. PICK j : j = Nth(OwnRuns(c), m)
      OBVIOUS
    <3>2. j \in OwnRuns(c) /\ Rank(OwnRuns(c), j) = m
      BY <3>1, RowsKept
    <3>3. j <= i
      BY <1>4, <3>2
    <3>4. Rank(OwnRuns(c), j) <= Rank(OwnRuns(c), i)
      BY <3>2, <3>3, RowsKept
    <3> QED
      BY <2>1, <3>2, <3>4
  <2> QED
    BY <1>1, <1>4, <2>2, <2>3
<1> QED
  BY <1>1, <1>2, <1>3, <1>4

\* A repeated request is answered with the same run.
LEMMA AloneRepeats ==
  ASSUME IInv, NEW req, NEW c, c = req.cycle_id, NEW i \in PriorRuns(req), NEW pack
  PROVE  ReplyBody(Alone(c)!DuplicateReply(req, Rank(OwnRuns(c), i), pack))
           = ReplyBody(DuplicateReply(req, i, pack))
<1>1. i \in OwnRuns(c) /\ i \in DOMAIN runs
  BY DEF PriorRuns, SameSignal, OwnRuns
<1>2. PICK n, run : n = Rank(OwnRuns(c), i) /\ run = runs[i]
  OBVIOUS
<1>3. KeptRuns(c)[n] = run
  BY <1>1, <1>2, RowsKept
<1>4. run.request.quote_ref.pack = experiments[c].spec.pack
  <2>1. OwnershipError(run.request) = "" /\ run.request.cycle_id = c
    BY <1>1, <1>2 DEF IInv, RunsStillOwned, RunStillOwned, OwnRuns
  <2> QED
    BY <2>1, OwnershipIs
<1>5. Alone(c)!StoredEvidence(run.request.quote_ref) = StoredEvidence(run.request.quote_ref)
  BY <1>4, AloneFinds
<1>6. Alone(c)!PinnedIntact(run, pack) <=> PinnedIntact(run, pack)
  BY <1>5 DEF Alone!PinnedIntact, PinnedIntact, Alone!InstrumentPinned, InstrumentPinned,
     Alone!QuoteRef, QuoteRef, Alone!Identity, Identity
<1>7. Alone(c)!VersionsOf(pack) = VersionsOf(pack)
  BY DEF Alone!VersionsOf, VersionsOf
<1> DEFINE Reply(id) ==
      IF run.versions # VersionsOf(pack) THEN Err("run_market_version_mismatch")
      ELSE IF run.request # req THEN Err("same_signal_identity_with_different_request")
      ELSE IF ~PinnedIntact(run, pack) THEN Err("stored_evidence_mismatch")
      ELSE Ok([id |-> id, run |-> run, duplicate |-> TRUE])
<1>8. DuplicateReply(req, i, pack) = Reply(i)
  BY <1>2 DEF DuplicateReply
<1>9. Alone(c)!DuplicateReply(req, n, pack) = Reply(n)
  <2>1. /\ \A name : Alone(c)!Err(name) = Err(name)
        /\ \A value : Alone(c)!Ok(value) = Ok(value)
    BY DEF Alone!Ok, Ok, Alone!Err, Err
  <2>2. Alone(c)!DuplicateReply(req, n, pack) =
          IF KeptRuns(c)[n].versions # Alone(c)!VersionsOf(pack)
            THEN Alone(c)!Err("run_market_version_mismatch")
          ELSE IF KeptRuns(c)[n].request # req
            THEN Alone(c)!Err("same_signal_identity_with_different_request")
          ELSE IF ~Alone(c)!PinnedIntact(KeptRuns(c)[n], pack)
            THEN Alone(c)!Err("stored_evidence_mismatch")
          ELSE Alone(c)!Ok([id |-> n, run |-> KeptRuns(c)[n], duplicate |-> TRUE])
    BY DEF Alone!DuplicateReply, KeptRuns, Alone!Cardinality, Cardinality
  <2> QED
    BY <1>3, <1>6, <1>7, <2>1, <2>2
<1>10. ReplyBody(Reply(n)) = ReplyBody(Reply(i))
  BY DEF ReplyBody, Ok, Err
<1> HIDE DEF Reply
<1> QED
  BY <1>2, <1>8, <1>9, <1>10

\* The rules of accounting do not look at the file.
LEMMA AloneProjects ==
  ASSUME NEW c, NEW cash, NEW rows
  PROVE  Alone(c)!Project(cash, rows) = Project(cash, rows)
BY DEF Alone!Project, Project, Alone!ApplyNext, ApplyNext, Alone!NewPortfolio, NewPortfolio,
   Alone!Apply, Apply, Alone!ApplyBuy, ApplyBuy, Alone!ApplySell, ApplySell,
   Alone!Err, Err, Alone!Ok, Ok, Alone!Overflows, Overflows, Alone!BuyTotal, BuyTotal,
   Alone!LotSize, LotSize, Alone!Sellable, Sellable, Alone!LotsOf, LotsOf,
   Alone!SellableQuantity, SellableQuantity, Alone!Units, Units,
   Alone!AfterSelling, AfterSelling, Alone!Remaining, Remaining, Alone!Retain, Retain,
   Alone!Taken, Taken, Alone!Demand, Demand, Alone!Larger, Larger, Alone!Smaller, Smaller

\* The kept fills give the portfolio of the experiment.
LEMMA AloneBooks ==
  ASSUME IInv, NEW c \in DOMAIN experiments
  PROVE  Alone(c)!LoadState(c) = LoadState(c)
<1>1. /\ Len(fills) \in Nat /\ DOMAIN fills = 1..Len(fills)
      /\ Len(FillRows(c)) = Len(fills)
  BY RowsAreNumbered DEF IInv, RowsNumbered
<1>2. PICK S, count, cash : /\ S = OwnFills(c) /\ count = Cardinality(S)
                            /\ cash = experiments[c].spec.initial_cash
  OBVIOUS
<1>3. S \subseteq 1..Len(fills)
  BY <1>1, <1>2 DEF OwnFills
<1>4. /\ count \in Nat
      /\ \A n \in 1..count : Nth(S, n) \in S
  BY <1>1, <1>2, <1>3, Ranks, RanksCount
<1> DEFINE rows == [n \in DOMAIN KeptFills(c) |->
                      IF KeptRuns(c)[KeptFills(c)[n].run].request.cycle_id = c
                        THEN KeptFills(c)[n].fill ELSE None]
<1>5. Alone(c)!LoadState(c) = Alone(c)!Project([k \in {c} |-> experiments[k]][c].spec.initial_cash, rows)
  BY DEF Alone!LoadState, KeptRuns, KeptFills, Alone!Cardinality, Cardinality
<1>6. [k \in {c} |-> experiments[k]][c].spec.initial_cash = cash
  BY <1>2
<1>7. /\ DOMAIN KeptFills(c) = 1..count
      /\ \A n \in 1..count : /\ KeptFills(c)[n].run = Rank(OwnRuns(c), fills[Nth(S, n)].run)
                             /\ KeptFills(c)[n].fill = fills[Nth(S, n)].fill
  BY <1>2 DEF KeptFills
<1>8. ASSUME NEW n \in 1..count PROVE rows[n] = FillRows(c)[Nth(S, n)]
  <2>1. PICK f : f = Nth(S, n)
    OBVIOUS
  <2>2. /\ f \in DOMAIN fills /\ fills[f].run \in DOMAIN runs
        /\ runs[fills[f].run].request.cycle_id = c
    BY <1>2, <1>4, <2>1 DEF OwnFills, IInv, FillsMirrorRuns
  <2>3. fills[f].run \in OwnRuns(c)
    BY <2>2 DEF OwnRuns
  <2>4. KeptRuns(c)[Rank(OwnRuns(c), fills[f].run)].request.cycle_id = c
    BY <2>2, <2>3, RowsKept
  <2>5. rows[n] = fills[f].fill
    BY <1>7, <2>1, <2>4
  <2> QED
    BY <2>1, <2>2, <2>5 DEF FillRows
<1>9. DOMAIN rows = 1..count
  BY <1>7
<1>10. rows = [n \in 1..count |-> rows[n]]
  BY <1>9
<1> HIDE DEF rows
<1>11. Len(rows) = count
  BY <1>4, <1>10, LenOfFunction
<1>12. \A f \in 1..Len(fills) : f \notin S => FillRows(c)[f] = None
  BY <1>1, <1>2 DEF FillRows, OwnFills
<1>13. Project(cash, rows) = Project(cash, FillRows(c))
  <2>1. /\ Len(FillRows(c)) = Len(fills) /\ Len(fills) \in Nat
        /\ S \subseteq 1..Len(fills) /\ Len(rows) = Cardinality(S)
        /\ \A n \in 1..Cardinality(S) : rows[n] = FillRows(c)[Nth(S, n)]
    BY <1>1, <1>2, <1>3, <1>8, <1>11
  <2>2. Selects(rows, S, FillRows(c))
    BY <1>12, <2>1 DEF Selects
  <2> QED
    BY <2>2, ProjectPicks
<1>14. LoadState(c) = Project(cash, FillRows(c))
  BY <1>2 DEF LoadState, FillRows
<1> QED
  BY <1>5, <1>6, <1>13, <1>14, AloneProjects

\* A fresh request is decided the same.
LEMMA AloneFresh ==
  ASSUME IInv, NEW req, NEW c \in DOMAIN experiments, c = req.cycle_id, OwnershipError(req) = "",
         NEW pack
  PROVE  ReplyBody(Alone(c)!FreshReply(req, pack)) = ReplyBody(FreshReply(req, pack))
<1>1. PICK book, ev, decision : /\ book = LoadState(c) /\ ev = StoredEvidence(req.quote_ref)
                                /\ decision = Decide(book.value, req, ev, pack)
  OBVIOUS
<1>2. Alone(c)!LoadState(c) = book
  BY <1>1, AloneBooks
<1>3. Alone(c)!StoredEvidence(req.quote_ref) = ev
  BY <1>1, OwnershipIs, AloneFinds
<1>4. Alone(c)!Decide(book.value, req, ev, pack) = decision
  BY <1>1, AloneDecides
<1>5. /\ Alone(c)!InstrumentPinned(pack, ev) <=> InstrumentPinned(pack, ev)
      /\ Alone(c)!VersionsOf(pack) = VersionsOf(pack)
      /\ \A name : Alone(c)!Err(name) = Err(name)
      /\ \A value : Alone(c)!Ok(value) = Ok(value)
  BY DEF Alone!InstrumentPinned, InstrumentPinned, Alone!Identity, Identity,
     Alone!VersionsOf, VersionsOf, Alone!Ok, Ok, Alone!Err, Err
<1> DEFINE Decided(id) ==
      IF ~decision.ok THEN decision
      ELSE Ok([id |-> id, duplicate |-> FALSE,
               run |-> [request |-> req, outcome |-> decision.value, evidence |-> ev,
                        versions |-> VersionsOf(pack)]])
    Reply(id) ==
      IF ~book.ok THEN book
      ELSE IF ev # None /\ ~InstrumentPinned(pack, ev) THEN Err("stored_instrument_identity_mismatch")
      ELSE Decided(id)
<1>6. FreshReply(req, pack) = Reply(NextRun)
  BY <1>1 DEF FreshReply, DecidedReply
<1>7. Alone(c)!FreshReply(req, pack) = Reply(Alone(c)!NextRun)
  <2>1. Alone(c)!DecidedReply(req, pack, ev, decision) = Decided(Alone(c)!NextRun)
    BY <1>5 DEF Alone!DecidedReply
  <2> HIDE DEF Decided
  <2> QED
    BY <1>2, <1>3, <1>4, <1>5, <2>1 DEF Alone!FreshReply
<1>8. ASSUME NEW a, NEW b PROVE ReplyBody(Reply(a)) = ReplyBody(Reply(b))
  <2>1. ReplyBody(Decided(a)) = ReplyBody(Decided(b))
    BY DEF ReplyBody, Ok
  <2> HIDE DEF Decided
  <2> QED
    BY <2>1
<1> HIDE DEF Reply
<1> QED
  BY <1>6, <1>7, <1>8

\* Every request is answered as if its experiment were alone in the file, with
\* no other pack's evidence: fresh or repeated, whatever others have recorded
\* under the same quote and signal names (submit, load_experiment, load_state).
THEOREM ExperimentsAreIsolated == Spec => []RepliesAreIsolated
<1>1. IInv => RepliesAreIsolated
  <2> SUFFICES ASSUME IInv, NEW req \in Requests, req.cycle_id \in DOMAIN experiments
               PROVE  ReplyBody(SubmitReply(req))
                        = ReplyBody(Alone(req.cycle_id)!SubmitReply(req))
    BY DEF RepliesAreIsolated
  <2>1. PICK c : c = req.cycle_id
    OBVIOUS
  <2>2. c \in DOMAIN experiments /\ ExperimentError(c) = ""
    BY <2>1, References DEF EveryExperimentLoads
  <2>3. /\ Alone(c)!ExperimentError(c) = "" /\ Alone(c)!PackOf(c) = PackOf(c)
        /\ Alone(c)!Accepting(c) <=> Accepting(c)
    BY <2>2, AloneLoads
  <2>4. Alone(c)!OwnershipError(req) = OwnershipError(req)
    BY <2>1, AloneOwns
  <2>5. Alone(c)!InOrder(req) <=> InOrder(req)
    BY <2>1, AloneOrders
  <2>6. Alone(c)!PriorRuns(req) = {Rank(OwnRuns(c), i) : i \in PriorRuns(req)}
    BY <2>1, AlonePrior
  <2>7. \A name : Alone(c)!Err(name) = Err(name)
    BY DEF Alone!Err, Err
  <2>8. CASE OwnershipError(req) # ""
    BY <2>1, <2>2, <2>3, <2>4, <2>7, <2>8 DEF SubmitReply, Alone!SubmitReply
  <2>9. CASE OwnershipError(req) = "" /\ PriorRuns(req) # {}
    <3>1. PICK i \in PriorRuns(req) : PriorRuns(req) = {i}
      <4>1. PICK i : i \in PriorRuns(req)
        BY <2>9
      <4>2. \A j \in PriorRuns(req) : j = i
        BY <4>1 DEF PriorRuns, SameSignal, IInv, OneRunPerSignal
      <4> QED
        BY <4>1, <4>2
    <3>2. Alone(c)!PriorRuns(req) = {Rank(OwnRuns(c), i)}
      BY <2>6, <3>1
    <3>3. /\ (CHOOSE j \in PriorRuns(req) : TRUE) = i
          /\ (CHOOSE j \in Alone(c)!PriorRuns(req) : TRUE) = Rank(OwnRuns(c), i)
      BY <3>1, <3>2
    <3>4. SubmitReply(req) = DuplicateReply(req, i, PackOf(c))
      BY <2>1, <2>2, <2>9, <3>3 DEF SubmitReply
    <3>5. Alone(c)!SubmitReply(req) = Alone(c)!DuplicateReply(req, Rank(OwnRuns(c), i), PackOf(c))
      BY <2>1, <2>3, <2>4, <2>9, <3>2, <3>3 DEF Alone!SubmitReply
    <3> QED
      BY <2>1, <3>4, <3>5, AloneRepeats
  <2>10. CASE OwnershipError(req) = "" /\ PriorRuns(req) = {}
    <3>1. Alone(c)!PriorRuns(req) = {}
      BY <2>6, <2>10
    <3>2. CASE ~Accepting(c) \/ ~InOrder(req)
      <4>1. Alone(c)!OrderError(req) = OrderError(req)
        BY DEF Alone!OrderError, OrderError, Alone!IsTimestamp, IsTimestamp
      <4> QED
        BY <2>1, <2>2, <2>3, <2>4, <2>5, <2>7, <2>10, <3>1, <3>2, <4>1
           DEF SubmitReply, Alone!SubmitReply
    <3>3. CASE Accepting(c) /\ InOrder(req)
      <4>1. SubmitReply(req) = FreshReply(req, PackOf(c))
        BY <2>1, <2>2, <2>10, <3>3 DEF SubmitReply
      <4>2. Alone(c)!SubmitReply(req) = Alone(c)!FreshReply(req, PackOf(c))
        BY <2>1, <2>3, <2>4, <2>5, <2>10, <3>1, <3>3 DEF Alone!SubmitReply
      <4> QED
        BY <2>1, <2>2, <2>10, <4>1, <4>2, AloneFresh, ZenonT(40)
    <3> QED
      BY <3>2, <3>3
  <2> QED
    BY <2>8, <2>9, <2>10
<1> QED
  BY <1>1, LedgerInvariant, PTL
=============================================================================
